-------------------------- MODULE NsCatalog_proofs --------------------------
(***************************************************************************)
(* Proofs about the name server's catalogue.  The array, the index and the *)
(* cache are treated once (ArrayInv and the lemmas AddKeeps, RemoveKeeps,  *)
(* RenameKeeps, OwnerKeeps); above that level the catalogue is the set     *)
(* Entries of its records.                                                 *)
(***************************************************************************)
EXTENDS NsCatalog, SequenceTheorems, TLAPS

-----------------------------------------------------------------------------
(* The array level *)

Entries == Range(files)

\* The part of TypeOK about the array, its index and its cache.
ArrayType ==
    /\ files \in Seq(FileMetadata)
    /\ Len(files) <= NS_MAX_FILES
    /\ DOMAIN file_index \subseteq Path
    /\ \A n \in DOMAIN file_index : file_index[n] \in Nat \ {0}
    /\ file_cache \subseteq [filename : Path, file_array_index : Nat \ {0}]

ArrayInv == ArrayType /\ IndexExact /\ CacheCoherent

\* An entry of the array is one record, under one name, at one position.
LEMMA EntryFacts ==
    ASSUME ArrayInv
    PROVE  /\ Names = {m.filename : m \in Entries}
           /\ Entries \subseteq FileMetadata
           /\ \A i, j \in Positions : files[i].filename = files[j].filename => i = j
           /\ \A m1, m2 \in Entries : m1.filename = m2.filename => m1 = m2
           /\ \A i \in Positions : files[i] \in Entries
           /\ \A m \in Entries : \E i \in Positions : files[i] = m
BY DEF ArrayInv, ArrayType, IndexExact, Names, Positions, Entries, Range

\* A lookup finds the one position of a name, or nothing.
LEMMA LookupFinds ==
    ASSUME ArrayInv
    PROVE  /\ \A n \in Names : /\ file_index[n] \in Positions
                               /\ files[file_index[n]].filename = n
                               /\ file_lookup_locked(n) = {file_index[n]}
                               /\ file_index_find(n) = {file_index[n]}
           /\ \A n : n \notin Names =>
                        file_lookup_locked(n) = {} /\ file_index_find(n) = {}
<1> USE DEF ArrayInv, ArrayType, IndexExact
<1>1. ASSUME NEW n \in Names
      PROVE  file_index[n] \in Positions /\ files[file_index[n]].filename = n
  BY DEF Names
<1>2. ASSUME NEW n \in Names
      PROVE  file_index_find(n) = {file_index[n]}
  BY <1>1 DEF file_index_find
<1>3. ASSUME NEW n, NEW i \in file_cache_lookup(n)
      PROVE  n \in Names /\ i = file_index[n]
  BY DEF file_cache_lookup, CacheCoherent, Names
<1>4. ASSUME NEW n \in Names
      PROVE  file_lookup_locked(n) = {file_index[n]}
  BY <1>2, <1>3 DEF file_lookup_locked
<1>5. ASSUME NEW n, n \notin Names
      PROVE  file_lookup_locked(n) = {} /\ file_index_find(n) = {}
  BY <1>3, <1>5 DEF file_lookup_locked, file_index_find
<1> QED BY <1>1, <1>2, <1>4, <1>5

\* What lookups put into the cache is right.
LEMMA StoreKeeps ==
    ASSUME ArrayInv, NEW S, UNCHANGED <<files, file_index>>,
           file_cache' \in file_cache_store(file_cache, Found(S))
    PROVE  ArrayInv' /\ Entries' = Entries /\ Names' = Names
<1>1. file_cache' \subseteq file_cache \cup Found(S)
  BY DEF file_cache_store
<1>2. ASSUME NEW e \in Found(S)
      PROVE  /\ e \in [filename : Path, file_array_index : Nat \ {0}]
             /\ e.file_array_index \in Positions
             /\ files[e.file_array_index].filename = e.filename
  BY LookupFinds DEF Found, ArrayInv, ArrayType, IndexExact, Names
<1>3. ArrayType' /\ IndexExact' /\ Names' = Names /\ Entries' = Entries
  BY <1>1, <1>2 DEF ArrayInv, ArrayType, IndexExact, Names, Positions, Entries
<1>4. CacheCoherent'
  BY <1>1, <1>2 DEF ArrayInv, CacheCoherent, Positions
<1> QED BY <1>3, <1>4 DEF ArrayInv

\* Appending an entry under a free name (add_file_metadata_locked, CREATE).
LEMMA AddKeeps ==
    ASSUME ArrayInv, Room, NEW m \in FileMetadata, m.filename \notin Names, AddEntry(m)
    PROVE  /\ ArrayInv'
           /\ Entries' = Entries \cup {m}
           /\ Names' = Names \cup {m.filename}
<1> DEFINE e == [filename |-> m.filename, file_array_index |-> Len(files) + 1]
<1> USE CatalogAssumption
<1>1. /\ files \in Seq(FileMetadata) /\ files' \in Seq(FileMetadata)
      /\ Len(files) \in Nat /\ Len(files') = Len(files) + 1
      /\ \A i \in Positions : files'[i] = files[i]
      /\ files'[Len(files) + 1] = m
  BY DEF ArrayInv, ArrayType, AddEntry, Positions
<1>2. Positions' = Positions \cup {Len(files) + 1}
  BY <1>1 DEF Positions
<1>3. Names' = Names \cup {m.filename}
  BY <1>1, <1>2 DEF Names
<1>4. Entries' = Entries \cup {m}
  BY <1>1, <1>2, SMTT(30) DEF Entries, Range, Positions
<1>5. /\ DOMAIN file_index' = DOMAIN file_index \cup {m.filename}
      /\ \A n \in DOMAIN file_index : n # m.filename => file_index'[n] = file_index[n]
      /\ file_index'[m.filename] = Len(files) + 1
  BY DEF AddEntry, file_index_insert
<1>6. IndexExact'
  <2>1. DOMAIN file_index' = Names'
    BY <1>3, <1>5 DEF ArrayInv, IndexExact
  <2>2. ASSUME NEW i \in Positions PROVE file_index'[files'[i].filename] = i
    BY <1>1, <1>5 DEF ArrayInv, IndexExact, Names
  <2> QED BY <2>1, <2>2, <1>1, <1>2, <1>5 DEF IndexExact
<1>7. file_cache' \subseteq file_cache \cup {e}
  BY DEF AddEntry, file_cache_store
<1>8. ArrayType'
  BY <1>1, <1>5, <1>7 DEF ArrayInv, ArrayType, Room, FileMetadata
<1>9. CacheCoherent'
  BY <1>1, <1>2, <1>7 DEF ArrayInv, CacheCoherent
<1> QED BY <1>3, <1>4, <1>6, <1>8, <1>9 DEF ArrayInv

\* Taking an entry out and filling its place with the last one.
LEMMA RemoveKeeps ==
    ASSUME ArrayInv, NEW n, remove_file_metadata_locked(n)
    PROVE  /\ ArrayInv'
           /\ Entries' = {m \in Entries : m.filename # n}
           /\ Names' = Names \ {n}
<1> USE CatalogAssumption
<1>1. CASE n \notin Names
  BY <1>1, EntryFacts, SMTT(60) DEF ArrayInv, ArrayType, IndexExact, CacheCoherent, Names,
     Positions, Entries, remove_file_metadata_locked
<1>2. CASE n \in Names
  <2> DEFINE r == file_index[n]
             l == Len(files)
  <2>1. /\ r \in Positions /\ files[r].filename = n /\ files \in Seq(FileMetadata)
        /\ l \in Nat /\ l >= 1 /\ r \in 1..l /\ n \in DOMAIN file_index
        /\ files # <<>> /\ removed_index(n) = r
    BY <1>2, LookupFinds DEF ArrayInv, ArrayType, IndexExact, removed_index, Positions
  <2>2. /\ files' = files_without(n)
        /\ file_index' = index_without(n)
        /\ file_cache' = cache_without(n)
    BY <2>1 DEF remove_file_metadata_locked
  <2>3. /\ files' \in Seq(FileMetadata) /\ Len(files') = l - 1
        /\ \A i \in 1..(l - 1) : files'[i] = IF i = r THEN files[l] ELSE files[i]
    <3> DEFINE filled == [files EXCEPT ![r] = files[l]]
    <3>1. /\ filled \in Seq(FileMetadata) /\ Len(filled) = l
          /\ \A i \in 1..l : filled[i] = IF i = r THEN files[l] ELSE files[i]
      BY <2>1
    <3>2. files' = SubSeq(filled, 1, l - 1)
      BY <2>1, <2>2 DEF files_without
    <3> HIDE DEF filled
    <3> QED BY <2>1, <3>1, <3>2
  <2>4. Positions' = 1..(l - 1) /\ Positions = 1..l
    BY <2>3 DEF Positions
  <2>5. \A i, j \in 1..l : files[i].filename = files[j].filename => i = j
    BY EntryFacts DEF Positions
  <2>6. Entries' = {m \in Entries : m.filename # n}
    <3>1. ASSUME NEW m \in Entries'
          PROVE  m \in Entries /\ m.filename # n
      <4>1. PICK i \in 1..(l - 1) : files'[i] = m
        BY <2>3 DEF Entries, Range
      <4>2. PICK j \in 1..l : files[j] = m /\ j # r
        BY <4>1, <2>1, <2>3
      <4> QED BY <4>2, <2>1, <2>5 DEF Entries, Range
    <3>2. ASSUME NEW m \in Entries, m.filename # n
          PROVE  m \in Entries'
      <4>1. PICK j \in 1..l : files[j] = m
        BY <2>1 DEF Entries, Range
      <4>2. j # r
        BY <4>1, <3>2, <2>1
      <4>3. \E i \in 1..(l - 1) : files'[i] = m
        BY <4>1, <4>2, <2>1, <2>3
      <4> QED BY <4>3, <2>3 DEF Entries, Range
    <3> QED BY <3>1, <3>2
  <2>7. Names' = Names \ {n}
    <3>1. Names' = {m.filename : m \in Entries'}
      BY <2>3 DEF Names, Positions, Entries, Range
    <3> QED BY <3>1, <2>6, EntryFacts
  <2>8. /\ DOMAIN file_index' = DOMAIN file_index \ {n}
        /\ \A m \in DOMAIN file_index \ {n} :
              file_index'[m] = IF r # l /\ m = LastName THEN r ELSE file_index[m]
    BY <2>1, <2>2 DEF index_without
  <2>9. IndexExact'
    <3>1. DOMAIN file_index' = Names'
      BY <2>7, <2>8 DEF ArrayInv, IndexExact
    <3>2. ASSUME NEW i \in 1..(l - 1)
          PROVE  file_index'[files'[i].filename] = i
      <4>1. files'[i].filename \in DOMAIN file_index \ {n}
        BY <3>1, <2>8, <2>4 DEF Names
      <4>2. CASE i = r
        BY <4>1, <4>2, <2>1, <2>3, <2>8 DEF LastName
      <4>3. CASE i # r
        <5>1. files'[i] = files[i] /\ i \in 1..l /\ i # l
          BY <4>3, <2>1, <2>3
        <5>2. files[i].filename # LastName /\ file_index[files[i].filename] = i
          BY <5>1, <2>1, <2>4, <2>5 DEF LastName, ArrayInv, IndexExact
        <5> QED BY <4>1, <5>1, <5>2, <2>8
      <4> QED BY <4>2, <4>3
    <3> QED BY <3>1, <3>2, <2>4 DEF IndexExact
  <2>10. ASSUME NEW e \in file_cache'
         PROVE  /\ e \in [filename : Path, file_array_index : Nat \ {0}]
                /\ e.file_array_index \in 1..(l - 1)
                /\ files'[e.file_array_index].filename = e.filename
    <3>1. PICK x \in file_cache :
             /\ x.filename # n
             /\ e = IF r # l /\ x.filename = LastName
                    THEN [x EXCEPT !.file_array_index = r] ELSE x
             /\ e.file_array_index < l
      BY <2>1, <2>2 DEF cache_without
    <3>2. /\ x \in [filename : Path, file_array_index : Nat \ {0}]
          /\ x.file_array_index \in 1..l
          /\ files[x.file_array_index].filename = x.filename
      BY <2>4 DEF ArrayInv, ArrayType, CacheCoherent
    <3>3. CASE r # l /\ x.filename = LastName
      <4>1. /\ e.filename = x.filename /\ e.file_array_index = r
            /\ e \in [filename : Path, file_array_index : Nat \ {0}]
        BY <3>1, <3>2, <3>3, <2>1, SMTT(30)
      <4>2. r \in 1..(l - 1) /\ files'[r] = files[l]
        BY <3>3, <2>1, <2>3, SMTT(30)
      <4> QED BY <4>1, <4>2, <3>3 DEF LastName
    <3>4. CASE ~(r # l /\ x.filename = LastName)
      <4>1. e = x /\ x.file_array_index # l
        BY <3>1, <3>2, <3>4
      <4>2. x.file_array_index # r
        BY <3>1, <3>2, <2>1
      <4> QED BY <4>1, <4>2, <3>1, <3>2, <2>1, <2>3
    <3> QED BY <3>3, <3>4
  <2>11. ArrayType'
    <3>1. ArrayType
      BY DEF ArrayInv
    <3>2. \A m \in DOMAIN file_index' : m \in Path /\ file_index'[m] \in Nat \ {0}
      BY <2>1, <2>8, <3>1 DEF ArrayType
    <3>3. Len(files') <= NS_MAX_FILES
      BY <2>1, <2>3, <3>1 DEF ArrayType
    <3> QED BY <2>3, <2>10, <3>2, <3>3 DEF ArrayType
  <2>12. CacheCoherent'
    BY <2>10, <2>4 DEF CacheCoherent
  <2> QED BY <2>6, <2>7, <2>9, <2>11, <2>12 DEF ArrayInv
<1> QED BY <1>1, <1>2

\* Giving the entry at position i a new name that no entry has.
LEMMA RenameKeeps ==
    ASSUME ArrayInv, NEW old \in Names, NEW new \in Path, new \notin Names,
           NEW i \in Positions, files[i].filename = old,
           file_index' = file_index_insert(
               file_index_remove_entry(file_index, old), new, i),
           files' = [files EXCEPT ![i].filename = new],
           file_cache' \in file_cache_store(
               file_cache_rename(old, new, i),
               {[filename |-> new, file_array_index |-> i]})
    PROVE  /\ ArrayInv'
           /\ Entries' = {IF m.filename = old THEN [m EXCEPT !.filename = new] ELSE m :
                             m \in Entries}
           /\ Names' = (Names \ {old}) \cup {new}
<1>1. /\ files \in Seq(FileMetadata) /\ files' \in Seq(FileMetadata)
      /\ Len(files') = Len(files) /\ Positions' = Positions
      /\ \A j \in Positions :
            files'[j] = IF j = i THEN [files[j] EXCEPT !.filename = new] ELSE files[j]
      /\ \A j \in Positions : files[j] \in FileMetadata
  <2>1. /\ files \in Seq(FileMetadata) /\ Positions = 1..Len(files)
        /\ \A j \in Positions : files[j] \in FileMetadata
    BY DEF ArrayInv, ArrayType, Positions
  <2>2. [files[i] EXCEPT !.filename = new] \in FileMetadata
    BY <2>1 DEF FileMetadata
  <2>3. files' = [files EXCEPT ![i] = [files[i] EXCEPT !.filename = new]]
    OBVIOUS
  <2>4. files' \in Seq(FileMetadata) /\ Len(files') = Len(files)
    BY <2>1, <2>2, <2>3
  <2>5. Positions' = Positions
    BY <2>4 DEF Positions
  <2>6. \A j \in Positions :
           files'[j] = IF j = i THEN [files[j] EXCEPT !.filename = new] ELSE files[j]
    BY <2>1, <2>3
  <2> QED BY <2>1, <2>4, <2>5, <2>6
<1>2. \A j, k \in Positions : files[j].filename = files[k].filename => j = k
  BY EntryFacts
<1>3. \A j \in Positions :
         files'[j].filename = IF j = i THEN new ELSE files[j].filename
  BY <1>1 DEF FileMetadata
<1>4. Names' = (Names \ {old}) \cup {new}
  BY <1>1, <1>2, <1>3 DEF Names
<1>5. Entries' = {IF m.filename = old THEN [m EXCEPT !.filename = new] ELSE m :
                     m \in Entries}
  <2>1. Entries' = {files'[j] : j \in Positions} /\ Entries = {files[j] : j \in Positions}
    BY <1>1 DEF Entries, Range, Positions
  <2>2. \A j \in Positions :
           files'[j] = IF files[j].filename = old
                       THEN [files[j] EXCEPT !.filename = new] ELSE files[j]
    BY <1>1, <1>2
  <2> DEFINE f(m) == IF m.filename = old THEN [m EXCEPT !.filename = new] ELSE m
  <2>3. \A j \in Positions : files'[j] = f(files[j])
    BY <2>2
  <2> HIDE DEF f
  <2>4. Entries' = {f(m) : m \in Entries}
    BY <2>1, <2>3
  <2> QED BY <2>4 DEF f
<1>6. /\ DOMAIN file_index' = (DOMAIN file_index \ {old}) \cup {new}
      /\ file_index'[new] = i
      /\ \A n \in DOMAIN file_index \ {old} : n # new => file_index'[n] = file_index[n]
  BY DEF file_index_insert, file_index_remove_entry
<1>7. IndexExact'
  <2>1. DOMAIN file_index' = Names'
    BY <1>4, <1>6 DEF ArrayInv, IndexExact
  <2>2. ASSUME NEW j \in Positions PROVE file_index'[files'[j].filename] = j
    <3>1. CASE j = i
      BY <3>1, <1>3, <1>6
    <3>2. CASE j # i
      BY <3>2, <1>2, <1>3, <1>6 DEF ArrayInv, IndexExact, Names
    <3> QED BY <3>1, <3>2
  <2> QED BY <2>1, <2>2, <1>1 DEF IndexExact
<1>8. ASSUME NEW e \in file_cache'
      PROVE  /\ e \in [filename : Path, file_array_index : Nat \ {0}]
             /\ e.file_array_index \in Positions
             /\ files'[e.file_array_index].filename = e.filename
  <2> DEFINE moved == [filename |-> new, file_array_index |-> i]
  <2>1. \/ e = moved
        \/ e \in file_cache /\ e.filename # old
    BY DEF file_cache_store, file_cache_rename
  <2>2. CASE e = moved
    BY <2>2, <1>1, <1>3 DEF Positions
  <2>3. CASE e \in file_cache /\ e.filename # old
    BY <2>3, <1>3 DEF ArrayInv, ArrayType, CacheCoherent
  <2> QED BY <2>1, <2>2, <2>3
<1>9. ArrayType'
  BY <1>1, <1>6, <1>8 DEF ArrayInv, ArrayType, Positions
<1>10. CacheCoherent'
  BY <1>1, <1>8 DEF CacheCoherent
<1> QED BY <1>4, <1>5, <1>7, <1>9, <1>10 DEF ArrayInv

\* SS_HAS_FILE gives an entry another owner.
LEMMA OwnerKeeps ==
    ASSUME ArrayInv, NEW u \in Clients, NEW i \in Positions,
           files' = [files EXCEPT ![i].owner = u], UNCHANGED file_index,
           file_cache' \in file_cache_store(file_cache, Found({files[i].filename}))
    PROVE  /\ ArrayInv'
           /\ Entries' = {IF m.filename = files[i].filename
                          THEN [m EXCEPT !.owner = u] ELSE m : m \in Entries}
           /\ Names' = Names
<1>1. /\ files \in Seq(FileMetadata) /\ files' \in Seq(FileMetadata)
      /\ Len(files') = Len(files) /\ Positions' = Positions
      /\ \A j \in Positions :
            files'[j] = IF j = i THEN [files[j] EXCEPT !.owner = u] ELSE files[j]
      /\ \A j \in Positions : files[j] \in FileMetadata
  <2>1. /\ files \in Seq(FileMetadata) /\ Positions = 1..Len(files)
        /\ \A j \in Positions : files[j] \in FileMetadata
    BY DEF ArrayInv, ArrayType, Positions
  <2>2. [files[i] EXCEPT !.owner = u] \in FileMetadata
    BY <2>1 DEF FileMetadata
  <2>3. files' = [files EXCEPT ![i] = [files[i] EXCEPT !.owner = u]]
    OBVIOUS
  <2>4. files' \in Seq(FileMetadata) /\ Len(files') = Len(files)
    BY <2>1, <2>2, <2>3
  <2>5. Positions' = Positions
    BY <2>4 DEF Positions
  <2>6. \A j \in Positions :
           files'[j] = IF j = i THEN [files[j] EXCEPT !.owner = u] ELSE files[j]
    BY <2>1, <2>3
  <2> QED BY <2>1, <2>4, <2>5, <2>6
<1>2. \A j, k \in Positions : files[j].filename = files[k].filename => j = k
  BY EntryFacts
<1>3. \A j \in Positions : files'[j].filename = files[j].filename
  BY <1>1 DEF FileMetadata
<1>4. Names' = Names
  BY <1>1, <1>3 DEF Names
<1>5. Entries' = {IF m.filename = files[i].filename
                  THEN [m EXCEPT !.owner = u] ELSE m : m \in Entries}
  <2>1. Entries' = {files'[j] : j \in Positions} /\ Entries = {files[j] : j \in Positions}
    BY <1>1 DEF Entries, Range, Positions
  <2>2. \A j \in Positions :
           files'[j] = IF files[j].filename = files[i].filename
                       THEN [files[j] EXCEPT !.owner = u] ELSE files[j]
    BY <1>1, <1>2
  <2> DEFINE f(m) == IF m.filename = files[i].filename THEN [m EXCEPT !.owner = u] ELSE m
  <2>3. \A j \in Positions : files'[j] = f(files[j])
    BY <2>2
  <2> HIDE DEF f
  <2>4. Entries' = {f(m) : m \in Entries}
    BY <2>1, <2>3
  <2> QED BY <2>4 DEF f
<1>6. IndexExact'
  BY <1>1, <1>3, <1>4 DEF ArrayInv, IndexExact
<1>7. ASSUME NEW e \in file_cache'
      PROVE  /\ e \in [filename : Path, file_array_index : Nat \ {0}]
             /\ e.file_array_index \in Positions
             /\ files[e.file_array_index].filename = e.filename
  <2>1. e \in file_cache \/ e \in Found({files[i].filename})
    BY DEF file_cache_store
  <2>2. CASE e \in file_cache
    BY <2>2 DEF ArrayInv, ArrayType, CacheCoherent
  <2>3. CASE e \in Found({files[i].filename})
    BY <2>3, LookupFinds DEF Found, ArrayInv, ArrayType, IndexExact, Names
  <2> QED BY <2>1, <2>2, <2>3
<1>8. ArrayType'
  BY <1>1, <1>7 DEF ArrayInv, ArrayType, Positions
<1>9. CacheCoherent'
  BY <1>1, <1>3, <1>7 DEF CacheCoherent
<1> QED BY <1>4, <1>5, <1>6, <1>8, <1>9 DEF ArrayInv

\* The metadata file holds a catalogue: no name twice.
DbInv ==
    /\ db \in Seq(FileMetadata) /\ Len(db) <= NS_MAX_FILES
    /\ \A i, j \in 1..Len(db) : db[i].filename = db[j].filename => i = j

\* While it is written it is the first part of the array.
SavingInv ==
    \A t \in Threads : pc[t] = "saving" =>
        Len(db) <= Len(files) /\ \A i \in 1..Len(db) : db[i] = files[i]

\* What a restart finds in it has the type of a catalogue.
LEMMA LoadableType ==
    ASSUME ArrayType, DbInv, NEW loaded \in Loadable
    PROVE  loaded \in Seq(FileMetadata) /\ Len(loaded) <= NS_MAX_FILES
<1>1. CASE loaded = db
  BY <1>1 DEF DbInv
<1>2. CASE \E e \in CutEntries :
             /\ Len(db) < Len(files)
             /\ loaded = Append(db, [filename |-> e.filename, owner |-> e.owner,
                                     is_directory |-> FALSE])
  <2>1. PICK e \in CutEntries :
             /\ Len(db) < Len(files)
             /\ loaded = Append(db, [filename |-> e.filename, owner |-> e.owner,
                                     is_directory |-> FALSE])
    BY <1>2
  <2> DEFINE m == [filename |-> e.filename, owner |-> e.owner, is_directory |-> FALSE]
  <2>2. m \in FileMetadata
    BY CatalogAssumption DEF FileMetadata
  <2>3. loaded = Append(db, m)
    BY <2>1
  <2> HIDE DEF m
  <2>4. db \in Seq(FileMetadata) /\ files \in Seq(FileMetadata) /\ Len(files) <= NS_MAX_FILES
    BY DEF DbInv, ArrayType
  <2>5. Len(db) \in Nat /\ Len(files) \in Nat /\ Len(loaded) = Len(db) + 1
    BY <2>2, <2>3, <2>4
  <2> QED BY <2>1, <2>2, <2>3, <2>4, <2>5, CatalogAssumption
<1> QED BY <1>1, <1>2 DEF Loadable

\* Loading it rebuilds the index.
LEMMA LoadKeeps ==
    ASSUME NEW loaded \in Seq(FileMetadata), Len(loaded) <= NS_MAX_FILES,
           \A i, j \in 1..Len(loaded) : loaded[i].filename = loaded[j].filename => i = j,
           files' = loaded, file_cache' = {},
           file_index' = [n \in {loaded[i].filename : i \in 1..Len(loaded)} |->
                             CHOOSE i \in 1..Len(loaded) : loaded[i].filename = n]
    PROVE  ArrayInv' /\ Entries' = Range(loaded)
<1> DEFINE at(n) == CHOOSE i \in 1..Len(loaded) : loaded[i].filename = n
<1>1. ASSUME NEW i \in 1..Len(loaded) PROVE at(loaded[i].filename) = i
  OBVIOUS
<1> HIDE DEF at
<1>2. /\ DOMAIN file_index' = {loaded[i].filename : i \in 1..Len(loaded)}
      /\ \A n \in {loaded[i].filename : i \in 1..Len(loaded)} : file_index'[n] = at(n)
  BY DEF at
<1>3. IndexExact'
  BY <1>1, <1>2 DEF IndexExact, Names, Positions
<1>4. ArrayType'
  <2>1. \A i \in 1..Len(loaded) : loaded[i].filename \in Path /\ i \in Nat \ {0}
    <3>1. \A i \in 1..Len(loaded) : loaded[i] \in FileMetadata /\ i \in Nat \ {0}
      OBVIOUS
    <3> QED BY <3>1 DEF FileMetadata
  <2>2. \A n \in DOMAIN file_index' : n \in Path /\ file_index'[n] \in Nat \ {0}
    BY <1>1, <1>2, <2>1
  <2> QED BY <2>2 DEF ArrayType
<1> QED BY <1>3, <1>4 DEF ArrayInv, CacheCoherent, Entries

-----------------------------------------------------------------------------
(* The inductive invariant *)

Holding == {"rename", "move", "erase", "delete"}

\* What MOVE and DELETE go by, in terms of the entries alone.
FolderAt(p) == \E m \in Entries : m.filename = p /\ m.is_directory

TreeAt(p) == {n \in Names : n = p \/ (FolderAt(p) /\ Under(p, n))}

\* A thread holds state_lock over several steps exactly while it carries a plan
\* out or saves, and only a client that carries one out has a plan.
LockInv ==
    /\ pc[Reader] \notin Holding
    /\ \A t \in Threads :
        /\ pc[t] \in Holding \cup {"saving"} <=> state_lock = t
        /\ pc[t] \notin Holding => plan[t] = {}

\* What the holder checked when it made its plan still holds when it acts on it.
PlanOf(c) ==
    /\ plan[c] \subseteq Names
    /\ \A m \in Entries : m.filename \in plan[c] => m.owner = c
    /\ pc[c] \in {"rename", "move"} =>
          /\ arg[c] \in Path /\ dest[c] \in Path
          /\ \A n \in plan[c] : /\ Under(arg[c], n)
                                /\ Moved(arg[c], dest[c], n) \in Path \ Names
    /\ pc[c] = "rename" =>
          /\ arg[c] \in Names /\ plan[c] = TreeAt(arg[c])
          /\ Len(dest[c]) > 1 => FolderAt(Parent(dest[c]))
          /\ ~(FolderAt(arg[c]) /\ Under(arg[c], dest[c]))
    /\ pc[c] = "erase" => \E p \in Names : plan[c] = TreeAt(p)

PlanInv == \A c \in Clients : PlanOf(c)

Reported == {f.filename : f \in SsFiles}

\* The entry that a CREATE recorded is there and its own.
CreateInv ==
    \A c \in Clients : pc[c] = "create" /\ arg[c] \notin Reported =>
        \E m \in Entries : m.filename = arg[c] /\ m.owner = c

\* An entry that is not in the metadata file is one that a storage server
\* reports again, or somebody still has to save it, or confirm it.
SaveInv ==
    \A m \in Entries :
        \/ m.filename \in Reported
        \/ m \in Range(db)
        \/ \E t \in Threads : pc[t] \in {"save", "saving", "move", "delete"}
        \/ \E c \in Clients : pc[c] = "create" /\ arg[c] = m.filename

\* The part of TypeOK about the threads.
ThreadType ==
    /\ state_lock \in Threads \cup {NoThread}
    /\ pc \in [Threads ->
           {"idle", "create", "rename", "move", "erase", "delete", "save", "saving"}]
    /\ arg \in [Threads -> Path \cup {Root}]
    /\ dest \in [Threads -> Path \cup {Root}]
    /\ plan \in [Threads -> SUBSET Path]

IInv ==
    /\ ArrayInv /\ DbInv
    /\ ThreadType /\ LockInv /\ PlanInv /\ SavingInv /\ CreateInv /\ SaveInv

-----------------------------------------------------------------------------
(* Paths *)

\* What s \o t holds at each position.
LEMMA ConcatAt ==
    ASSUME NEW S, NEW s \in Seq(S), NEW t \in Seq(S)
    PROVE  /\ s \o t \in Seq(S)
           /\ Len(s \o t) = Len(s) + Len(t)
           /\ \A k \in 1..Len(s) : (s \o t)[k] = s[k]
           /\ \A k \in 1..Len(t) : (s \o t)[Len(s) + k] = t[k]
<1>1. s \o t \in Seq(S) /\ Len(s \o t) = Len(s) + Len(t)
  OBVIOUS
<1>2. ASSUME NEW k \in 1..Len(s) PROVE (s \o t)[k] = s[k]
  OBVIOUS
<1>3. ASSUME NEW k \in 1..Len(t) PROVE (s \o t)[Len(s) + k] = t[k]
  <2>1. Len(s) + k \in 1..(Len(s) + Len(t)) /\ ~(Len(s) + k <= Len(s))
        /\ (Len(s) + k) - Len(s) = k
    OBVIOUS
  <2> QED BY <2>1
<1> QED BY <1>1, <1>2, <1>3

\* m is n with its first part, src, replaced by dst.
IsMoved(src, dst, n, m) ==
    /\ Len(src) \in Nat /\ Len(dst) \in Nat /\ Len(n) \in Nat /\ Len(m) \in Nat
    /\ Len(src) <= Len(n) /\ Len(m) = Len(dst) + (Len(n) - Len(src))
    /\ \A k \in 1..Len(src) : n[k] = src[k]
    /\ \A k \in 1..Len(dst) : m[k] = dst[k]
    /\ \A k \in 1..(Len(n) - Len(src)) : m[Len(dst) + k] = n[Len(src) + k]

\* A path under src has src's names at its first positions.
LEMMA UnderAt ==
    ASSUME NEW S, NEW src \in Seq(S), NEW n \in Seq(S), Under(src, n)
    PROVE  /\ Len(src) \in Nat /\ Len(n) \in Nat /\ Len(src) <= Len(n)
           /\ \A k \in 1..Len(src) : n[k] = src[k]
<1>1. /\ Len(src) \in Nat /\ Len(n) \in Nat /\ Len(src) <= Len(n)
      /\ SubSeq(n, 1, Len(src)) = src
  BY DEF Under
<1>2. ASSUME NEW k \in 1..Len(src) PROVE SubSeq(n, 1, Len(src))[k] = n[k]
  BY <1>1
<1> QED BY <1>1, <1>2

\* The path a path under src becomes, position by position.
LEMMA MovedIs ==
    ASSUME NEW S, NEW src \in Seq(S), NEW dst \in Seq(S), NEW n \in Seq(S), Under(src, n)
    PROVE  Moved(src, dst, n) \in Seq(S) /\ IsMoved(src, dst, n, Moved(src, dst, n))
<1> DEFINE rest == SubSeq(n, Len(src) + 1, Len(n))
           d == Len(n) - Len(src)
<1>1. /\ Len(src) \in Nat /\ Len(dst) \in Nat /\ Len(n) \in Nat /\ Len(src) <= Len(n)
      /\ \A k \in 1..Len(src) : n[k] = src[k]
  BY UnderAt
<1>2. /\ rest \in Seq(S) /\ Len(rest) = d
      /\ \A k \in 1..d : rest[k] = n[Len(src) + k]
  BY <1>1
<1> HIDE DEF rest
<1>3. /\ dst \o rest \in Seq(S) /\ Len(dst \o rest) = Len(dst) + d
      /\ \A k \in 1..Len(dst) : (dst \o rest)[k] = dst[k]
      /\ \A k \in 1..d : (dst \o rest)[Len(dst) + k] = rest[k]
  <2>1. rest \in Seq(S)
    BY <1>2
  <2>2. /\ dst \o rest \in Seq(S) /\ Len(dst \o rest) = Len(dst) + Len(rest)
        /\ \A k \in 1..Len(dst) : (dst \o rest)[k] = dst[k]
        /\ \A k \in 1..Len(rest) : (dst \o rest)[Len(dst) + k] = rest[k]
    BY <2>1, ConcatAt
  <2> QED BY <2>2, <1>2
<1>4. Moved(src, dst, n) = dst \o rest
  BY DEF Moved, rest
<1>5. Len(dst \o rest) \in Nat
  BY <1>1, <1>3
<1> QED BY <1>1, <1>2, <1>3, <1>4, <1>5 DEF IsMoved

\* Two paths under src do not become the same path.
LEMMA MovedInjective ==
    ASSUME NEW S, NEW src \in Seq(S), NEW dst \in Seq(S), NEW n \in Seq(S), NEW m \in Seq(S),
           Under(src, n), Under(src, m), Moved(src, dst, n) = Moved(src, dst, m)
    PROVE  n = m
<1> DEFINE x == Moved(src, dst, n)
<1>1. IsMoved(src, dst, n, x)
  BY MovedIs
<1>2. IsMoved(src, dst, m, x)
  BY MovedIs
<1> HIDE DEF x
<1>3. Len(n) = Len(m)
  BY <1>1, <1>2 DEF IsMoved
<1>4. ASSUME NEW k \in 1..Len(n) PROVE n[k] = m[k]
  <2>1. CASE k \in 1..Len(src)
    BY <2>1, <1>1, <1>2 DEF IsMoved
  <2>2. CASE k \notin 1..Len(src)
    <3>1. k - Len(src) \in 1..(Len(n) - Len(src)) /\ Len(src) + (k - Len(src)) = k
      BY <2>2, <1>1 DEF IsMoved
    <3> QED BY <3>1, <1>1, <1>2, <1>3 DEF IsMoved
  <2> QED BY <2>1, <2>2
<1> QED BY <1>3, <1>4, SeqEqual

\* A path under src is renamed to itself only if src is.
LEMMA MovedFixed ==
    ASSUME NEW S, NEW src \in Seq(S), NEW dst \in Seq(S), NEW n \in Seq(S),
           Under(src, n), Moved(src, dst, n) = n
    PROVE  dst = src
<1>1. IsMoved(src, dst, n, n)
  BY MovedIs
<1>2. Len(dst) = Len(src)
  BY <1>1 DEF IsMoved
<1>3. ASSUME NEW k \in 1..Len(dst) PROVE dst[k] = src[k]
  BY <1>1, <1>2 DEF IsMoved
<1> QED BY <1>2, <1>3, SeqEqual

\* Renaming back finds the old path.
LEMMA MovedBack ==
    ASSUME NEW S, NEW src \in Seq(S), NEW dst \in Seq(S), NEW n \in Seq(S), Under(src, n)
    PROVE  LET m == Moved(src, dst, n)
           IN  src \o SubSeq(m, Len(dst) + 1, Len(m)) = n
<1> DEFINE m == Moved(src, dst, n)
           d == Len(n) - Len(src)
           rest == SubSeq(m, Len(dst) + 1, Len(m))
<1>1. m \in Seq(S) /\ IsMoved(src, dst, n, m)
  BY MovedIs
<1> HIDE DEF m
<1>2. /\ Len(m) = Len(dst) + d /\ d \in Nat /\ Len(n) = Len(src) + d
      /\ Len(src) \in Nat /\ Len(dst) \in Nat
  BY <1>1 DEF IsMoved
<1>3. /\ rest \in Seq(S) /\ Len(rest) = d
      /\ \A k \in 1..d : rest[k] = m[Len(dst) + k]
  BY <1>1, <1>2
<1> HIDE DEF rest
<1>4. /\ src \o rest \in Seq(S) /\ Len(src \o rest) = Len(n)
      /\ \A k \in 1..Len(src) : (src \o rest)[k] = src[k]
      /\ \A k \in 1..d : (src \o rest)[Len(src) + k] = rest[k]
  <2>1. rest \in Seq(S)
    BY <1>3
  <2>2. /\ src \o rest \in Seq(S) /\ Len(src \o rest) = Len(src) + Len(rest)
        /\ \A k \in 1..Len(src) : (src \o rest)[k] = src[k]
        /\ \A k \in 1..Len(rest) : (src \o rest)[Len(src) + k] = rest[k]
    BY <2>1, ConcatAt
  <2> QED BY <2>2, <1>2, <1>3
<1>5. ASSUME NEW k \in 1..Len(n) PROVE (src \o rest)[k] = n[k]
  <2>1. CASE k \in 1..Len(src)
    BY <2>1, <1>1, <1>4 DEF IsMoved
  <2>2. CASE k \notin 1..Len(src)
    <3>1. k - Len(src) \in 1..d /\ Len(src) + (k - Len(src)) = k
      BY <2>2, <1>2
    <3> QED BY <3>1, <1>1, <1>3, <1>4 DEF IsMoved
  <2> QED BY <2>1, <2>2
<1>6. src \o rest = n
  BY <1>4, <1>5, SeqEqual
<1> QED BY <1>6 DEF m, rest

\* The folder of the destination is not inside src, and src does not stay where
\* it is: then the destination is not inside src either.
LEMMA NotInside ==
    ASSUME NEW S, NEW src \in Seq(S), src # <<>>, NEW folder \in Seq(S), NEW x \in S,
           Append(folder, x) # src, Under(src, Append(folder, x))
    PROVE  folder # <<>> /\ Under(src, folder)
<1> DEFINE dst == Append(folder, x)
<1>1. /\ dst \in Seq(S) /\ Len(dst) = Len(folder) + 1 /\ Len(folder) \in Nat
      /\ \A k \in 1..Len(folder) : dst[k] = folder[k]
      /\ Len(src) \in Nat /\ Len(src) >= 1
  OBVIOUS
<1>2. Under(src, dst)
  OBVIOUS
<1> HIDE DEF dst
<1>8. Len(src) <= Len(dst) /\ \A k \in 1..Len(src) : dst[k] = src[k]
  BY <1>1, <1>2, UnderAt
<1>3. Len(src) # Len(dst)
  BY <1>1, <1>8, SeqEqual DEF dst
<1>4. Len(src) <= Len(folder)
  BY <1>1, <1>8, <1>3
<1>5. \A k \in 1..Len(src) : folder[k] = src[k]
  BY <1>1, <1>8, <1>4
<1>6. SubSeq(folder, 1, Len(src)) = src
  <2>1. /\ SubSeq(folder, 1, Len(src)) \in Seq(S)
        /\ Len(SubSeq(folder, 1, Len(src))) = Len(src)
        /\ \A k \in 1..Len(src) : SubSeq(folder, 1, Len(src))[k] = folder[k]
    BY <1>1, <1>4
  <2> QED BY <2>1, <1>5, SeqEqual
<1>7. folder # <<>>
  BY <1>1, <1>4
<1> QED BY <1>4, <1>6, <1>7 DEF Under

\* The parent of a name appended to a folder's path is the folder.
LEMMA AppendParent ==
    ASSUME NEW S, NEW folder \in Seq(S), NEW x \in S
    PROVE  /\ Parent(Append(folder, x)) = folder
           /\ Len(Append(folder, x)) = Len(folder) + 1
           /\ Append(folder, x) \in Seq(S)
<1> DEFINE dst == Append(folder, x)
<1>1. /\ dst \in Seq(S) /\ Len(dst) = Len(folder) + 1 /\ Len(folder) \in Nat
      /\ \A k \in 1..Len(folder) : dst[k] = folder[k]
  OBVIOUS
<1> HIDE DEF dst
<1>2. /\ SubSeq(dst, 1, Len(folder)) \in Seq(S)
      /\ Len(SubSeq(dst, 1, Len(folder))) = Len(folder)
      /\ \A k \in 1..Len(folder) : SubSeq(dst, 1, Len(folder))[k] = dst[k]
  BY <1>1
<1>3. SubSeq(dst, 1, Len(folder)) = folder
  BY <1>1, <1>2, SeqEqual
<1>4. Len(dst) - 1 = Len(folder)
  BY <1>1
<1> QED BY <1>1, <1>3, <1>4 DEF Parent, dst

\* A path is under itself, and renaming it gives the destination.
LEMMA UnderItself ==
    ASSUME NEW S, NEW p \in Seq(S)
    PROVE  Under(p, p) /\ \A dst \in Seq(S) : Moved(p, dst, p) = dst
<1>1. /\ Len(p) \in Nat /\ SubSeq(p, 1, Len(p)) \in Seq(S)
      /\ Len(SubSeq(p, 1, Len(p))) = Len(p)
      /\ \A k \in 1..Len(p) : SubSeq(p, 1, Len(p))[k] = p[k]
  OBVIOUS
<1>2. Under(p, p)
  BY <1>1, SeqEqual DEF Under
<1>3. ASSUME NEW dst \in Seq(S) PROVE Moved(p, dst, p) = dst
  <2>1. Moved(p, dst, p) \in Seq(S) /\ IsMoved(p, dst, p, Moved(p, dst, p))
    BY <1>2, MovedIs
  <2>2. Len(Moved(p, dst, p)) = Len(dst)
    BY <2>1 DEF IsMoved
  <2> QED BY <2>1, <2>2, SeqEqual DEF IsMoved
<1> QED BY <1>2, <1>3

-----------------------------------------------------------------------------
(* Every step keeps the invariant *)

\* The tests of folders, trees and owners read the array as the properties do.
LEMMA FolderFacts ==
    ASSUME ArrayInv
    PROVE  /\ \A p : IsFolder(p) <=> FolderAt(p)
           /\ \A p : Affected(p) = TreeAt(p)
           /\ \A c, S : OwnsAll(c, S) <=> \A m \in Entries : m.filename \in S => m.owner = c
<1>1. ASSUME NEW p PROVE IsFolder(p) <=> FolderAt(p)
  <2>1. CASE p \in Names
    BY <2>1, LookupFinds, EntryFacts DEF IsFolder, FolderAt
  <2>2. CASE p \notin Names
    BY <2>2, LookupFinds, EntryFacts DEF IsFolder, FolderAt
  <2> QED BY <2>1, <2>2
<1>2. ASSUME NEW p PROVE Affected(p) = TreeAt(p)
  BY <1>1 DEF Affected, TreeAt
<1>3. ASSUME NEW c, NEW S
      PROVE  OwnsAll(c, S) <=> \A m \in Entries : m.filename \in S => m.owner = c
  BY EntryFacts DEF OwnsAll
<1> QED BY <1>1, <1>2, <1>3

\* While state_lock is free nobody has a plan or saves.
LEMMA FreePlans ==
    ThreadType /\ LockInv /\ state_lock = NoThread => PlanInv /\ SavingInv
BY CatalogAssumption DEF ThreadType, LockInv, PlanInv, PlanOf, SavingInv, Holding, Threads

\* The same in the next state.
LEMMA FreePlansNext ==
    (ThreadType /\ LockInv /\ state_lock = NoThread)' => PlanInv' /\ SavingInv'
BY FreePlans, PTL

\* Another thread than the holder has no plan and does not save.
LEMMA OtherPlans ==
    ASSUME ThreadType, LockInv, NEW c \in Clients, state_lock = c, pc[c] # "saving", PlanOf(c)
    PROVE  PlanInv /\ SavingInv
<1>1. \A t \in Threads : t # c => pc[t] \notin Holding \cup {"saving"} /\ plan[t] = {}
  BY DEF ThreadType, LockInv
<1>2. PlanInv
  BY <1>1 DEF PlanInv, PlanOf, Holding, Threads
<1>3. SavingInv
  BY <1>1 DEF SavingInv
<1> QED BY <1>2, <1>3

\* The same in the next state.
LEMMA OtherPlansNext ==
    \A c \in Clients :
        (ThreadType /\ LockInv /\ state_lock = c /\ pc[c] # "saving" /\ PlanOf(c))'
            => PlanInv' /\ SavingInv'
<1> DEFINE P == \A c \in Clients :
                   ThreadType /\ LockInv /\ state_lock = c /\ pc[c] # "saving" /\ PlanOf(c)
                       => PlanInv /\ SavingInv
<1>1. P
  BY OtherPlans
<1>2. P'
  BY <1>1, PTL
<1> QED BY <1>2

\* While a thread saves nobody has a plan.
LEMMA SavePlans ==
    \A t \in Threads : ThreadType /\ LockInv /\ pc[t] = "saving" => PlanInv
BY CatalogAssumption DEF ThreadType, LockInv, PlanInv, PlanOf, Holding, Threads

\* The same in the next state.
LEMMA SavePlansNext ==
    \A t \in Threads : (ThreadType /\ LockInv /\ pc[t] = "saving")' => PlanInv'
<1> DEFINE P == \A t \in Threads : ThreadType /\ LockInv /\ pc[t] = "saving" => PlanInv
<1>1. P
  BY SavePlans
<1>2. P'
  BY <1>1, PTL
<1> QED BY <1>2

\* A step of a thread between two commands, or in CREATE, that keeps every entry.
LEMMA LookupKeeps ==
    ASSUME IInv, NEW t \in Threads, NEW n, Lookup(t, n)
    PROVE  IInv'
<1>1. ArrayInv' /\ Entries' = Entries /\ Names' = Names
  BY StoreKeeps DEF Lookup, IInv
<1>2. ThreadType' /\ LockInv' /\ state_lock' = NoThread
  BY CatalogAssumption DEF Lookup, Goto, IInv, ThreadType, LockInv, Holding, Threads
<1>3. CreateInv'
  BY <1>1 DEF Lookup, Goto, IInv, ThreadType, CreateInv, Threads
<1>4. SaveInv'
  BY <1>1 DEF Lookup, Goto, IInv, ThreadType, SaveInv, Threads
<1> QED BY <1>1, <1>2, <1>3, <1>4, FreePlansNext DEF IInv, DbInv, Lookup

\* CREATE checks the name and adds the entry.
LEMMA CreateBeginKeeps ==
    ASSUME IInv, NEW c \in Clients, NEW n \in Creates[c], CreateBegin(c, n)
    PROVE  IInv'
<1> DEFINE m == [filename |-> n, owner |-> c, is_directory |-> FALSE]
<1>1. n \in Path /\ m \in FileMetadata /\ m.filename = n /\ m.owner = c /\ c \in Threads
  BY CatalogAssumption DEF FileMetadata, Threads
<1>2. n \notin Names
  BY LookupFinds DEF CreateBegin, IInv
<1> HIDE DEF m
<1>3. ArrayInv' /\ Entries' = Entries \cup {m} /\ Names' = Names \cup {n}
  BY <1>1, <1>2, AddKeeps DEF CreateBegin, IInv, m
<1>4. ThreadType' /\ LockInv' /\ state_lock' = NoThread
  BY <1>1 DEF CreateBegin, Goto, IInv, ThreadType, LockInv, Holding
<1>5. CreateInv'
  BY <1>1, <1>3 DEF CreateBegin, Goto, IInv, ThreadType, CreateInv, Threads
<1>6. SaveInv'
  BY <1>1, <1>3 DEF CreateBegin, Goto, IInv, ThreadType, SaveInv, Threads
<1> QED BY <1>3, <1>4, <1>5, <1>6, FreePlansNext DEF IInv, DbInv, CreateBegin

\* The storage server created the file.
LEMMA CreateDoneKeeps ==
    ASSUME IInv, NEW c \in Clients, CreateDone(c)
    PROVE  IInv'
<1>1. ArrayInv' /\ Entries' = Entries /\ Names' = Names
  BY DEF CreateDone, IInv, ArrayInv, ArrayType, IndexExact, CacheCoherent, Entries, Names,
         Positions
<1>2. c \in Threads
  BY DEF Threads
<1>3. ThreadType' /\ LockInv' /\ state_lock' = NoThread
  BY <1>2 DEF CreateDone, Goto, IInv, ThreadType, LockInv, Holding
<1>4. CreateInv'
  BY <1>1, <1>2 DEF CreateDone, Goto, IInv, ThreadType, CreateInv, Threads
<1>5. SaveInv'
  BY <1>2 DEF CreateDone, Goto, IInv, ThreadType, SaveInv
<1> QED BY <1>1, <1>3, <1>4, <1>5, FreePlansNext DEF IInv, DbInv, CreateDone

\* The storage server did not: CREATE takes its entry out again.
LEMMA CreateRollbackKeeps ==
    ASSUME IInv, NEW c \in Clients, CreateRollback(c)
    PROVE  IInv'
<1> DEFINE n == arg[c]
<1>1. /\ ArrayInv' /\ Entries' = {m \in Entries : m.filename # n} /\ Names' = Names \ {n}
  BY RemoveKeeps DEF CreateRollback, IInv
<1>2. c \in Threads
  BY DEF Threads
<1>3. ThreadType' /\ LockInv' /\ state_lock' = NoThread
  BY <1>2 DEF CreateRollback, Goto, IInv, ThreadType, LockInv, Holding
<1>4. CreateInv'
  <2> SUFFICES ASSUME NEW u \in Clients, pc'[u] = "create", arg'[u] \notin Reported
               PROVE  \E m \in Entries' : m.filename = arg'[u] /\ m.owner = u
    BY DEF CreateInv, Reported
  <2>1. u # c /\ pc[u] = "create" /\ arg'[u] = arg[u]
    BY <1>2 DEF CreateRollback, Goto, IInv, ThreadType, Threads
  <2>2. PICK m \in Entries : m.filename = arg[u] /\ m.owner = u
    BY <2>1 DEF IInv, CreateInv
  <2>3. arg[u] # n
    BY <2>1, <2>2, EntryFacts DEF IInv, CreateInv, CreateRollback
  <2> QED BY <1>1, <2>1, <2>2, <2>3
<1>5. SaveInv'
  BY <1>1, <1>2 DEF CreateRollback, Goto, IInv, ThreadType, SaveInv, Threads
<1> QED BY <1>1, <1>3, <1>4, <1>5, FreePlansNext DEF IInv, DbInv, CreateRollback

\* CREATEFOLDER adds an entry in one critical section.
LEMMA CreateFolderKeeps ==
    ASSUME IInv, NEW c \in Clients, NEW n \in CreatesFolders[c], CreateFolder(c, n)
    PROVE  IInv'
<1> DEFINE m == [filename |-> n, owner |-> c, is_directory |-> TRUE]
<1>1. n \in Path /\ m \in FileMetadata /\ m.filename = n /\ m.owner = c /\ c \in Threads
  BY CatalogAssumption DEF FileMetadata, Threads
<1>2. n \notin Names
  BY LookupFinds DEF CreateFolder, IInv
<1> HIDE DEF m
<1>3. ArrayInv' /\ Entries' = Entries \cup {m} /\ Names' = Names \cup {n}
  BY <1>1, <1>2, AddKeeps DEF CreateFolder, IInv, m
<1>4. ThreadType' /\ LockInv' /\ state_lock' = NoThread
  BY <1>1 DEF CreateFolder, Goto, IInv, ThreadType, LockInv, Holding
<1>5. CreateInv'
  BY <1>1, <1>3 DEF CreateFolder, Goto, IInv, ThreadType, CreateInv, Threads
<1>6. SaveInv'
  BY <1>1 DEF CreateFolder, Goto, IInv, ThreadType, SaveInv
<1> QED BY <1>3, <1>4, <1>5, <1>6, FreePlansNext DEF IInv, DbInv, CreateFolder

\* A storage server reports a file: a new entry, or a new owner.
LEMMA HasFileKeeps ==
    ASSUME IInv, NEW f \in SsFiles, HasFile(f)
    PROVE  IInv'
<1>1. f.filename \in Path /\ f.owner \in Clients /\ f.filename \in Reported
  BY CatalogAssumption DEF Reported
<1>2. ThreadType' /\ LockInv' /\ state_lock' = NoThread
  BY DEF HasFile, thread, IInv, ThreadType, LockInv
<1>3. CASE f.filename \in Names
  <2>1. PICK i \in file_index_find(f.filename) :
             /\ files' = [files EXCEPT ![i].owner = f.owner]
             /\ file_cache' \in file_cache_store(file_cache, Found({f.filename}))
             /\ UNCHANGED file_index
    BY <1>3, LookupFinds DEF HasFile, IInv
  <2>2. i \in Positions /\ files[i].filename = f.filename
    BY <1>3, <2>1, LookupFinds DEF IInv
  <2> DEFINE g(m) == IF m.filename = files[i].filename
                     THEN [m EXCEPT !.owner = f.owner] ELSE m
  <2>3. ArrayInv' /\ Entries' = {g(m) : m \in Entries} /\ Names' = Names
    BY <1>1, <2>1, <2>2, OwnerKeeps DEF IInv
  <2>4. \A m \in Entries : /\ m.filename \notin Reported => g(m) = m
                           /\ m.filename \in Reported => g(m).filename \in Reported
    BY <1>1, <2>2, EntryFacts DEF IInv, FileMetadata
  <2> HIDE DEF g
  <2>5. CreateInv'
    BY <2>3, <2>4 DEF HasFile, thread, IInv, CreateInv, Reported
  <2>6. SaveInv'
    BY <2>3, <2>4 DEF HasFile, thread, IInv, SaveInv, Reported
  <2> QED BY <2>3, <1>2, <2>5, <2>6, FreePlansNext DEF IInv, DbInv, HasFile
<1>4. CASE f.filename \notin Names
  <2> DEFINE m == [filename |-> f.filename, owner |-> f.owner, is_directory |-> FALSE]
  <2>1. m \in FileMetadata /\ m.filename = f.filename
    BY <1>1 DEF FileMetadata
  <2>2. Room /\ AddEntry(m)
    BY <1>4, LookupFinds DEF HasFile, IInv
  <2> HIDE DEF m
  <2>3. ArrayInv' /\ Entries' = Entries \cup {m}
    BY <1>4, <2>1, <2>2, AddKeeps DEF IInv
  <2>4. CreateInv'
    BY <2>3 DEF HasFile, thread, IInv, CreateInv, Reported
  <2>5. SaveInv'
    BY <1>1, <2>1, <2>3 DEF HasFile, thread, IInv, SaveInv, Reported
  <2> QED BY <2>3, <1>2, <2>4, <2>5, FreePlansNext DEF IInv, DbInv, HasFile
<1> QED BY <1>3, <1>4

\* A step that changes nothing but doubled.
LEMMA StutterKeeps ==
    ASSUME IInv, UNCHANGED <<files, file_index, file_cache, state_lock, thread, db>>
    PROVE  IInv'
<1>1. ArrayInv' /\ DbInv' /\ Entries' = Entries /\ Names' = Names
  BY DEF IInv, ArrayInv, ArrayType, IndexExact, CacheCoherent, Names, Positions, Entries, DbInv
<1>2. ThreadType' /\ LockInv' /\ SavingInv'
  BY DEF thread, IInv, ThreadType, LockInv, SavingInv
<1>3. \A p : TreeAt(p)' = TreeAt(p) /\ FolderAt(p)' = FolderAt(p)
  BY <1>1 DEF TreeAt, FolderAt
<1>4. PlanInv'
  BY <1>1, <1>3 DEF thread, IInv, PlanInv, PlanOf
<1>5. CreateInv' /\ SaveInv'
  BY <1>1 DEF thread, IInv, CreateInv, SaveInv, Reported
<1> QED BY <1>1, <1>2, <1>4, <1>5 DEF IInv

\* The array while a thread saves it.
LEMMA SavingChanges ==
    ASSUME IInv, UNCHANGED <<files, file_index, file_cache, arg, dest, plan>>
    PROVE  ArrayInv' /\ Entries' = Entries /\ Names' = Names
BY DEF IInv, ArrayInv, ArrayType, IndexExact, CacheCoherent, Entries, Names, Positions

\* ns_save_metadata empties the file.
LEMMA SaveKeeps ==
    ASSUME IInv, NEW t \in Threads, ns_save_metadata(t)
    PROVE  IInv'
<1>1. ArrayInv' /\ Entries' = Entries /\ Names' = Names
  BY SavingChanges DEF ns_save_metadata
<1>2. /\ pc[t] = "save" /\ state_lock = NoThread /\ state_lock' = t /\ db' = <<>>
      /\ pc' = [pc EXCEPT ![t] = "saving"] /\ pc'[t] = "saving"
      /\ UNCHANGED <<files, arg, dest, plan>>
  BY DEF ns_save_metadata, Goto, IInv, ThreadType
<1>3. ThreadType' /\ LockInv'
  BY <1>2, CatalogAssumption DEF IInv, ThreadType, LockInv, Holding, Threads
<1>4. DbInv' /\ SavingInv'
  <2>1. db' \in Seq(FileMetadata) /\ Len(db') = 0
    BY <1>2, EmptySeq
  <2>2. Len(files') \in Nat
    BY <1>1 DEF ArrayInv, ArrayType
  <2> QED BY <2>1, <2>2, CatalogAssumption DEF DbInv, SavingInv
<1>5. CreateInv'
  BY <1>1, <1>2 DEF IInv, ThreadType, CreateInv, Threads
<1>6. SaveInv'
  BY <1>2 DEF SaveInv
<1> QED BY <1>1, <1>2, <1>3, <1>4, <1>5, <1>6, SavePlansNext DEF IInv

\* It writes some more of the entries.
LEMMA SaveEntriesKeeps ==
    ASSUME IInv, NEW t \in Threads, SaveEntries(t)
    PROVE  IInv'
<1>1. ArrayInv' /\ Entries' = Entries /\ Names' = Names
  BY SavingChanges DEF SaveEntries, thread
<1>2. pc[t] = "saving" /\ UNCHANGED <<files, state_lock, pc, arg, dest, plan>>
  BY DEF SaveEntries, thread
<1>3. ThreadType' /\ LockInv'
  BY <1>2 DEF IInv, ThreadType, LockInv
<1>4. PICK k \in Len(db) + 1 .. Len(files) : db' = SubSeq(files, 1, k)
  BY DEF SaveEntries
<1>5. /\ files \in Seq(FileMetadata) /\ Len(files) \in Nat /\ Len(db) \in Nat
      /\ Len(files) <= NS_MAX_FILES
      /\ \A i, j \in 1..Len(files) : files[i].filename = files[j].filename => i = j
  BY EntryFacts DEF IInv, ArrayInv, ArrayType, DbInv, Positions
<1>6. /\ db' \in Seq(FileMetadata) /\ Len(db') = k /\ k <= Len(files)
      /\ \A i \in 1..k : db'[i] = files[i] /\ i \in 1..Len(files)
  BY <1>4, <1>5
<1>7. DbInv'
  BY <1>5, <1>6, CatalogAssumption DEF DbInv
<1>8. SavingInv'
  BY <1>2, <1>6 DEF SavingInv
<1>9. CreateInv'
  BY <1>1, <1>2 DEF IInv, CreateInv
<1>10. SaveInv'
  BY <1>2 DEF SaveInv
<1> QED BY <1>1, <1>2, <1>3, <1>7, <1>8, <1>9, <1>10, SavePlansNext DEF IInv

\* A file that is written to the end has every entry.
LEMMA AllSaved ==
    ASSUME IInv, NEW t \in Threads, pc[t] = "saving", Len(db) = Len(files)
    PROVE  Range(db) = Entries
<1>1. \A i \in 1..Len(db) : db[i] = files[i]
  BY DEF IInv, SavingInv
<1>2. DOMAIN db = 1..Len(db) /\ DOMAIN files = 1..Len(files)
  BY DEF IInv, DbInv, ArrayInv, ArrayType
<1> QED BY <1>1, <1>2 DEF Entries, Range

\* It closes the file.
LEMMA SaveEndKeeps ==
    ASSUME IInv, NEW t \in Threads, SaveEnd(t)
    PROVE  IInv'
<1>1. ArrayInv' /\ Entries' = Entries /\ Names' = Names
  BY SavingChanges DEF SaveEnd
<1>2. /\ pc[t] = "saving" /\ state_lock = t /\ state_lock' = NoThread /\ Len(db) = Len(files)
      /\ pc' = [pc EXCEPT ![t] = "idle"]
      /\ UNCHANGED <<arg, dest, plan, db>>
  BY DEF SaveEnd, Goto, IInv, LockInv
<1>3. ThreadType' /\ LockInv'
  BY <1>2, CatalogAssumption DEF IInv, ThreadType, LockInv, Holding, Threads
<1>4. CreateInv'
  BY <1>1, <1>2 DEF IInv, ThreadType, CreateInv, Threads
<1>5. SaveInv'
  <2>1. Range(db') = Entries'
    BY <1>1, <1>2, AllSaved
  <2> QED BY <2>1 DEF SaveInv
<1> QED BY <1>1, <1>2, <1>3, <1>4, <1>5, FreePlansNext DEF IInv, DbInv

\* A restart loads the file as it is.
LEMMA RestartKeeps ==
    ASSUME IInv, ns_load_metadata
    PROVE  IInv'
<1>1. PICK loaded \in Loadable :
        IF \A i, j \in 1..Len(loaded) : loaded[i].filename = loaded[j].filename => i = j
        THEN /\ files' = loaded /\ db' = loaded
             /\ file_index' = [n \in {loaded[i].filename : i \in 1..Len(loaded)} |->
                                  CHOOSE i \in 1..Len(loaded) : loaded[i].filename = n]
             /\ file_cache' = {} /\ state_lock' = NoThread
             /\ pc' = [t \in Threads |-> "idle"]
             /\ arg' = [t \in Threads |-> Root] /\ dest' = [t \in Threads |-> Root]
             /\ plan' = [t \in Threads |-> {}]
        ELSE UNCHANGED <<files, file_index, file_cache, state_lock, thread, db>>
  BY DEF ns_load_metadata
<1>2. CASE \A i, j \in 1..Len(loaded) : loaded[i].filename = loaded[j].filename => i = j
  <2>1. loaded \in Seq(FileMetadata) /\ Len(loaded) <= NS_MAX_FILES
    BY LoadableType DEF IInv, ArrayInv
  <2>2. ArrayInv' /\ Entries' = Range(loaded)
    BY <1>1, <1>2, <2>1, LoadKeeps
  <2>3. ThreadType' /\ LockInv' /\ state_lock' = NoThread
    BY <1>1, <1>2, CatalogAssumption DEF ThreadType, LockInv, Holding, Threads
  <2>4. DbInv'
    BY <1>1, <1>2, <2>1 DEF DbInv
  <2>5. CreateInv' /\ SaveInv'
    BY <1>1, <1>2, <2>2 DEF CreateInv, SaveInv, Threads
  <2> QED BY <2>2, <2>3, <2>4, <2>5, FreePlansNext DEF IInv
<1>3. CASE ~\A i, j \in 1..Len(loaded) : loaded[i].filename = loaded[j].filename => i = j
  BY <1>1, <1>3, StutterKeeps
<1> QED BY <1>2, <1>3

\* The entries stay, and so does what each thread in CREATE recorded and what
\* waits to be saved, when a thread that was not in CREATE and had nothing to
\* save goes on.
LEMMA BeginKeeps ==
    ASSUME IInv, NEW c \in Clients, pc[c] \in {"idle", "rename", "erase"}, NEW label,
           label # "create", pc' = [pc EXCEPT ![c] = label], NEW p, arg' = [arg EXCEPT ![c] = p],
           Entries' = Entries, UNCHANGED db
    PROVE  CreateInv' /\ SaveInv'
<1>1. \A t \in Threads : t # c => pc'[t] = pc[t] /\ arg'[t] = arg[t]
  BY DEF IInv, ThreadType, Threads
<1>2. /\ pc'[c] # "create" /\ c \in Threads
      /\ pc[c] \notin {"create", "save", "saving", "move", "delete"}
  BY DEF IInv, ThreadType, Threads
<1>3. CreateInv'
  BY <1>1, <1>2 DEF IInv, CreateInv, Threads, Reported
<1>4. SaveInv'
  BY <1>1, <1>2 DEF IInv, SaveInv, Threads, Reported
<1> QED BY <1>3, <1>4

\* MOVE checks its paths and plans the entries to rename.
LEMMA MoveBeginKeeps ==
    ASSUME IInv, NEW c \in Clients, NEW src \in Path, NEW folder \in Path \cup {Root},
           MoveBegin(c, src, folder)
    PROVE  IInv'
<1> DEFINE dst == Append(folder, src[Len(src)])
<1>1. ArrayInv' /\ Entries' = Entries /\ Names' = Names
  BY StoreKeeps DEF MoveBegin, IInv
<1>2. c \in Threads /\ c # NoThread
  BY CatalogAssumption DEF Threads
<1>3. /\ src \in Seq(Components) /\ src # <<>> /\ folder \in Seq(Components)
      /\ src[Len(src)] \in Components
      /\ dst \in Seq(Components) /\ Parent(dst) = folder /\ Len(dst) = Len(folder) + 1
  <2>1. src \in Seq(Components) /\ src # <<>> /\ folder \in Seq(Components)
    BY CatalogAssumption, EmptySeq DEF Root
  <2>2. src[Len(src)] \in Components
    BY <2>1
  <2> QED BY <2>1, <2>2, AppendParent
<1>4. /\ pc[c] = "idle" /\ state_lock = NoThread /\ state_lock' = c
      /\ src \in Names
      /\ folder # Root => FolderAt(folder)
      /\ dst # src
      /\ ~(FolderAt(src) /\ folder # Root /\ Under(src, folder))
      /\ \A m \in Entries : m.filename \in TreeAt(src) => m.owner = c
      /\ \A n \in TreeAt(src) : Moved(src, dst, n) \in Path
      /\ \A n \in TreeAt(src) :
            \A i \in file_lookup_locked(Moved(src, dst, n)) : files[i].filename = n
      /\ pc' = [pc EXCEPT ![c] = "rename"]
      /\ arg' = [arg EXCEPT ![c] = src] /\ dest' = [dest EXCEPT ![c] = dst]
      /\ plan' = [plan EXCEPT ![c] = TreeAt(src)]
      /\ UNCHANGED db
  <2>1. /\ \A p : IsFolder(p) <=> FolderAt(p)
        /\ Affected(src) = TreeAt(src)
        /\ OwnsAll(c, TreeAt(src)) =>
              \A m \in Entries : m.filename \in TreeAt(src) => m.owner = c
        /\ file_lookup_locked(src) # {} => src \in Names
    BY LookupFinds, FolderFacts DEF IInv
  <2>2. MoveBegin(c, src, folder)
    OBVIOUS
  <2>3. DestinationFree(src, dst)
    BY <2>2 DEF MoveBegin
  <2> QED BY <2>1, <2>2, <2>3 DEF MoveBegin, Goto, DestinationFree
<1> HIDE DEF dst
<1>5. \A n \in TreeAt(src) : n \in Seq(Components) /\ Under(src, n)
  <2>1. \A n \in TreeAt(src) : n \in Seq(Components)
    BY CatalogAssumption DEF TreeAt, IInv, ArrayInv, ArrayType, IndexExact
  <2>2. Under(src, src)
    BY <1>3, UnderItself
  <2> QED BY <2>1, <2>2 DEF TreeAt
<1>6. \A n \in TreeAt(src) : Moved(src, dst, n) \notin Names
  <2>1. ASSUME NEW n \in TreeAt(src), Moved(src, dst, n) \in Names PROVE FALSE
    <3>1. Moved(src, dst, n) = n
      BY <1>4, <2>1, LookupFinds DEF IInv
    <3> QED BY <3>1, <1>3, <1>4, <1>5, MovedFixed
  <2> QED BY <2>1
<1>7. src \in TreeAt(src) /\ dst \in Path /\ TreeAt(src) \subseteq Path
  <2>1. src \in TreeAt(src)
    BY <1>4 DEF TreeAt
  <2>2. Moved(src, dst, src) = dst
    BY <1>3, UnderItself
  <2>3. TreeAt(src) \subseteq Path
    BY DEF TreeAt, IInv, ArrayInv, ArrayType, IndexExact
  <2> QED BY <1>4, <2>1, <2>2, <2>3
<1>8. /\ pc'[c] = "rename" /\ arg'[c] = src /\ dest'[c] = dst /\ plan'[c] = TreeAt(src)
      /\ \A t \in Threads : t # c => pc'[t] = pc[t] /\ plan'[t] = plan[t]
  BY <1>2, <1>4 DEF IInv, ThreadType
<1>9. ThreadType'
  BY <1>2, <1>4, <1>7 DEF IInv, ThreadType
<1>10. LockInv'
  BY <1>2, <1>4, <1>8, CatalogAssumption DEF IInv, LockInv, Holding
<1>11. PlanOf(c)'
  <2>1. /\ TreeAt(src)' = TreeAt(src) /\ \A p : FolderAt(p)' = FolderAt(p)
    BY <1>1 DEF TreeAt, FolderAt
  <2>2. Len(dst) > 1 => FolderAt(Parent(dst))
    BY <1>3, <1>4 DEF Root
  <2>3. ~(FolderAt(src) /\ Under(src, dst))
    BY <1>3, <1>4, NotInside DEF dst, Root
  <2> QED BY <1>1, <1>4, <1>5, <1>6, <1>7, <1>8, <2>1, <2>2, <2>3 DEF PlanOf, TreeAt
<1>12. CreateInv' /\ SaveInv'
  BY <1>1, <1>4, BeginKeeps
<1> QED BY <1>1, <1>4, <1>8, <1>9, <1>10, <1>11, <1>12, OtherPlansNext DEF IInv, DbInv

\* DELETE checks its path and plans the entries to remove.
LEMMA DeleteBeginKeeps ==
    ASSUME IInv, NEW c \in Clients, NEW p \in Path, DeleteBegin(c, p)
    PROVE  IInv'
<1>1. ArrayInv' /\ Entries' = Entries /\ Names' = Names
  BY StoreKeeps DEF DeleteBegin, IInv
<1>2. c \in Threads /\ c # NoThread
  BY CatalogAssumption DEF Threads
<1>3. /\ pc[c] = "idle" /\ state_lock = NoThread /\ state_lock' = c
      /\ p \in Names
      /\ \A m \in Entries : m.filename \in TreeAt(p) => m.owner = c
      /\ pc' = [pc EXCEPT ![c] = "erase"] /\ plan' = [plan EXCEPT ![c] = TreeAt(p)]
      /\ UNCHANGED <<arg, dest, db>>
  <2>1. /\ Affected(p) = TreeAt(p)
        /\ OwnsAll(c, TreeAt(p)) => \A m \in Entries : m.filename \in TreeAt(p) => m.owner = c
        /\ file_lookup_locked(p) # {} => p \in Names
    BY LookupFinds, FolderFacts DEF IInv
  <2>2. DeleteBegin(c, p)
    OBVIOUS
  <2> QED BY <2>1, <2>2 DEF DeleteBegin, Goto
<1>4. TreeAt(p) \subseteq Path
  BY DEF TreeAt, IInv, ArrayInv, ArrayType, IndexExact
<1>5. /\ pc'[c] = "erase" /\ plan'[c] = TreeAt(p)
      /\ \A t \in Threads : t # c => pc'[t] = pc[t] /\ plan'[t] = plan[t]
  BY <1>2, <1>3 DEF IInv, ThreadType
<1>6. ThreadType'
  BY <1>2, <1>3, <1>4 DEF IInv, ThreadType
<1>7. LockInv'
  BY <1>2, <1>3, <1>5, CatalogAssumption DEF IInv, LockInv, Holding
<1>8. PlanOf(c)'
  <2>1. TreeAt(p)' = TreeAt(p)
    BY <1>1 DEF TreeAt, FolderAt
  <2>2. TreeAt(p) \subseteq Names
    BY DEF TreeAt
  <2> QED BY <1>1, <1>3, <1>5, <2>1, <2>2 DEF PlanOf
<1>9. CreateInv' /\ SaveInv'
  <2>1. arg' = [arg EXCEPT ![c] = arg[c]]
    BY <1>3 DEF IInv, ThreadType
  <2> QED BY <1>1, <1>3, <2>1, BeginKeeps
<1> QED BY <1>1, <1>3, <1>5, <1>6, <1>7, <1>8, <1>9, OtherPlansNext DEF IInv, DbInv

\* MOVE or DELETE ends in an error before it changed an entry.
LEMMA GiveUpKeeps ==
    ASSUME IInv, NEW c \in Clients, pc[c] \in {"rename", "erase"}, GiveUp(c),
           UNCHANGED <<files, file_index, file_cache, db>>
    PROVE  IInv'
<1>1. ArrayInv' /\ Entries' = Entries /\ Names' = Names
  BY DEF IInv, ArrayInv, ArrayType, IndexExact, CacheCoherent, Entries, Names, Positions
<1>2. c \in Threads /\ c # NoThread
  BY CatalogAssumption DEF Threads
<1>3. ThreadType' /\ state_lock' = NoThread
  BY <1>2 DEF GiveUp, Goto, IInv, ThreadType
<1>4. LockInv'
  BY <1>2, CatalogAssumption DEF GiveUp, Goto, IInv, ThreadType, LockInv, Holding
<1>5. CreateInv' /\ SaveInv'
  BY <1>1, BeginKeeps DEF GiveUp, Goto
<1> QED BY <1>1, <1>3, <1>4, <1>5, FreePlansNext DEF IInv, DbInv

\* The storage servers did their part of MOVE or DELETE.
LEMMA GoOnKeeps ==
    ASSUME IInv, NEW c \in Clients, NEW l,
           (pc[c] = "rename" /\ l = "move") \/ (pc[c] = "erase" /\ l = "delete"),
           pc' = [pc EXCEPT ![c] = l],
           UNCHANGED <<files, file_index, file_cache, state_lock, arg, dest, plan, db>>
    PROVE  IInv'
<1>1. ArrayInv' /\ Entries' = Entries /\ Names' = Names
  BY DEF IInv, ArrayInv, ArrayType, IndexExact, CacheCoherent, Entries, Names, Positions
<1>2. c \in Threads /\ c # NoThread
  BY CatalogAssumption DEF Threads
<1>3. /\ pc'[c] = l /\ \A t \in Threads : t # c => pc'[t] = pc[t]
  BY <1>2 DEF IInv, ThreadType
<1>4. ThreadType'
  BY <1>2, <1>3 DEF IInv, ThreadType
<1>5. LockInv' /\ state_lock' = c
  BY <1>2, <1>3 DEF IInv, LockInv, Holding
<1>6. PlanOf(c)'
  <2>1. PlanOf(c)
    BY DEF IInv, PlanInv
  <2> QED BY <1>1, <1>3, <2>1 DEF PlanOf
<1>7. CreateInv' /\ SaveInv'
  <2>1. arg' = [arg EXCEPT ![c] = arg[c]]
    BY DEF IInv, ThreadType
  <2>2. l # "create" /\ pc[c] \in {"idle", "rename", "erase"}
    BY <1>3
  <2> QED BY <1>1, <2>1, <2>2, BeginKeeps
<1> QED BY <1>1, <1>3, <1>4, <1>5, <1>6, <1>7, OtherPlansNext DEF IInv, DbInv

\* RENAME_FILE at the storage server, done or failed.
LEMMA RenameAtStorageKeeps ==
    ASSUME IInv, NEW c \in Clients, RenameAtStorage(c)
    PROVE  IInv'
<1>1. CASE Goto(c, "move") /\ UNCHANGED <<state_lock, arg, dest, plan>>
  BY <1>1, GoOnKeeps DEF RenameAtStorage, Goto
<1>2. CASE GiveUp(c)
  BY <1>2, GiveUpKeeps DEF RenameAtStorage
<1> QED BY <1>1, <1>2 DEF RenameAtStorage

\* DELETE_FILE at the storage server, done or failed.
LEMMA DeleteAtStorageKeeps ==
    ASSUME IInv, NEW c \in Clients, DeleteAtStorage(c)
    PROVE  IInv'
<1>1. CASE Goto(c, "delete") /\ UNCHANGED <<state_lock, arg, dest, plan>>
  BY <1>1, GoOnKeeps DEF DeleteAtStorage, Goto
<1>2. CASE GiveUp(c)
  BY <1>2, GiveUpKeeps DEF DeleteAtStorage
<1> QED BY <1>1, <1>2 DEF DeleteAtStorage

\* What MoveEntry does to the catalogue: the entry is there, and its new path is
\* free.
LEMMA MoveEntryChanges ==
    ASSUME IInv, NEW c \in Clients, NEW old \in plan[c], MoveEntry(c, old)
    PROVE  LET new == Moved(arg[c], dest[c], old)
           IN  /\ ArrayInv'
               /\ Entries' = {IF m.filename = old THEN [m EXCEPT !.filename = new] ELSE m :
                                 m \in Entries}
               /\ Names' = (Names \ {old}) \cup {new}
               /\ old \in Names /\ new \in Path \ Names
<1> DEFINE new == Moved(arg[c], dest[c], old)
<1>1. old \in Names /\ new \in Path \ Names
  BY DEF IInv, PlanInv, PlanOf, MoveEntry
<1> HIDE DEF new
<1>2. file_lookup_locked(old) = {file_index[old]}
      /\ file_index[old] \in Positions /\ files[file_index[old]].filename = old
  BY <1>1, LookupFinds DEF IInv
<1> DEFINE i == file_index[old]
<1>3. /\ file_index' = file_index_insert(file_index_remove_entry(file_index, old), new, i)
      /\ files' = [files EXCEPT ![i].filename = new]
      /\ file_cache' \in file_cache_store(file_cache_rename(old, new, i),
                                          {[filename |-> new, file_array_index |-> i]})
  BY <1>2 DEF MoveEntry, new
<1>4. /\ ArrayInv'
      /\ Entries' = {IF m.filename = old THEN [m EXCEPT !.filename = new] ELSE m : m \in Entries}
      /\ Names' = (Names \ {old}) \cup {new}
  BY <1>1, <1>2, <1>3, RenameKeeps DEF IInv
<1> QED BY <1>1, <1>4 DEF new

\* MOVE renames the next entry of its plan.
LEMMA MoveEntryKeeps ==
    ASSUME IInv, NEW c \in Clients, NEW old \in plan[c], MoveEntry(c, old)
    PROVE  IInv'
<1> DEFINE new == Moved(arg[c], dest[c], old)
           g(m) == IF m.filename = old THEN [m EXCEPT !.filename = new] ELSE m
<1>1. /\ ArrayInv' /\ Entries' = {g(m) : m \in Entries}
      /\ Names' = (Names \ {old}) \cup {new}
      /\ old \in Names /\ new \in Path \ Names
  BY MoveEntryChanges
<1>2. /\ c \in Threads /\ c # NoThread /\ pc[c] = "move" /\ state_lock = c
      /\ plan' = [plan EXCEPT ![c] = plan[c] \ {old}]
      /\ UNCHANGED <<state_lock, pc, arg, dest, db>>
  BY CatalogAssumption DEF Threads, MoveEntry, IInv, LockInv, Holding
<1>3. PlanOf(c)
  BY DEF IInv, PlanInv
<1>4. ThreadType'
  BY <1>2 DEF IInv, ThreadType
<1>5. /\ plan'[c] = plan[c] \ {old}
      /\ \A t \in Threads : t # c => plan'[t] = plan[t]
  BY <1>2 DEF IInv, ThreadType
<1>6. LockInv'
  BY <1>2, <1>5 DEF IInv, LockInv, Holding
<1>7. \A m \in Entries :
         /\ m.filename # old => g(m) = m
         /\ m.filename = old => g(m).filename = new /\ g(m).owner = m.owner
  BY EntryFacts DEF IInv, FileMetadata
<1>8. \A n \in plan[c] : n \in Seq(Components) /\ Under(arg[c], n)
  BY <1>2, <1>3, CatalogAssumption DEF PlanOf, IInv, ArrayInv, ArrayType, IndexExact
<1>9. arg[c] \in Seq(Components) /\ dest[c] \in Seq(Components)
  BY <1>2, <1>3, CatalogAssumption DEF PlanOf
<1>10. \A n \in plan[c] : n # old => Moved(arg[c], dest[c], n) # new
  BY <1>8, <1>9, MovedInjective
<1> HIDE DEF new, g
<1>11. new \notin plan[c]
  BY <1>1, <1>3 DEF PlanOf
<1>12. PlanOf(c)'
  <2>1. plan'[c] \subseteq Names'
    BY <1>1, <1>3, <1>5 DEF PlanOf
  <2>2. \A m \in Entries' : m.filename \in plan'[c] => m.owner = c
    BY <1>1, <1>3, <1>5, <1>7, <1>11 DEF PlanOf
  <2>3. \A n \in plan'[c] : Under(arg[c], n) /\ Moved(arg[c], dest[c], n) \in Path \ Names'
    BY <1>1, <1>2, <1>3, <1>5, <1>10 DEF PlanOf
  <2> QED BY <1>2, <1>3, <2>1, <2>2, <2>3 DEF PlanOf
<1>13. CreateInv'
  <2> SUFFICES ASSUME NEW u \in Clients, pc[u] = "create", arg[u] \notin Reported
               PROVE  \E m \in Entries' : m.filename = arg[u] /\ m.owner = u
    BY <1>2 DEF CreateInv, Reported
  <2>1. PICK m \in Entries : m.filename = arg[u] /\ m.owner = u
    BY DEF IInv, CreateInv
  <2>2. m.filename # old
    BY <2>1, <1>2, <1>3 DEF PlanOf
  <2> QED BY <1>1, <1>7, <2>1, <2>2
<1>14. SaveInv'
  BY <1>2 DEF SaveInv
<1> QED BY <1>1, <1>2, <1>4, <1>6, <1>12, <1>13, <1>14, OtherPlansNext DEF IInv, DbInv

\* DELETE removes the next entry of its plan.
LEMMA DeleteEntryKeeps ==
    ASSUME IInv, NEW c \in Clients, NEW n \in plan[c], DeleteEntry(c, n)
    PROVE  IInv'
<1>1. ArrayInv' /\ Entries' = {m \in Entries : m.filename # n} /\ Names' = Names \ {n}
  BY RemoveKeeps DEF DeleteEntry, IInv
<1>2. /\ c \in Threads /\ c # NoThread /\ pc[c] = "delete" /\ state_lock = c
      /\ plan' = [plan EXCEPT ![c] = plan[c] \ {n}]
      /\ UNCHANGED <<state_lock, pc, arg, dest, db>>
  BY CatalogAssumption DEF Threads, DeleteEntry, IInv, LockInv, Holding
<1>3. PlanOf(c)
  BY DEF IInv, PlanInv
<1>4. ThreadType'
  BY <1>2 DEF IInv, ThreadType
<1>5. /\ plan'[c] = plan[c] \ {n}
      /\ \A t \in Threads : t # c => plan'[t] = plan[t]
  BY <1>2 DEF IInv, ThreadType
<1>6. LockInv'
  BY <1>2, <1>5 DEF IInv, LockInv, Holding
<1>7. PlanOf(c)'
  BY <1>1, <1>2, <1>3, <1>5 DEF PlanOf
<1>8. CreateInv'
  <2> SUFFICES ASSUME NEW u \in Clients, pc[u] = "create", arg[u] \notin Reported
               PROVE  \E m \in Entries' : m.filename = arg[u] /\ m.owner = u
    BY <1>2 DEF CreateInv, Reported
  <2>1. PICK m \in Entries : m.filename = arg[u] /\ m.owner = u
    BY DEF IInv, CreateInv
  <2>2. m.filename # n
    BY <2>1, <1>2, <1>3 DEF PlanOf
  <2> QED BY <1>1, <2>1, <2>2
<1>9. SaveInv'
  BY <1>2 DEF SaveInv
<1> QED BY <1>1, <1>2, <1>4, <1>6, <1>7, <1>8, <1>9, OtherPlansNext DEF IInv, DbInv

\* A plan that is done ends, and its command releases state_lock.
LEMMA EndPlanKeeps ==
    ASSUME IInv, NEW c \in Clients, EndPlan(c)
    PROVE  IInv'
<1>1. ArrayInv' /\ Entries' = Entries /\ Names' = Names
  BY DEF EndPlan, IInv, ArrayInv, ArrayType, IndexExact, CacheCoherent, Entries, Names, Positions
<1>2. c \in Threads /\ c # NoThread
  BY CatalogAssumption DEF Threads
<1>3. ThreadType' /\ state_lock' = NoThread
  BY <1>2 DEF EndPlan, Goto, IInv, ThreadType
<1>4. LockInv'
  BY <1>2, CatalogAssumption DEF EndPlan, Goto, IInv, ThreadType, LockInv, Holding
<1>5. CreateInv'
  BY <1>1, <1>2 DEF EndPlan, Goto, IInv, ThreadType, CreateInv, Threads
<1>6. SaveInv'
  BY <1>2 DEF EndPlan, Goto, IInv, ThreadType, SaveInv
<1> QED BY <1>1, <1>3, <1>4, <1>5, <1>6, FreePlansNext DEF IInv, DbInv, EndPlan

\* The initial state satisfies the inductive invariant.
LEMMA IInvInit == Init => IInv
<1> SUFFICES ASSUME Init PROVE IInv
  OBVIOUS
<1>1. files \in Seq(FileMetadata) /\ Len(files) = 0
  BY EmptySeq DEF Init
<1>2. ArrayInv /\ Entries = {}
  BY <1>1, CatalogAssumption DEF Init, ArrayInv, ArrayType, IndexExact, CacheCoherent, Names,
                                 Positions, Entries, Range
<1>3. DbInv
  BY <1>1, CatalogAssumption DEF Init, DbInv
<1>4. ThreadType /\ LockInv
  BY CatalogAssumption DEF Init, ThreadType, LockInv, Holding, Threads
<1>5. CreateInv /\ SaveInv
  BY <1>2 DEF Init, CreateInv, SaveInv, Threads
<1>6. PlanInv /\ SavingInv
  BY <1>4, FreePlans DEF Init
<1> QED BY <1>2, <1>3, <1>4, <1>5, <1>6 DEF IInv

\* Every step of the name server preserves the inductive invariant.
LEMMA IInvStep == IInv /\ [Next]_vars => IInv'
<1> SUFFICES ASSUME IInv, [Next]_vars PROVE IInv'
  OBVIOUS
<1>1. ASSUME NEW c \in Clients, ClientStep(c) PROVE IInv'
  BY <1>1, CreateBeginKeeps, CreateFolderKeeps, DeleteBeginKeeps, MoveBeginKeeps,
     CreateDoneKeeps, CreateRollbackKeeps, MoveEntryKeeps, DeleteEntryKeeps,
     RenameAtStorageKeeps, DeleteAtStorageKeeps, EndPlanKeeps DEF ClientStep
<1>2. CASE UNCHANGED vars
  BY <1>2, StutterKeeps DEF vars
<1>3. ASSUME Command PROVE IInv'
  BY <1>1, <1>3, LookupKeeps, HasFileKeeps, SaveKeeps, SaveEntriesKeeps, SaveEndKeeps DEF Command
<1> QED BY <1>2, <1>3, RestartKeeps DEF Next

\* The inductive invariant holds in every reachable state: the array, its index
\* and its cache agree (ArrayInv), state_lock has one holder and every plan is
\* his (LockInv, PlanInv), every CREATE in progress still has its entry
\* (CreateInv), and what is saved is still there (SaveInv).
THEOREM CatalogInvariant == Spec => []IInv
BY IInvInit, IInvStep, PTL DEF Spec

-----------------------------------------------------------------------------
(* What follows from it *)

\* The catalogue is well typed: array, index, cache, lock, threads and file.
THEOREM TypeCorrect == Spec => []TypeOK
<1> DEFINE D == doubled \in BOOLEAN
<1>1. IInv /\ D => TypeOK
  BY DEF IInv, ArrayInv, ArrayType, DbInv, ThreadType, TypeOK
<1>2. Init => D
  BY DEF Init
<1>3. D /\ [Next]_vars => D'
  BY DEF Next, ns_load_metadata, vars
<1> QED BY <1>1, <1>2, <1>3, CatalogInvariant, PTL DEF Spec

\* For any paths, users and bounds the hash index stays the inverse of the array,
\* through remove_file_metadata_locked, MOVE and ns_load_metadata, as long as no
\* restart has loaded two entries of one name.
THEOREM IndexIsInverse == Spec => []IndexExact
<1>1. IInv => IndexExact
  BY DEF IInv, ArrayInv
<1> QED BY <1>1, CatalogInvariant, PTL

\* For any cache size and any replacement policy, file_cache_lookup never
\* returns another file's entry.
THEOREM CacheIsRight == Spec => []CacheCoherent
<1>1. IInv => CacheCoherent
  BY DEF IInv, ArrayInv
<1> QED BY <1>1, CatalogInvariant, PTL

\* The rollback of CREATE removes the entry that CREATE recorded, however many
\* clients work in the catalogue while the storage server is asked.
THEOREM RollbackIsOwn == Spec => []RollbackRemovesOwn
<1>1. IInv => RollbackRemovesOwn
  <2> SUFFICES ASSUME IInv, NEW c \in Clients, pc[c] = "create", arg[c] \notin Reported
               PROVE  \E i \in file_lookup_locked(arg[c]) :
                         files[i].filename = arg[c] /\ files[i].owner = c
    BY DEF RollbackRemovesOwn, Reported
  <2>1. PICK m \in Entries : m.filename = arg[c] /\ m.owner = c
    BY DEF IInv, CreateInv
  <2>2. PICK i \in Positions : files[i] = m
    BY EntryFacts DEF IInv
  <2>3. arg[c] \in Names /\ i = file_index[arg[c]]
    BY <2>1, <2>2 DEF IInv, ArrayInv, IndexExact, Names
  <2> QED BY <2>1, <2>2, <2>3, LookupFinds DEF IInv
<1> QED BY <1>1, CatalogInvariant, PTL

\* Every entry of a MOVE or DELETE plan is still there when its turn comes, and
\* the path it moves to is still free.
THEOREM PlansHold == Spec => []PlanHolds
<1>1. IInv => PlanHolds
  BY DEF IInv, PlanInv, PlanOf, PlanHolds
<1> QED BY <1>1, CatalogInvariant, PTL

\* When nobody is at work, a save included, the metadata file has every entry that
\* no storage server would report again, whatever restarts before have lost.
THEOREM NothingIsLost == Spec => []SavedEntriesSurvive
<1>1. IInv => SavedEntriesSurvive
  <2> SUFFICES ASSUME IInv, \A t \in Threads : pc[t] = "idle", NEW i \in Positions,
                      files[i].filename \notin Reported
               PROVE  \E j \in DOMAIN db : db[j] = files[i]
    BY DEF SavedEntriesSurvive, Reported
  <2>1. files[i] \in Range(db)
    BY EntryFacts DEF IInv, SaveInv, Threads
  <2> QED BY <2>1 DEF Range
<1> QED BY <1>1, CatalogInvariant, PTL

-----------------------------------------------------------------------------
(* The catalogue implements Namespace *)

Attributes(m) == [owner |-> m.owner, is_directory |-> m.is_directory]

\* f is the map that a set of records, each under its own name, stands for.
IsMap(f, S) ==
    /\ f = [n \in DOMAIN f |-> f[n]]
    /\ DOMAIN f = {m.filename : m \in S}
    /\ \A m \in S : f[m.filename] = Attributes(m)

\* A set of entries is the map of at most one function.
LEMMA MapUnique ==
    ASSUME NEW S, NEW f, NEW g, IsMap(f, S), IsMap(g, S)
    PROVE  f = g
BY DEF IsMap

\* The map with one more entry.
LEMMA MapWith ==
    ASSUME NEW S, NEW f, IsMap(f, S), NEW x, x.filename \notin DOMAIN f
    PROVE  IsMap([n \in DOMAIN f \cup {x.filename} |->
                     IF n = x.filename THEN Attributes(x) ELSE f[n]], S \cup {x})
BY DEF IsMap

\* The map without an entry.
LEMMA MapWithout ==
    ASSUME NEW S, NEW f, IsMap(f, S), NEW T
    PROVE  IsMap([n \in DOMAIN f \ T |-> f[n]], {m \in S : m.filename \notin T})
BY DEF IsMap

\* The entries as a thread that gets state_lock next will find them.
Seen == {m \in Entries : ~ToDo("delete", m.filename)}

Arrived(m) == [m EXCEPT !.filename = NewPath(m.filename)]

Visible == {Arrived(m) : m \in Seen}

\* Two entries never have one path in the end.
LEMMA NewPathInjective ==
    ASSUME IInv, NEW m1 \in Seen, NEW m2 \in Seen, NewPath(m1.filename) = NewPath(m2.filename)
    PROVE  m1 = m2
<1> DEFINE c == state_lock
<1>1. m1 \in Entries /\ m2 \in Entries /\ m1.filename \in Names /\ m2.filename \in Names
  BY EntryFacts DEF Seen, IInv
<1>2. ASSUME NEW n, ToDo("move", n)
      PROVE  /\ NewPath(n) = Moved(arg[c], dest[c], n) /\ NewPath(n) \notin Names
             /\ n \in Seq(Components) /\ Under(arg[c], n)
             /\ arg[c] \in Seq(Components) /\ dest[c] \in Seq(Components)
  <2>1. c \in Clients /\ pc[c] = "move" /\ n \in plan[c]
    BY <1>2 DEF ToDo, IInv, ThreadType, LockInv, Holding, Threads
  <2>2. PlanOf(c)
    BY <2>1 DEF IInv, PlanInv
  <2>3. n \in Path
    BY <2>1, <2>2 DEF PlanOf, IInv, ArrayInv, ArrayType, IndexExact
  <2>4. NewPath(n) = Moved(arg[c], dest[c], n)
    BY <1>2 DEF NewPath
  <2> QED BY <2>1, <2>2, <2>3, <2>4, CatalogAssumption DEF PlanOf
<1>3. ASSUME NEW n, ~ToDo("move", n) PROVE NewPath(n) = n
  BY <1>3 DEF NewPath
<1>4. CASE ToDo("move", m1.filename) /\ ToDo("move", m2.filename)
  <2>1. m1.filename = m2.filename
    BY <1>2, <1>4, MovedInjective
  <2> QED BY <1>1, <2>1, EntryFacts DEF IInv
<1>5. CASE ToDo("move", m1.filename) /\ ~ToDo("move", m2.filename)
  BY <1>1, <1>2, <1>3, <1>5
<1>6. CASE ~ToDo("move", m1.filename) /\ ToDo("move", m2.filename)
  BY <1>1, <1>2, <1>3, <1>6
<1>7. CASE ~ToDo("move", m1.filename) /\ ~ToDo("move", m2.filename)
  BY <1>1, <1>3, <1>7, EntryFacts DEF IInv
<1> QED BY <1>4, <1>5, <1>6, <1>7

\* What the renaming of a MOVE keeps of an entry.
LEMMA ArrivedFacts ==
    ASSUME IInv
    PROVE  \A m \in Seen : /\ Arrived(m).filename = NewPath(m.filename)
                           /\ Attributes(Arrived(m)) = Attributes(m)
                           /\ NewPath(m.filename) = m.filename => Arrived(m) = m
<1>1. \A m \in Seen : m \in FileMetadata
  BY EntryFacts DEF Seen, IInv
<1> QED BY <1>1 DEF Arrived, Attributes, FileMetadata

\* No two of the visible entries have one path.
LEMMA VisibleIsMap == IInv => IsMap(VisibleEntries, Visible)
<1> SUFFICES ASSUME IInv PROVE IsMap(VisibleEntries, Visible)
  OBVIOUS
<1> DEFINE pick(n) == CHOOSE x \in Seen : NewPath(x.filename) = n
<1>1. \A m \in Seen : pick(NewPath(m.filename)) = m
  <2> SUFFICES ASSUME NEW m \in Seen PROVE pick(NewPath(m.filename)) = m
    OBVIOUS
  <2>1. \A x \in Seen : NewPath(x.filename) = NewPath(m.filename) => x = m
    BY NewPathInjective
  <2> QED BY <2>1
<1>2. VisibleEntries = [n \in {NewPath(m.filename) : m \in Seen} |-> Attributes(pick(n))]
  BY DEF VisibleEntries, Seen, Entries, Attributes
<1> HIDE DEF pick
<1>3. \A m \in Seen : VisibleEntries[NewPath(m.filename)] = Attributes(m)
  BY <1>1, <1>2
<1>4. \A x \in Visible : VisibleEntries[x.filename] = Attributes(x)
  BY <1>3, ArrivedFacts DEF Visible
<1>5. DOMAIN VisibleEntries = {x.filename : x \in Visible}
  BY <1>2, ArrivedFacts DEF Visible
<1>6. VisibleEntries = [n \in DOMAIN VisibleEntries |-> VisibleEntries[n]]
  BY <1>2
<1> QED BY <1>4, <1>5, <1>6 DEF IsMap

\* No two of the saved entries have one path.
LEMMA SavedIsMap == IInv => IsMap(SavedEntries, Kept)
<1> SUFFICES ASSUME IInv PROVE IsMap(SavedEntries, Kept)
  OBVIOUS
<1> DEFINE pick(n) == CHOOSE x \in Kept : x.filename = n
<1>1. \A m \in Kept : pick(m.filename) = m
  <2> SUFFICES ASSUME NEW m \in Kept PROVE pick(m.filename) = m
    OBVIOUS
  <2>1. \A x \in Range(db) : \A y \in Range(db) : x.filename = y.filename => x = y
    BY DEF IInv, DbInv, Range
  <2> QED BY <2>1 DEF Kept
<1>2. SavedEntries = [n \in {m.filename : m \in Kept} |-> Attributes(pick(n))]
  BY DEF SavedEntries, Attributes
<1> HIDE DEF pick
<1> QED BY <1>1, <1>2 DEF IsMap

\* The same in the next state.
LEMMA MapsNext ==
    IInv' => IsMap(VisibleEntries', Visible') /\ IsMap(SavedEntries', Kept')
<1> DEFINE P == IsMap(VisibleEntries, Visible) /\ IsMap(SavedEntries, Kept)
<1>1. IInv => P
  BY VisibleIsMap, SavedIsMap
<1>2. IInv' => P'
  BY <1>1, PTL
<1> QED BY <1>2 DEF IsMap, Attributes

\* What is visible, by the state of the holder of state_lock.
VisibleCases ==
    LET c == state_lock
        arrived(m) == IF m.filename \in plan[c]
                      THEN [m EXCEPT !.filename = Moved(arg[c], dest[c], m.filename)] ELSE m
    IN  /\ c = NoThread => Visible = Entries
        /\ c # NoThread /\ pc[c] \in {"rename", "erase", "saving"} => Visible = Entries
        /\ c # NoThread /\ pc[c] = "delete" =>
              Visible = {m \in Entries : m.filename \notin plan[c]}
        /\ c # NoThread /\ pc[c] = "move" => Visible = {arrived(m) : m \in Entries}

\* What is visible while nothing, a MOVE or a DELETE is being carried out.
LEMMA VisibleNow == IInv => VisibleCases
<1> SUFFICES ASSUME IInv PROVE VisibleCases
  OBVIOUS
<1> DEFINE c == state_lock
           arrived(m) == IF m.filename \in plan[c]
                         THEN [m EXCEPT !.filename = Moved(arg[c], dest[c], m.filename)] ELSE m
<1>1. \A m \in Seen : m \in FileMetadata
  BY EntryFacts DEF Seen, IInv
<1>2. ASSUME NEW S, S = Seen, \A m \in Seen : NewPath(m.filename) = m.filename
      PROVE  Visible = S
  BY <1>2, ArrivedFacts DEF Visible
<1>3. CASE c = NoThread \/ pc[c] \in {"rename", "erase", "saving"}
  <2>1. \A n : ~ToDo("delete", n) /\ NewPath(n) = n
    BY <1>3 DEF ToDo, NewPath
  <2>2. Seen = Entries
    BY <2>1 DEF Seen
  <2>3. Visible = Entries
    BY <1>2, <2>1, <2>2
  <2> QED BY <1>3, <2>3 DEF VisibleCases
<1>4. CASE c # NoThread /\ pc[c] = "delete"
  <2>1. \A n : (ToDo("delete", n) <=> n \in plan[c]) /\ NewPath(n) = n
    BY <1>4 DEF ToDo, NewPath
  <2>2. Seen = {m \in Entries : m.filename \notin plan[c]}
    BY <2>1 DEF Seen
  <2>3. Visible = {m \in Entries : m.filename \notin plan[c]}
    BY <1>2, <2>1, <2>2
  <2> QED BY <1>4, <2>3 DEF VisibleCases
<1>5. CASE c # NoThread /\ pc[c] = "move"
  <2>1. \A n : /\ ~ToDo("delete", n)
               /\ NewPath(n) = IF n \in plan[c] THEN Moved(arg[c], dest[c], n) ELSE n
    BY <1>5 DEF ToDo, NewPath
  <2>2. Seen = Entries
    BY <2>1 DEF Seen
  <2>3. \A m \in Entries : Arrived(m) = arrived(m)
    <3> SUFFICES ASSUME NEW m \in Entries PROVE Arrived(m) = arrived(m)
      OBVIOUS
    <3>1. CASE m.filename \in plan[c]
      BY <3>1, <2>1 DEF Arrived
    <3>2. CASE m.filename \notin plan[c]
      BY <3>2, <2>1, <2>2, ArrivedFacts
    <3> QED BY <3>1, <3>2
  <2> HIDE DEF arrived
  <2>4. Visible = {arrived(m) : m \in Entries}
    BY <2>2, <2>3 DEF Visible
  <2> QED BY <1>5, <2>4 DEF VisibleCases, arrived
<1> QED BY <1>3, <1>4, <1>5 DEF VisibleCases

\* The same in the next state.
LEMMA VisibleNext == IInv' => VisibleCases'
BY VisibleNow, PTL

\* The abstract state is a function of what is visible, of the metadata file and
\* of the threads in CREATE.
LEMMA SameMaps ==
    ASSUME IInv, IInv'
    PROVE  /\ Visible' = Visible => VisibleEntries' = VisibleEntries
           /\ db' = db /\ ~SaveUnderWay /\ ~SaveUnderWay' =>
                 SavedEntries' = SavedEntries /\ SaveUnderWay' = SaveUnderWay
<1>1. /\ IsMap(VisibleEntries, Visible) /\ IsMap(SavedEntries, Kept)
      /\ IsMap(VisibleEntries', Visible') /\ IsMap(SavedEntries', Kept')
  BY VisibleIsMap, SavedIsMap, MapsNext
<1>2. ASSUME Visible' = Visible PROVE VisibleEntries' = VisibleEntries
  BY <1>1, <1>2, MapUnique
<1>3. ASSUME db' = db, ~SaveUnderWay, ~SaveUnderWay' PROVE SavedEntries' = SavedEntries
  <2>1. Kept' = Kept
    BY <1>3 DEF Kept, Range
  <2> QED BY <1>1, <2>1, MapUnique
<1>4. ASSUME ~SaveUnderWay, ~SaveUnderWay' PROVE SaveUnderWay' = SaveUnderWay
  BY <1>4 DEF SaveUnderWay
<1> QED BY <1>2, <1>3, <1>4

\* A thread that goes on without beginning or ending a CREATE.
LEMMA SameCreates ==
    ASSUME ThreadType, NEW t \in Threads, NEW label, label # "create", pc[t] # "create",
           pc' = [pc EXCEPT ![t] = label], \A u \in Threads : u # t => arg'[u] = arg[u]
    PROVE  CreatesUnderWay' = CreatesUnderWay
<1>1. pc'[t] = label /\ \A u \in Threads : u # t => pc'[u] = pc[u]
  BY DEF ThreadType
<1>2. \A u \in Clients : /\ pc'[u] = "create" <=> pc[u] = "create"
                         /\ pc[u] = "create" => arg'[u] = arg[u]
  BY <1>1 DEF Threads
<1> QED BY <1>2 DEF CreatesUnderWay

Silent == UNCHANGED <<VisibleEntries, SavedEntries, SaveUnderWay, CreatesUnderWay>>

\* Nothing happens but doubled.
LEMMA StutterIsSilent ==
    ASSUME IInv, IInv', UNCHANGED <<files, file_index, file_cache, state_lock, thread, db>>
    PROVE  Silent
<1>1. Visible' = Visible
  BY DEF thread, Visible, Seen, Arrived, NewPath, ToDo, Entries
<1>2. CreatesUnderWay' = CreatesUnderWay
  BY DEF thread, CreatesUnderWay
<1>3. SaveUnderWay' = SaveUnderWay /\ Kept' = Kept
  BY DEF SaveUnderWay, thread, Kept, Range
<1>4. SavedEntries' = SavedEntries
  BY <1>3, SavedIsMap, MapsNext, MapUnique
<1> QED BY <1>1, <1>2, <1>3, <1>4, SameMaps DEF Silent

\* A lookup changes only the cache.
LEMMA LookupIsSilent ==
    ASSUME IInv, IInv', NEW t \in Threads, NEW n, Lookup(t, n)
    PROVE  Silent
<1>1. Visible = Entries /\ Visible' = Entries' /\ Entries' = Entries
  BY VisibleNow, VisibleNext DEF VisibleCases, Lookup, Entries
<1>2. CreatesUnderWay' = CreatesUnderWay
  BY SameCreates DEF Lookup, Goto, IInv
<1> QED BY <1>1, <1>2, SameMaps DEF Silent, Lookup, SaveUnderWay

\* CREATE adds its entry: the namespace's Create.
LEMMA CreateIsCreate ==
    ASSUME IInv, IInv', NEW c \in Clients, NEW n \in Creates[c], CreateBegin(c, n)
    PROVE  n \in Path \ DOMAIN VisibleEntries /\ N!Create(c, n)
<1> DEFINE m == [filename |-> n, owner |-> c, is_directory |-> FALSE]
<1>1. /\ n \in Path /\ m \in FileMetadata /\ m.filename = n /\ c \in Threads
      /\ Attributes(m) = [owner |-> c, is_directory |-> FALSE]
  BY CatalogAssumption DEF FileMetadata, Threads, Attributes
<1>2. n \notin Names
  BY LookupFinds DEF CreateBegin, IInv
<1> HIDE DEF m
<1>3. Entries' = Entries \cup {m}
  BY <1>1, <1>2, AddKeeps DEF CreateBegin, IInv, m
<1>4. Visible = Entries /\ Visible' = Visible \cup {m}
  BY <1>3, VisibleNow, VisibleNext DEF VisibleCases, CreateBegin
<1>5. n \notin DOMAIN VisibleEntries
  BY <1>2, <1>4, VisibleIsMap, EntryFacts DEF IsMap, IInv
<1>6. VisibleEntries' = [k \in DOMAIN VisibleEntries \cup {n} |->
                            IF k = n THEN Attributes(m) ELSE VisibleEntries[k]]
  <2>1. IsMap(VisibleEntries', Visible \cup {m}) /\ IsMap(VisibleEntries, Visible)
    BY <1>4, MapsNext, VisibleIsMap
  <2>2. IsMap([k \in DOMAIN VisibleEntries \cup {m.filename} |->
                 IF k = m.filename THEN Attributes(m) ELSE VisibleEntries[k]], Visible \cup {m})
    BY <1>1, <1>5, <2>1, MapWith
  <2> QED BY <1>1, <2>1, <2>2, MapUnique
<1>7. CreatesUnderWay' = CreatesUnderWay \cup {<<c, n>>}
  <2>1. /\ pc[c] # "create" /\ pc'[c] = "create" /\ arg'[c] = n
        /\ \A u \in Clients : u # c => pc'[u] = pc[u] /\ arg'[u] = arg[u]
    BY <1>1 DEF CreateBegin, Goto, IInv, ThreadType, Threads
  <2> QED BY <2>1 DEF CreatesUnderWay
<1>8. SavedEntries' = SavedEntries /\ SaveUnderWay' = SaveUnderWay
  BY SameMaps DEF CreateBegin, SaveUnderWay
<1> QED BY <1>1, <1>5, <1>6, <1>7, <1>8 DEF N!Create, N!With

\* Between plans the namespace's folders, trees and owners are the catalogue's.
LEMMA FolderIsFolder ==
    ASSUME IInv, Visible = Entries
    PROVE  /\ \A p : N!IsFolder(p) <=> FolderAt(p)
           /\ \A p : N!Tree(p) = TreeAt(p)
           /\ \A u, S : (S \subseteq Names /\ \A m \in Entries : m.filename \in S => m.owner = u)
                           => N!Owns(u, S)
           /\ DOMAIN VisibleEntries = Names
<1>1. IsMap(VisibleEntries, Entries) /\ Names = {m.filename : m \in Entries}
  BY VisibleIsMap, EntryFacts DEF IInv
<1>2. /\ DOMAIN VisibleEntries = Names
      /\ \A m \in Entries : /\ VisibleEntries[m.filename].owner = m.owner
                            /\ VisibleEntries[m.filename].is_directory = m.is_directory
  <2>1. /\ DOMAIN VisibleEntries = Names
        /\ \A m \in Entries : VisibleEntries[m.filename] = Attributes(m)
    BY <1>1 DEF IsMap
  <2>2. \A m : Attributes(m).owner = m.owner /\ Attributes(m).is_directory = m.is_directory
    BY DEF Attributes
  <2> QED BY <2>1, <2>2
<1>3. \A m1, m2 \in Entries : m1.filename = m2.filename => m1 = m2
  BY EntryFacts DEF IInv
<1>4. ASSUME NEW p PROVE N!IsFolder(p) <=> FolderAt(p)
  BY <1>1, <1>2, <1>3 DEF N!IsFolder, FolderAt
<1>5. ASSUME NEW p PROVE N!Tree(p) = TreeAt(p)
  BY <1>2, <1>4 DEF N!Tree, N!IsUnder, TreeAt, Under
<1>6. ASSUME NEW u, NEW S, S \subseteq Names,
             \A m \in Entries : m.filename \in S => m.owner = u
      PROVE  N!Owns(u, S)
  BY <1>1, <1>2, <1>6 DEF N!Owns
<1> QED BY <1>2, <1>4, <1>5, <1>6

\* CREATEFOLDER is the namespace's CreateFolder.
LEMMA CreateFolderIsCreateFolder ==
    ASSUME IInv, IInv', NEW c \in Clients, NEW n \in CreatesFolders[c], CreateFolder(c, n)
    PROVE  n \in Path \ DOMAIN VisibleEntries /\ N!CreateFolder(c, n)
<1> DEFINE m == [filename |-> n, owner |-> c, is_directory |-> TRUE]
<1>1. /\ n \in Path /\ m \in FileMetadata /\ m.filename = n /\ c \in Threads
      /\ Attributes(m) = [owner |-> c, is_directory |-> TRUE]
  BY CatalogAssumption DEF FileMetadata, Threads, Attributes
<1>2. n \notin Names
  BY LookupFinds DEF CreateFolder, IInv
<1> HIDE DEF m
<1>3. Entries' = Entries \cup {m}
  BY <1>1, <1>2, AddKeeps DEF CreateFolder, IInv, m
<1>4. Visible = Entries /\ Visible' = Visible \cup {m}
  BY <1>3, VisibleNow, VisibleNext DEF VisibleCases, CreateFolder
<1>5. n \notin DOMAIN VisibleEntries
  BY <1>2, <1>4, FolderIsFolder
<1>6. VisibleEntries' = [k \in DOMAIN VisibleEntries \cup {n} |->
                            IF k = n THEN Attributes(m) ELSE VisibleEntries[k]]
  <2>1. IsMap(VisibleEntries', Visible \cup {m}) /\ IsMap(VisibleEntries, Visible)
    BY <1>4, MapsNext, VisibleIsMap
  <2>2. IsMap([k \in DOMAIN VisibleEntries \cup {m.filename} |->
                 IF k = m.filename THEN Attributes(m) ELSE VisibleEntries[k]], Visible \cup {m})
    BY <1>1, <1>5, <2>1, MapWith
  <2> QED BY <1>1, <2>1, <2>2, MapUnique, SMTT(60)
<1>7. CreatesUnderWay' = CreatesUnderWay
  BY <1>1, SameCreates DEF CreateFolder, Goto, IInv
<1>8. SavedEntries' = SavedEntries /\ SaveUnderWay' = SaveUnderWay
  BY SameMaps DEF CreateFolder, SaveUnderWay
<1>9. Len(n) > 1 => N!IsFolder(SubSeq(n, 1, Len(n) - 1))
  <2>1. n \in Seq(Components)
    BY <1>1, CatalogAssumption
  <2>2. Len(n) > 1 => SubSeq(n, 1, Len(n) - 1) # <<>>
    <3> DEFINE q == SubSeq(n, 1, Len(n) - 1)
    <3>1. Len(n) > 1 => Len(q) = Len(n) - 1
      BY <2>1
    <3>2. Len(<<>>) = 0 /\ Len(n) \in Nat
      BY <2>1
    <3> HIDE DEF q
    <3>3. Len(n) > 1 => q # <<>>
      BY <3>1, <3>2
    <3> QED BY <3>3 DEF q
  <2>3. Len(n) > 1 => IsFolder(Parent(n))
    BY <2>2 DEF CreateFolder, Parent, Root
  <2> QED BY <2>3, <1>4, FolderIsFolder, FolderFacts DEF Parent, IInv
<1> QED BY <1>1, <1>5, <1>6, <1>7, <1>8, <1>9 DEF N!CreateFolder, N!With

\* A CREATE that ends leaves the others in progress.
LEMMA EndOfCreate ==
    ASSUME IInv, NEW c \in Clients, pc[c] = "create", NEW label, label # "create",
           pc' = [pc EXCEPT ![c] = label], arg' = [arg EXCEPT ![c] = Root]
    PROVE  /\ <<c, arg[c]>> \in CreatesUnderWay
           /\ CreatesUnderWay' = CreatesUnderWay \ {<<c, arg[c]>>}
<1>1. /\ pc'[c] # "create"
      /\ \A u \in Clients : u # c => pc'[u] = pc[u] /\ arg'[u] = arg[u]
  BY DEF IInv, ThreadType, Threads
<1> QED BY <1>1 DEF CreatesUnderWay

\* The storage server's success is the namespace's Confirm.
LEMMA DoneIsConfirm ==
    ASSUME IInv, IInv', NEW c \in Clients, CreateDone(c)
    PROVE  <<c, arg[c]>> \in CreatesUnderWay /\ N!Confirm(c, arg[c])
<1>1. Visible = Entries /\ Visible' = Entries' /\ Entries' = Entries
  BY VisibleNow, VisibleNext DEF VisibleCases, CreateDone, Entries
<1>2. /\ <<c, arg[c]>> \in CreatesUnderWay
      /\ CreatesUnderWay' = CreatesUnderWay \ {<<c, arg[c]>>}
  BY EndOfCreate DEF CreateDone, Goto
<1> QED BY <1>1, <1>2, SameMaps DEF N!Confirm, CreateDone, SaveUnderWay

\* Its failure is the namespace's Withdraw.
LEMMA RollbackIsWithdraw ==
    ASSUME IInv, IInv', NEW c \in Clients, CreateRollback(c)
    PROVE  <<c, arg[c]>> \in CreatesUnderWay /\ N!Withdraw(c, arg[c])
<1> DEFINE T == {arg[c]}
<1>1. Entries' = {m \in Entries : m.filename # arg[c]}
  BY RemoveKeeps DEF CreateRollback, IInv
<1>2. Visible' = {m \in Visible : m.filename \notin T}
  BY <1>1, VisibleNow, VisibleNext DEF VisibleCases, CreateRollback
<1> HIDE DEF T
<1>3. VisibleEntries' = [n \in DOMAIN VisibleEntries \ T |-> VisibleEntries[n]]
  <2>1. /\ IsMap(VisibleEntries', {m \in Visible : m.filename \notin T})
        /\ IsMap(VisibleEntries, Visible)
    BY <1>2, MapsNext, VisibleIsMap
  <2>2. IsMap([n \in DOMAIN VisibleEntries \ T |-> VisibleEntries[n]],
              {m \in Visible : m.filename \notin T})
    BY <2>1, MapWithout
  <2> QED BY <2>1, <2>2, MapUnique
<1>4. /\ <<c, arg[c]>> \in CreatesUnderWay
      /\ CreatesUnderWay' = CreatesUnderWay \ {<<c, arg[c]>>}
  BY EndOfCreate DEF CreateRollback, Goto
<1>5. SavedEntries' = SavedEntries /\ SaveUnderWay' = SaveUnderWay
  BY SameMaps DEF CreateRollback, SaveUnderWay
<1> QED BY <1>3, <1>4, <1>5 DEF N!Withdraw, N!Without, T

\* Making a plan changes nothing that is visible.
LEMMA BeginIsSilent ==
    ASSUME IInv, IInv', NEW c \in Clients, state_lock = NoThread, state_lock' = c,
           pc[c] = "idle", NEW label \in {"rename", "erase"}, pc' = [pc EXCEPT ![c] = label],
           UNCHANGED <<files, db>>, \A u \in Threads : u # c => arg'[u] = arg[u]
    PROVE  Silent
<1>1. c \in Threads /\ c # NoThread /\ pc'[c] = label
  BY CatalogAssumption DEF Threads, IInv, ThreadType
<1>2. Visible = Entries /\ Visible' = Entries' /\ Entries' = Entries
  BY <1>1, VisibleNow, VisibleNext DEF VisibleCases, Entries
<1>3. CreatesUnderWay' = CreatesUnderWay
  BY <1>1, SameCreates DEF IInv
<1>4. ~SaveUnderWay /\ ~SaveUnderWay'
  BY <1>1 DEF SaveUnderWay
<1> QED BY <1>2, <1>3, <1>4, SameMaps DEF Silent

\* Giving a plan up changes nothing that is visible.
LEMMA GiveUpIsSilent ==
    ASSUME IInv, IInv', NEW c \in Clients, pc[c] \in {"rename", "erase"}, GiveUp(c),
           UNCHANGED <<files, db>>
    PROVE  Silent
<1>1. c \in Threads /\ c # NoThread /\ state_lock = c
  BY CatalogAssumption DEF Threads, IInv, LockInv, Holding
<1>2. Visible = Entries /\ Visible' = Entries' /\ Entries' = Entries
  BY <1>1, VisibleNow, VisibleNext DEF VisibleCases, GiveUp, Entries
<1>3. \A u \in Threads : u # c => arg'[u] = arg[u]
  BY <1>1 DEF GiveUp, IInv, ThreadType
<1>4. CreatesUnderWay' = CreatesUnderWay
  BY <1>1, <1>3, SameCreates DEF IInv, GiveUp, Goto
<1>5. ~SaveUnderWay /\ ~SaveUnderWay'
  BY <1>1 DEF GiveUp, SaveUnderWay
<1> QED BY <1>2, <1>4, <1>5, SameMaps DEF Silent

\* The end of a plan that is carried out changes nothing that is visible.
LEMMA EndPlanIsSilent ==
    ASSUME IInv, IInv', NEW c \in Clients, EndPlan(c)
    PROVE  Silent
<1>1. c \in Threads /\ c # NoThread /\ state_lock = c
  BY CatalogAssumption DEF Threads, IInv, LockInv, Holding, EndPlan
<1>2. Visible = Entries
  <2>1. CASE pc[c] = "delete"
    BY <1>1, <2>1, VisibleNow DEF VisibleCases, EndPlan
  <2>2. CASE pc[c] = "move"
    BY <1>1, <2>2, VisibleNow DEF VisibleCases, EndPlan
  <2> QED BY <2>1, <2>2 DEF EndPlan
<1>3. Visible' = Entries' /\ Entries' = Entries
  BY VisibleNext DEF VisibleCases, EndPlan, Entries
<1>4. \A u \in Threads : u # c => arg'[u] = arg[u]
  BY <1>1 DEF EndPlan, IInv, ThreadType
<1>5. CreatesUnderWay' = CreatesUnderWay
  BY <1>1, <1>4, SameCreates DEF IInv, EndPlan, Goto
<1>6. ~SaveUnderWay /\ ~SaveUnderWay'
  BY <1>1 DEF EndPlan, SaveUnderWay
<1> QED BY <1>2, <1>3, <1>5, <1>6, SameMaps DEF Silent, EndPlan

\* Removing the planned entries one by one changes nothing that is visible:
\* they went when the storage server agreed.
LEMMA DeleteEntryIsSilent ==
    ASSUME IInv, IInv', NEW c \in Clients, NEW n \in plan[c], DeleteEntry(c, n)
    PROVE  Silent
<1>1. c \in Threads /\ c # NoThread /\ state_lock = c /\ pc[c] = "delete"
  BY CatalogAssumption DEF Threads, IInv, LockInv, Holding, DeleteEntry
<1>2. /\ state_lock' = c /\ pc'[c] = "delete" /\ plan'[c] = plan[c] \ {n}
      /\ UNCHANGED <<pc, arg, db>>
  BY <1>1 DEF DeleteEntry, IInv, ThreadType
<1>3. Entries' = {m \in Entries : m.filename # n}
  BY RemoveKeeps DEF DeleteEntry, IInv
<1>4. Visible = {m \in Entries : m.filename \notin plan[c]}
  BY <1>1, VisibleNow DEF VisibleCases
<1>5. Visible' = {m \in Entries' : m.filename \notin plan'[c]}
  BY <1>1, <1>2, VisibleNext DEF VisibleCases
<1>6. Visible' = Visible
  BY <1>2, <1>3, <1>4, <1>5
<1>7. CreatesUnderWay' = CreatesUnderWay
  BY <1>2 DEF CreatesUnderWay
<1>8. ~SaveUnderWay /\ ~SaveUnderWay'
  BY <1>1, <1>2 DEF SaveUnderWay
<1> QED BY <1>2, <1>6, <1>7, <1>8, SameMaps DEF Silent

\* Nor does renaming the planned entries one by one.
LEMMA MoveEntryIsSilent ==
    ASSUME IInv, IInv', NEW c \in Clients, NEW old \in plan[c], MoveEntry(c, old)
    PROVE  Silent
<1> DEFINE to(n) == Moved(arg[c], dest[c], n)
           f(m) == IF m.filename \in plan[c] THEN [m EXCEPT !.filename = to(m.filename)] ELSE m
           f2(m) == IF m.filename \in plan[c] \ {old}
                    THEN [m EXCEPT !.filename = to(m.filename)] ELSE m
           g(m) == IF m.filename = old THEN [m EXCEPT !.filename = to(old)] ELSE m
<1>1. c \in Threads /\ c # NoThread /\ state_lock = c /\ pc[c] = "move"
  BY CatalogAssumption DEF Threads, IInv, LockInv, Holding, MoveEntry
<1>2. /\ state_lock' = c /\ pc'[c] = "move" /\ plan'[c] = plan[c] \ {old}
      /\ UNCHANGED <<pc, arg, dest, db>>
  BY <1>1 DEF MoveEntry, IInv, ThreadType
<1>3. Entries' = {g(m) : m \in Entries} /\ to(old) \notin Names
  BY MoveEntryChanges
<1>4. Visible = {f(m) : m \in Entries}
  BY <1>1, VisibleNow DEF VisibleCases
<1>5. Visible' = {f2(m) : m \in Entries'}
  BY <1>1, <1>2, VisibleNext DEF VisibleCases
<1>6. to(old) \notin plan[c]
  BY <1>3 DEF IInv, PlanInv, PlanOf
<1>7. \A m \in Entries : f2(g(m)) = f(m)
  <2>1. \A m \in Entries : m \in FileMetadata
    BY EntryFacts DEF IInv
  <2> SUFFICES ASSUME NEW m \in Entries PROVE f2(g(m)) = f(m)
    OBVIOUS
  <2>2. CASE m.filename = old
    <3>1. g(m) = [m EXCEPT !.filename = to(old)] /\ f(m) = g(m)
      BY <2>2
    <3>2. g(m).filename = to(old)
      BY <2>1, <3>1 DEF FileMetadata
    <3> QED BY <3>1, <3>2, <1>6
  <2>3. CASE m.filename # old
    BY <2>3
  <2> QED BY <2>2, <2>3
<1> HIDE DEF f, f2, g
<1>8. Visible' = Visible
  BY <1>3, <1>4, <1>5, <1>7
<1>9. CreatesUnderWay' = CreatesUnderWay
  BY <1>2 DEF CreatesUnderWay
<1>10. ~SaveUnderWay /\ ~SaveUnderWay'
  BY <1>1, <1>2 DEF SaveUnderWay
<1> QED BY <1>2, <1>8, <1>9, <1>10, SameMaps DEF Silent

\* DELETE takes place when the last storage server agreed.
LEMMA DeleteIsDelete ==
    ASSUME IInv, IInv', NEW c \in Clients, pc[c] = "erase", pc' = [pc EXCEPT ![c] = "delete"],
           UNCHANGED <<files, state_lock, arg, plan, db>>
    PROVE  \E p \in DOMAIN VisibleEntries : N!Delete(c, p)
<1>1. c \in Threads /\ c # NoThread /\ state_lock = c /\ pc'[c] = "delete"
  BY CatalogAssumption DEF Threads, IInv, LockInv, Holding, ThreadType
<1>2. PlanOf(c)
  BY DEF IInv, PlanInv
<1>3. PICK p \in Names : plan[c] = TreeAt(p)
  BY <1>2 DEF PlanOf
<1>4. Visible = Entries
  BY <1>1, VisibleNow DEF VisibleCases
<1>5. /\ N!Tree(p) = plan[c] /\ N!Owns(c, plan[c]) /\ p \in DOMAIN VisibleEntries
  BY <1>2, <1>3, <1>4, FolderIsFolder DEF PlanOf
<1>6. Visible' = {m \in Visible : m.filename \notin plan[c]}
  BY <1>1, <1>4, VisibleNext DEF VisibleCases, Entries
<1>7. VisibleEntries' = [n \in DOMAIN VisibleEntries \ plan[c] |-> VisibleEntries[n]]
  <2>1. /\ IsMap(VisibleEntries', {m \in Visible : m.filename \notin plan[c]})
        /\ IsMap(VisibleEntries, Visible)
    BY <1>6, MapsNext, VisibleIsMap
  <2>2. IsMap([n \in DOMAIN VisibleEntries \ plan[c] |-> VisibleEntries[n]],
              {m \in Visible : m.filename \notin plan[c]})
    BY <2>1, MapWithout, SMTT(30)
  <2> QED BY <2>1, <2>2, MapUnique
<1>8. CreatesUnderWay' = CreatesUnderWay
  BY <1>1, SameCreates DEF IInv
<1>9. SavedEntries' = SavedEntries /\ SaveUnderWay' = SaveUnderWay
  BY <1>1, SameMaps DEF SaveUnderWay
<1>10. N!Delete(c, p)
  BY <1>5, <1>7, <1>8, <1>9 DEF N!Delete, N!Without
<1> QED BY <1>5, <1>10

\* The map after MOVE, as Namespace writes it, and the records it stands for.
MovedMap(f, T, src, dst) ==
    LET new == {Moved(src, dst, n) : n \in T}
    IN  [n \in (DOMAIN f \ T) \cup new |->
            IF n \in new THEN f[Moved(dst, src, n)] ELSE f[n]]

MovedEntries(S, T, src, dst) ==
    {IF m.filename \in T THEN [m EXCEPT !.filename = Moved(src, dst, m.filename)] ELSE m :
        m \in S}

\* The map in which the entries under src have moved to dst.
LEMMA MapMoved ==
    ASSUME NEW S, NEW f, IsMap(f, S), S \subseteq FileMetadata,
           NEW T, T \subseteq DOMAIN f, NEW src, NEW dst,
           \A n \in T : Moved(src, dst, n) \notin DOMAIN f
                          /\ Moved(dst, src, Moved(src, dst, n)) = n
    PROVE  IsMap(MovedMap(f, T, src, dst), MovedEntries(S, T, src, dst))
<1> DEFINE to(n) == Moved(src, dst, n)
           back(n) == Moved(dst, src, n)
           new == {to(n) : n \in T}
           g == [n \in (DOMAIN f \ T) \cup new |-> IF n \in new THEN f[back(n)] ELSE f[n]]
           go(m) == IF m.filename \in T THEN [m EXCEPT !.filename = to(m.filename)] ELSE m
<1>9. \A n \in T : to(n) \notin DOMAIN f /\ back(to(n)) = n
  OBVIOUS
<1> HIDE DEF to, back
<1>1. DOMAIN f = {m.filename : m \in S} /\ \A m \in S : f[m.filename] = Attributes(m)
  BY DEF IsMap
<1>2. \A m \in S : m.filename \in T =>
         go(m).filename = to(m.filename) /\ Attributes(go(m)) = Attributes(m)
  <2>1. \A m \in S : m.filename \in T => go(m) = [m EXCEPT !.filename = to(m.filename)]
    OBVIOUS
  <2>2. \A m \in S : m \in [filename : Path, owner : Clients \cup {Nobody}, is_directory : BOOLEAN]
    BY DEF FileMetadata
  <2> HIDE DEF go
  <2> QED BY <2>1, <2>2 DEF Attributes
<1>3. \A m \in S : m.filename \notin T => go(m) = m
  OBVIOUS
<1> HIDE DEF go
<1>4. \A m \in S : go(m).filename \in DOMAIN g /\ g[go(m).filename] = Attributes(go(m))
  <2> SUFFICES ASSUME NEW m \in S
               PROVE  go(m).filename \in DOMAIN g /\ g[go(m).filename] = Attributes(go(m))
    OBVIOUS
  <2>1. CASE m.filename \in T
    <3>1. to(m.filename) \in new /\ back(to(m.filename)) = m.filename
      BY <2>1, <1>9
    <3> QED BY <2>1, <3>1, <1>1, <1>2
  <2>2. CASE m.filename \notin T
    <3>1. m.filename \in DOMAIN f /\ m.filename \notin new
      BY <1>1, <1>9
    <3> QED BY <2>2, <3>1, <1>1, <1>3
  <2> QED BY <2>1, <2>2
<1>5. \A n \in DOMAIN g : \E m \in S : go(m).filename = n
  <2> SUFFICES ASSUME NEW n \in (DOMAIN f \ T) \cup new
               PROVE  \E m \in S : go(m).filename = n
    OBVIOUS
  <2>1. CASE n \in new
    <3>1. PICK k \in T : n = to(k)
      BY <2>1
    <3>2. PICK m \in S : m.filename = k
      BY <3>1, <1>1
    <3> QED BY <3>1, <3>2, <1>2
  <2>2. CASE n \in DOMAIN f \ T
    BY <2>2, <1>1, <1>3
  <2> QED BY <2>1, <2>2
<1>6. g = [n \in DOMAIN g |-> g[n]]
  OBVIOUS
<1> HIDE DEF g
<1>7. DOMAIN g = {x.filename : x \in {go(m) : m \in S}}
  BY <1>4, <1>5, ZenonT(60)
<1>8. IsMap(g, {go(m) : m \in S})
  BY <1>4, <1>6, <1>7 DEF IsMap
<1> QED BY <1>8 DEF g, go, to, back, MovedMap, MovedEntries

\* MOVE takes place when the last storage server agreed.
LEMMA RenameIsMove ==
    ASSUME IInv, IInv', NEW c \in Clients, pc[c] = "rename", pc' = [pc EXCEPT ![c] = "move"],
           UNCHANGED <<files, state_lock, arg, dest, plan, db>>
    PROVE  \E src \in DOMAIN VisibleEntries, dst \in Path : N!Move(c, src, dst)
<1> DEFINE src == arg[c]
           dst == dest[c]
           to(n) == Moved(src, dst, n)
           back(m) == Moved(dst, src, m)
           T == plan[c]
<1>1. c \in Threads /\ c # NoThread /\ state_lock = c /\ pc'[c] = "move"
  BY CatalogAssumption DEF Threads, IInv, LockInv, Holding, ThreadType
<1>2. PlanOf(c)
  BY DEF IInv, PlanInv
<1>3. /\ T \subseteq Names /\ T = TreeAt(src) /\ src \in Names
      /\ src \in Path /\ dst \in Path
      /\ Len(dst) > 1 => FolderAt(SubSeq(dst, 1, Len(dst) - 1))
      /\ ~(FolderAt(src) /\ Under(src, dst))
      /\ \A n \in T : Under(src, n) /\ to(n) \in Path /\ to(n) \notin Names
      /\ \A m \in Entries : m.filename \in T => m.owner = c
  BY <1>2 DEF PlanOf, Parent
<1>4. \A n \in T : back(to(n)) = n
  <2>1. src \in Seq(Components) /\ dst \in Seq(Components)
    BY <1>3, CatalogAssumption
  <2>2. \A n \in T : n \in Seq(Components)
    BY <1>3, CatalogAssumption DEF IInv, ArrayInv, ArrayType, IndexExact
  <2> QED BY <1>3, <2>1, <2>2, MovedBack DEF Moved
<1>5. Visible = Entries
  BY <1>1, VisibleNow DEF VisibleCases
<1>6. /\ DOMAIN VisibleEntries = Names
      /\ N!Tree(src) = T /\ N!Owns(c, T)
      /\ Len(dst) > 1 => N!IsFolder(SubSeq(dst, 1, Len(dst) - 1))
      /\ ~(N!IsFolder(src) /\ N!IsUnder(src, dst))
  BY <1>3, <1>5, FolderIsFolder DEF N!IsUnder, Under
<1> HIDE DEF to, back, T, src, dst
<1>7. Visible' = MovedEntries(Entries, T, src, dst)
  BY <1>1, VisibleNext DEF VisibleCases, Entries, MovedEntries, T, src, dst
<1>8. VisibleEntries' = MovedMap(VisibleEntries, T, src, dst)
  <2>1. IsMap(VisibleEntries, Entries) /\ IsMap(VisibleEntries', Visible')
    BY <1>5, MapsNext, VisibleIsMap
  <2>2. Entries \subseteq FileMetadata
    BY EntryFacts DEF IInv
  <2>3. T \subseteq DOMAIN VisibleEntries
    BY <1>3, <1>6
  <2>4. \A n \in T : /\ Moved(src, dst, n) \notin DOMAIN VisibleEntries
                     /\ Moved(dst, src, Moved(src, dst, n)) = n
    BY <1>3, <1>4, <1>6 DEF to, back
  <2>5. IsMap(MovedMap(VisibleEntries, T, src, dst), MovedEntries(Entries, T, src, dst))
    BY <2>1, <2>2, <2>3, <2>4, MapMoved
  <2> QED BY <1>7, <2>1, <2>5, MapUnique
<1>9. CreatesUnderWay' = CreatesUnderWay
  BY <1>1, SameCreates DEF IInv
<1>10. SavedEntries' = SavedEntries /\ SaveUnderWay' = SaveUnderWay
  BY <1>1, SameMaps DEF SaveUnderWay
<1>11. {to(n) : n \in T} \subseteq Path \ DOMAIN VisibleEntries
  BY <1>3, <1>6
<1>12. N!Move(c, src, dst)
  BY <1>6, <1>8, <1>9, <1>10, <1>11 DEF N!Move, MovedMap, Moved, to, back
<1> QED BY <1>3, <1>6, <1>12

\* A report of a file is the namespace's Report.
LEMMA ReportIsReport ==
    ASSUME IInv, IInv', NEW f \in SsFiles, HasFile(f)
    PROVE  N!Report(f.owner, f.filename)
<1> DEFINE n == f.filename
           after == [k \in DOMAIN VisibleEntries \cup {n} |->
                       IF k = n THEN [owner |-> f.owner,
                                      is_directory |-> n \in DOMAIN VisibleEntries
                                                          /\ VisibleEntries[n].is_directory]
                       ELSE VisibleEntries[k]]
<1>1. f.filename \in Path /\ f.owner \in Clients
  BY CatalogAssumption
<1>2. state_lock = NoThread /\ state_lock' = NoThread /\ UNCHANGED <<pc, arg, db>>
  BY DEF HasFile, thread
<1>3. Visible = Entries /\ Visible' = Entries'
  BY <1>2, VisibleNow, VisibleNext DEF VisibleCases
<1>4. /\ IsMap(VisibleEntries, Entries) /\ IsMap(VisibleEntries', Entries')
      /\ DOMAIN VisibleEntries = Names
  BY <1>3, MapsNext, VisibleIsMap, FolderIsFolder
<1>5. ASSUME n \in Names PROVE VisibleEntries' = after
  <2>1. PICK i \in file_index_find(n) :
             /\ files' = [files EXCEPT ![i].owner = f.owner]
             /\ file_cache' \in file_cache_store(file_cache, Found({n}))
             /\ UNCHANGED file_index
    BY <1>5, LookupFinds DEF HasFile, IInv
  <2>2. i \in Positions /\ files[i].filename = n
    BY <1>5, <2>1, LookupFinds DEF IInv
  <2> DEFINE g(m) == IF m.filename = files[i].filename
                     THEN [m EXCEPT !.owner = f.owner] ELSE m
  <2>3. Entries' = {g(m) : m \in Entries}
    BY <1>1, <2>1, <2>2, OwnerKeeps DEF IInv
  <2>4. \A m \in Entries :
           /\ g(m).filename = m.filename
           /\ m.filename = n => Attributes(g(m)) = [owner |-> f.owner,
                                                    is_directory |-> m.is_directory]
           /\ m.filename # n => g(m) = m
    BY <2>2, EntryFacts DEF IInv, FileMetadata, Attributes
  <2> HIDE DEF g
  <2>5. /\ \A m \in Entries : /\ VisibleEntries'[m.filename] = Attributes(g(m))
                              /\ VisibleEntries[m.filename] = Attributes(m)
        /\ DOMAIN VisibleEntries' = Names /\ Names = {m.filename : m \in Entries}
        /\ VisibleEntries' = [k \in DOMAIN VisibleEntries' |-> VisibleEntries'[k]]
    BY <1>4, <2>3, <2>4 DEF IsMap
  <2>6. \A m : Attributes(m).is_directory = m.is_directory
    BY DEF Attributes
  <2>7. ASSUME NEW k \in Names PROVE VisibleEntries'[k] = after[k]
    <3>1. PICK m \in Entries : m.filename = k
      BY <2>5
    <3>2. CASE k = n
      <4>1. VisibleEntries'[k] = [owner |-> f.owner, is_directory |-> m.is_directory]
        BY <3>1, <3>2, <2>4, <2>5
      <4>2. VisibleEntries[n].is_directory = m.is_directory /\ m.is_directory \in BOOLEAN
        BY <3>1, <3>2, <2>5, <2>6, EntryFacts DEF IInv, FileMetadata
      <4>3. (n \in DOMAIN VisibleEntries /\ VisibleEntries[n].is_directory) = m.is_directory
        BY <4>2, <1>4, <1>5
      <4>4. after[k] = [owner |-> f.owner, is_directory |-> m.is_directory]
        BY <3>2, <4>3
      <4> QED BY <4>1, <4>4
    <3>3. CASE k # n
      BY <3>1, <3>3, <1>4, <2>4, <2>5
    <3> QED BY <3>2, <3>3
  <2>8. DOMAIN after = Names /\ after = [k \in DOMAIN after |-> after[k]]
    BY <1>4, <1>5
  <2> HIDE DEF after
  <2> QED BY <2>5, <2>7, <2>8
<1>6. ASSUME n \notin Names PROVE VisibleEntries' = after
  <2> DEFINE m == [filename |-> n, owner |-> f.owner, is_directory |-> FALSE]
  <2>1. /\ m \in FileMetadata /\ m.filename = n
        /\ Attributes(m) = [owner |-> f.owner, is_directory |-> FALSE]
    BY <1>1 DEF FileMetadata, Attributes
  <2>2. Room /\ AddEntry(m)
    BY <1>6, LookupFinds DEF HasFile, IInv
  <2> HIDE DEF m
  <2>3. Entries' = Entries \cup {m}
    BY <1>6, <2>1, <2>2, AddKeeps DEF IInv
  <2>4. IsMap([k \in DOMAIN VisibleEntries \cup {m.filename} |->
                 IF k = m.filename THEN Attributes(m) ELSE VisibleEntries[k]], Entries \cup {m})
    BY <1>4, <1>6, <2>1, MapWith
  <2>5. VisibleEntries' = [k \in DOMAIN VisibleEntries \cup {n} |->
                 IF k = n THEN Attributes(m) ELSE VisibleEntries[k]]
    BY <1>4, <2>1, <2>3, <2>4, MapUnique
  <2>6. (n \in DOMAIN VisibleEntries /\ VisibleEntries[n].is_directory) = FALSE
    BY <1>4, <1>6
  <2> QED BY <2>1, <2>5, <2>6
<1>7. VisibleEntries' = after
  BY <1>5, <1>6
<1>8. /\ CreatesUnderWay' = CreatesUnderWay
      /\ SavedEntries' = SavedEntries /\ SaveUnderWay' = SaveUnderWay
  BY <1>2, SameMaps DEF CreatesUnderWay, SaveUnderWay
<1> QED BY <1>7, <1>8 DEF N!Report, N!With

\* ns_save_metadata, from emptying the file on, is the namespace's BeginSave.
LEMMA SaveIsBeginSave ==
    ASSUME IInv, IInv', NEW t \in Threads, ns_save_metadata(t)
    PROVE  N!BeginSave
<1>1. /\ state_lock = NoThread /\ state_lock' = t /\ t # NoThread
      /\ pc[t] = "save" /\ pc' = [pc EXCEPT ![t] = "saving"] /\ pc'[t] = "saving"
      /\ UNCHANGED <<files, arg>>
  BY CatalogAssumption DEF ns_save_metadata, Goto, IInv, ThreadType
<1>2. ~SaveUnderWay /\ SaveUnderWay' = TRUE
  BY <1>1 DEF SaveUnderWay
<1>3. Visible = Entries /\ Visible' = Entries' /\ Entries' = Entries
  BY <1>1, VisibleNow, VisibleNext DEF VisibleCases, Entries
<1>4. SavedEntries' = [n \in {} |-> 0]
  <2>1. Kept' = {}
    BY <1>2 DEF Kept
  <2>2. IsMap(SavedEntries', {})
    BY <2>1, MapsNext
  <2> QED BY <2>2 DEF IsMap
<1>5. CreatesUnderWay' = CreatesUnderWay
  BY <1>1, SameCreates DEF IInv
<1> QED BY <1>2, <1>3, <1>4, <1>5, SameMaps DEF N!BeginSave

\* Writing the entries is not a step of the namespace.
LEMMA SaveEntriesIsSilent ==
    ASSUME IInv, IInv', NEW t \in Threads, SaveEntries(t)
    PROVE  Silent
<1>1. /\ state_lock = t /\ t # NoThread /\ pc[t] = "saving"
      /\ UNCHANGED <<files, state_lock, pc, arg>>
  BY CatalogAssumption DEF SaveEntries, thread, IInv, LockInv
<1>2. SaveUnderWay = TRUE /\ SaveUnderWay' = TRUE
  BY <1>1 DEF SaveUnderWay
<1>3. Visible = Entries /\ Visible' = Entries' /\ Entries' = Entries
  BY <1>1, VisibleNow, VisibleNext DEF VisibleCases, Entries
<1>4. SavedEntries' = SavedEntries
  BY <1>2, SavedIsMap, MapsNext, MapUnique DEF Kept
<1>5. CreatesUnderWay' = CreatesUnderWay
  BY <1>1 DEF CreatesUnderWay
<1> QED BY <1>2, <1>3, <1>4, <1>5, SameMaps DEF Silent

\* Its end is the namespace's EndSave.
LEMMA SaveEndIsEndSave ==
    ASSUME IInv, IInv', NEW t \in Threads, SaveEnd(t)
    PROVE  N!EndSave
<1>1. /\ state_lock = t /\ t # NoThread /\ pc[t] = "saving" /\ state_lock' = NoThread
      /\ pc' = [pc EXCEPT ![t] = "idle"] /\ Len(db) = Len(files)
      /\ UNCHANGED <<files, arg, db>>
  BY CatalogAssumption DEF SaveEnd, Goto, IInv, LockInv
<1>2. SaveUnderWay /\ SaveUnderWay' = FALSE
  BY <1>1 DEF SaveUnderWay
<1>3. Visible = Entries /\ Visible' = Entries' /\ Entries' = Entries
  BY <1>1, VisibleNow, VisibleNext DEF VisibleCases, Entries
<1>4. SavedEntries' = VisibleEntries
  <2>1. Range(db) = Entries
    BY <1>1, AllSaved
  <2>2. Kept' = Entries
    BY <1>1, <1>2, <2>1 DEF Kept, Range
  <2> QED BY <1>3, <2>2, VisibleIsMap, MapsNext, MapUnique
<1>5. CreatesUnderWay' = CreatesUnderWay
  BY <1>1, SameCreates DEF IInv
<1> QED BY <1>2, <1>3, <1>4, <1>5, SameMaps DEF N!EndSave

\* What a restart loads, and that all threads begin anew.
LEMMA RestartLoads ==
    ASSUME IInv, IInv', ns_load_metadata
    PROVE  \/ Silent
           \/ \E loaded \in Loadable :
                 /\ loaded \in Seq(FileMetadata) /\ db' = loaded
                 /\ Visible' = Range(loaded) /\ CreatesUnderWay' = {}
                 /\ ~SaveUnderWay' /\ Kept' = Range(loaded)
<1>1. PICK loaded \in Loadable :
        \/ /\ files' = loaded /\ db' = loaded /\ state_lock' = NoThread
           /\ pc' = [t \in Threads |-> "idle"]
        \/ UNCHANGED <<files, file_index, file_cache, state_lock, thread, db>>
  BY DEF ns_load_metadata
<1>2. CASE /\ files' = loaded /\ db' = loaded /\ state_lock' = NoThread
           /\ pc' = [t \in Threads |-> "idle"]
  <2>1. loaded \in Seq(FileMetadata)
    BY LoadableType DEF IInv, ArrayInv
  <2>2. Visible' = Entries' /\ Entries' = Range(loaded)
    BY <1>2, VisibleNext DEF VisibleCases, Entries, Range
  <2>3. CreatesUnderWay' = {}
    BY <1>2 DEF CreatesUnderWay, Threads
  <2>4. ~SaveUnderWay'
    BY <1>2 DEF SaveUnderWay
  <2>5. Kept' = Range(loaded)
    BY <1>2, <2>4 DEF Kept, Range
  <2> QED BY <1>2, <2>1, <2>2, <2>3, <2>4, <2>5
<1>3. CASE UNCHANGED <<files, file_index, file_cache, state_lock, thread, db>>
  BY <1>3, StutterIsSilent
<1> QED BY <1>1, <1>2, <1>3

\* Between saves a restart is the namespace's Restart.
LEMMA RestartIsRestart ==
    ASSUME IInv, IInv', ns_load_metadata, ~SaveUnderWay
    PROVE  Silent \/ N!Restart
<1> SUFFICES ASSUME ~Silent PROVE N!Restart
  OBVIOUS
<1>1. /\ Visible' = Range(db) /\ CreatesUnderWay' = {} /\ db' = db
      /\ ~SaveUnderWay' /\ Kept' = Range(db)
  BY RestartLoads DEF Loadable
<1>2. Kept = Range(db)
  BY DEF Kept
<1>3. VisibleEntries' = SavedEntries
  BY <1>1, <1>2, SavedIsMap, MapsNext, MapUnique
<1> QED BY <1>1, <1>3, SameMaps DEF N!Restart

\* A part of a map's records is a part of the map.
LEMMA MapPart ==
    ASSUME NEW S, NEW f, IsMap(f, S), NEW R \in SUBSET S
    PROVE  LET T == {m.filename : m \in R}
           IN  T \subseteq DOMAIN f /\ IsMap([n \in T |-> f[n]], R)
BY DEF IsMap

\* During a save it is the namespace's CutSave.
LEMMA RestartIsCutSave ==
    ASSUME IInv, IInv', ns_load_metadata, SaveUnderWay
    PROVE  Silent \/ N!CutSave
<1> SUFFICES ASSUME ~Silent PROVE N!CutSave
  OBVIOUS
<1>1. PICK loaded \in Loadable :
         /\ loaded \in Seq(FileMetadata) /\ db' = loaded
         /\ Visible' = Range(loaded) /\ CreatesUnderWay' = {}
         /\ ~SaveUnderWay' /\ Kept' = Range(loaded)
  BY RestartLoads
<1>2. Visible = Entries
  BY VisibleNow DEF VisibleCases, SaveUnderWay
<1>3. SavedEntries' = VisibleEntries'
  BY <1>1, MapsNext, MapUnique
<1> DEFINE S == {m.filename : m \in Range(db)}
           kept == [n \in S |-> VisibleEntries[n]]
<1>4. db \in Seq(FileMetadata) /\ Range(db) \subseteq Entries
  <2>1. PICK t \in Threads : pc[t] = "saving"
    BY DEF SaveUnderWay, IInv, ThreadType
  <2>2. /\ db \in Seq(FileMetadata) /\ files \in Seq(FileMetadata)
        /\ Len(db) <= Len(files) /\ \A i \in 1..Len(db) : db[i] = files[i]
    BY <2>1 DEF IInv, DbInv, ArrayInv, ArrayType, SavingInv
  <2> QED BY <2>2 DEF Range, Entries
<1>5. S \subseteq DOMAIN VisibleEntries /\ IsMap(kept, Range(db))
  BY <1>2, <1>4, VisibleIsMap, MapPart
<1>6. DOMAIN kept = S
  OBVIOUS
<1> HIDE DEF S, kept
<1>7. CASE loaded = db
  <2>1. VisibleEntries' = kept
    BY <1>1, <1>5, <1>7, MapsNext, MapUnique
  <2> QED BY <1>1, <1>3, <1>5, <2>1 DEF N!CutSave, kept, SaveUnderWay
<1>8. CASE loaded # db
  <2>1. PICK e \in CutEntries :
           loaded = Append(db, [filename |-> e.filename, owner |-> e.owner,
                                is_directory |-> FALSE])
    BY <1>8 DEF Loadable
  <2> DEFINE m == [filename |-> e.filename, owner |-> e.owner, is_directory |-> FALSE]
  <2>2. /\ e.filename \in Path /\ e.owner \in Clients \cup {Nobody}
        /\ m \in FileMetadata /\ m.filename = e.filename
        /\ Attributes(m) = [owner |-> e.owner, is_directory |-> FALSE]
    BY CatalogAssumption DEF FileMetadata, Attributes
  <2>3. loaded = Append(db, m)
    BY <2>1
  <2> HIDE DEF m
  <2>4. Range(loaded) = Range(db) \cup {m}
    BY <1>4, <2>2, <2>3 DEF Range
  <2>5. m.filename \notin S
    <3>1. \A i, j \in 1..Len(loaded) : loaded[i].filename = loaded[j].filename => i = j
      BY <1>1 DEF IInv, DbInv
    <3>2. /\ Len(db) \in Nat /\ Len(loaded) = Len(db) + 1 /\ loaded[Len(db) + 1] = m
          /\ \A i \in 1..Len(db) : loaded[i] = db[i]
      BY <1>4, <2>2, <2>3
    <3>3. \A i \in 1..Len(db) : db[i].filename # m.filename
      BY <3>1, <3>2
    <3> QED BY <1>4, <3>3 DEF S, Range
  <2>6. VisibleEntries' = [n \in S \cup {m.filename} |->
                             IF n = m.filename THEN Attributes(m) ELSE kept[n]]
    <3>1. IsMap([n \in DOMAIN kept \cup {m.filename} |->
                   IF n = m.filename THEN Attributes(m) ELSE kept[n]], Range(db) \cup {m})
      BY <1>5, <1>6, <2>5, MapWith
    <3>2. IsMap(VisibleEntries', Range(db) \cup {m})
      BY <1>1, <2>4, MapsNext
    <3> QED BY <1>6, <3>1, <3>2, MapUnique
  <2> DEFINE q == e.filename
             u == e.owner
  <2>7. /\ S \in SUBSET DOMAIN VisibleEntries /\ q \in Path \ S /\ u \in Clients \cup {Nobody}
        /\ VisibleEntries' = [n \in S \cup {q} |->
              IF n = q THEN [owner |-> u, is_directory |-> FALSE] ELSE kept[n]]
    BY <1>5, <2>2, <2>5, <2>6
  <2>8. SaveUnderWay /\ SaveUnderWay' = FALSE
    BY <1>1 DEF SaveUnderWay
  <2> HIDE DEF q, u
  <2> QED BY <1>1, <1>3, <2>7, <2>8 DEF N!CutSave, kept
<1> QED BY <1>7, <1>8

\* The initial state is an initial state of the namespace.
LEMMA RefinesInit == Init => N!Init
<1> SUFFICES ASSUME Init PROVE N!Init
  OBVIOUS
<1>1. IInv
  BY IInvInit
<1>2. Range(files) = {} /\ Range(db) = {}
  BY DEF Init, Range
<1>3. Visible = {}
  BY <1>1, <1>2, VisibleNow DEF VisibleCases, Init, Entries
<1>6. ~SaveUnderWay /\ Kept = {} /\ SaveUnderWay = FALSE
  BY <1>2 DEF Init, SaveUnderWay, Kept
<1>4. /\ VisibleEntries = [n \in DOMAIN VisibleEntries |-> VisibleEntries[n]]
      /\ SavedEntries = [n \in DOMAIN SavedEntries |-> SavedEntries[n]]
      /\ DOMAIN VisibleEntries = {} /\ DOMAIN SavedEntries = {}
  BY <1>1, <1>2, <1>3, <1>6, VisibleIsMap, SavedIsMap DEF IsMap
<1>5. CreatesUnderWay = {}
  BY DEF Init, CreatesUnderWay, Threads
<1> QED BY <1>4, <1>5, <1>6 DEF N!Init

\* Every step of the name server is a step of the namespace, or none.
LEMMA RefinesStep == IInv /\ IInv' /\ [Next]_vars => [N!Next]_(N!vars)
<1> SUFFICES ASSUME IInv, IInv', [Next]_vars PROVE N!Next \/ UNCHANGED N!vars
  OBVIOUS
<1>1. ASSUME Silent PROVE UNCHANGED N!vars
  BY <1>1 DEF Silent, N!vars
<1>2. ASSUME NEW c \in Clients, NEW n \in Creates[c], CreateBegin(c, n) PROVE N!Next
  BY <1>2, CreateIsCreate DEF N!Next
<1>3. ASSUME NEW c \in Clients, NEW n \in CreatesFolders[c], CreateFolder(c, n) PROVE N!Next
  BY <1>3, CreateFolderIsCreateFolder DEF N!Next
<1>4. ASSUME NEW c \in Clients, NEW n \in Path, DeleteBegin(c, n) PROVE UNCHANGED N!vars
  BY <1>1, <1>4, BeginIsSilent DEF DeleteBegin, Goto
<1>5. ASSUME NEW c \in Clients, NEW n \in Path, NEW folder \in Path \cup {Root},
             MoveBegin(c, n, folder)
      PROVE  UNCHANGED N!vars
  <2>1. \A u \in Threads : u # c => arg'[u] = arg[u]
    BY <1>5 DEF MoveBegin, IInv, ThreadType
  <2> QED BY <1>1, <1>5, <2>1, BeginIsSilent DEF MoveBegin, Goto
<1>6. ASSUME NEW c \in Clients, CreateDone(c) \/ CreateRollback(c) PROVE N!Next
  <2> DEFINE x == <<c, arg[c]>>
  <2>1. x \in CreatesUnderWay /\ (N!Confirm(x[1], x[2]) \/ N!Withdraw(x[1], x[2]))
    BY <1>6, DoneIsConfirm, RollbackIsWithdraw
  <2> QED BY <2>1 DEF N!Next
<1>7. ASSUME NEW c \in Clients, NEW n \in plan[c], MoveEntry(c, n) \/ DeleteEntry(c, n)
      PROVE  UNCHANGED N!vars
  BY <1>1, <1>7, MoveEntryIsSilent, DeleteEntryIsSilent
<1>8. ASSUME NEW c \in Clients, RenameAtStorage(c) PROVE N!Next \/ UNCHANGED N!vars
  <2>1. CASE Goto(c, "move") /\ UNCHANGED <<state_lock, arg, dest, plan>>
    BY <1>8, <2>1, RenameIsMove DEF RenameAtStorage, Goto, N!Next
  <2>2. CASE GiveUp(c)
    BY <1>1, <1>8, <2>2, GiveUpIsSilent DEF RenameAtStorage
  <2> QED BY <1>8, <2>1, <2>2 DEF RenameAtStorage
<1>9. ASSUME NEW c \in Clients, DeleteAtStorage(c) PROVE N!Next \/ UNCHANGED N!vars
  <2>1. CASE Goto(c, "delete") /\ UNCHANGED <<state_lock, arg, dest, plan>>
    BY <1>9, <2>1, DeleteIsDelete DEF DeleteAtStorage, Goto, N!Next
  <2>2. CASE GiveUp(c)
    BY <1>1, <1>9, <2>2, GiveUpIsSilent DEF DeleteAtStorage
  <2> QED BY <1>9, <2>1, <2>2 DEF DeleteAtStorage
<1>10. ASSUME NEW c \in Clients, EndPlan(c) PROVE UNCHANGED N!vars
  BY <1>1, <1>10, EndPlanIsSilent
<1>11. ASSUME NEW c \in Clients, ClientStep(c) PROVE N!Next \/ UNCHANGED N!vars
  BY <1>2, <1>3, <1>4, <1>5, <1>6, <1>7, <1>8, <1>9, <1>10, <1>11 DEF ClientStep
<1>12. ASSUME NEW t \in Threads, NEW n \in Path, Lookup(t, n) PROVE UNCHANGED N!vars
  BY <1>1, <1>12, LookupIsSilent
<1>13. ASSUME NEW f \in SsFiles, HasFile(f) PROVE N!Next
  <2>1. f.filename \in Path /\ f.owner \in Clients
    BY CatalogAssumption
  <2> QED BY <1>13, <2>1, ReportIsReport DEF N!Next
<1>14. ASSUME NEW t \in Threads, ns_save_metadata(t) \/ SaveEntries(t) \/ SaveEnd(t)
       PROVE  N!Next \/ UNCHANGED N!vars
  BY <1>1, <1>14, SaveIsBeginSave, SaveEntriesIsSilent, SaveEndIsEndSave DEF N!Next
<1>15. ASSUME ns_load_metadata PROVE N!Next \/ UNCHANGED N!vars
  <2>1. CASE SaveUnderWay
    BY <1>1, <1>15, <2>1, RestartIsCutSave DEF N!Next
  <2>2. CASE ~SaveUnderWay
    BY <1>1, <1>15, <2>2, RestartIsRestart DEF N!Next
  <2> QED BY <2>1, <2>2
<1>16. ASSUME UNCHANGED vars PROVE UNCHANGED N!vars
  BY <1>1, <1>16, StutterIsSilent DEF vars
<1>17. ASSUME Command PROVE N!Next \/ UNCHANGED N!vars
  BY <1>11, <1>12, <1>13, <1>14, <1>17 DEF Command
<1> QED BY <1>15, <1>16, <1>17 DEF Next

\* Array, index, cache and multi-step plans implement one map on which every
\* command takes effect at one instant, for any number of clients, any paths and
\* any cache size; a restart takes it to what was saved or, during a save, to some
\* of the entries and at most one that is none of them.
THEOREM CatalogImplementsNamespace == Spec => ImplementsNamespace
BY RefinesInit, RefinesStep, CatalogInvariant, PTL DEF Spec, ImplementsNamespace, N!Spec

=============================================================================
