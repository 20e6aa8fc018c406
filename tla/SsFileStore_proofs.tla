------------------------- MODULE SsFileStore_proofs -------------------------
EXTENDS SsFileStore_inv, SequenceTheorems, TLAPS

-----------------------------------------------------------------------------
(* Paths *)

\* A suffix makes a path of its own.
LEMMA Suffixed ==
    ASSUME NEW p \in Seq(Token), NEW x \in Token
    PROVE  LET s == Append(p, x)
           IN  /\ s \in Seq(Token) /\ s # <<>> /\ Len(s) = Len(p) + 1 /\ s[Len(s)] = x
               /\ \A y : y \in Range(s) <=> y \in Range(p) \/ y = x
               /\ \A q \in Seq(Token), z \in Token : s = Append(q, z) => p = q
               /\ SubSeq(s, 1, Len(s) - 1) = p
<1> DEFINE s == Append(p, x)
<1>1. /\ s \in Seq(Token) /\ s # <<>> /\ Len(s) = Len(p) + 1 /\ s[Len(s)] = x
      /\ DOMAIN s = 1..(Len(p) + 1) /\ Len(p) \in Nat /\ DOMAIN p = 1..Len(p)
      /\ \A i \in 1..Len(p) : s[i] = p[i]
  <2>1. /\ s \in Seq(Token) /\ s # <<>> /\ Len(s) = Len(p) + 1 /\ s[Len(s)] = x
        /\ \A i \in 1..Len(p) : s[i] = p[i]
    <3>1. \A i \in 1..Len(p) : Append(p, x)[i] = p[i]
      BY AppendProperties
    <3>2. /\ Append(p, x) \in Seq(Token) /\ Append(p, x) # <<>>
          /\ Len(Append(p, x)) = Len(p) + 1 /\ Append(p, x)[Len(p) + 1] = x
      BY AppendProperties
    <3> QED BY <3>1, <3>2
  <2> HIDE DEF s
  <2> QED BY <2>1
<1>2. ASSUME NEW y PROVE y \in Range(s) <=> y \in Range(p) \/ y = x
  <2>1. ASSUME y \in Range(s) PROVE y \in Range(p) \/ y = x
    <3>1. PICK i \in DOMAIN s : s[i] = y
      BY <2>1 DEF Range
    <3>2. i \in 1..Len(p) \/ i = Len(p) + 1
      BY <1>1, <3>1
    <3> QED BY <1>1, <3>1, <3>2 DEF Range
  <2>2. ASSUME y \in Range(p) PROVE y \in Range(s)
    <3>1. PICK i \in DOMAIN p : p[i] = y
      BY <2>2 DEF Range
    <3>2. i \in DOMAIN s /\ s[i] = y
      BY <1>1, <3>1
    <3> QED BY <3>2 DEF Range
  <2>3. ASSUME y = x PROVE y \in Range(s)
    <3>1. Len(s) \in DOMAIN s
      BY <1>1
    <3> QED BY <1>1, <2>3, <3>1 DEF Range
  <2> QED BY <2>1, <2>2, <2>3
<1>3. \A q \in Seq(Token), z \in Token : s = Append(q, z) => p = q
  <2>1. ASSUME NEW q \in Seq(Token), NEW z \in Token, s = Append(q, z) PROVE p = q
    BY <2>1, AppendInjective
  <2> QED BY <2>1
<1>4. SubSeq(s, 1, Len(s) - 1) = p
  BY <1>1
<1> QED BY <1>1, <1>2, <1>3, <1>4

\* Flat paths are those that flatten_logical_path leaves alone.
LEMMA Flattened ==
    ASSUME NEW n \in Seq(Token)
    PROVE  /\ flatten_logical_path(n) \in Seq(Token)
           /\ n # <<>> => flatten_logical_path(n) \in FlatPath
           /\ n \in FlatPath => flatten_logical_path(n) = n
           /\ \A y : y \in Range(flatten_logical_path(n)) => y = "_" \/ y \in Range(n)
<1> DEFINE p == flatten_logical_path(n)
<1>1. /\ p \in Seq(Token) /\ Len(p) = Len(n) /\ DOMAIN p = DOMAIN n /\ DOMAIN n = 1..Len(n)
      /\ \A i \in DOMAIN n : p[i] = IF n[i] = "/" THEN "_" ELSE n[i]
  <2> DEFINE e(i) == IF n[i] = "/" THEN "_" ELSE n[i]
  <2>1. p = [i \in 1..Len(n) |-> e(i)] /\ Len(n) \in Nat /\ DOMAIN n = 1..Len(n)
    BY DEF flatten_logical_path
  <2>2. \A i \in 1..Len(n) : e(i) \in Token
    <3>1. \A i \in 1..Len(n) : n[i] \in Token
      OBVIOUS
    <3>2. "_" \in Token
      BY DEF Token
    <3> QED BY <3>1, <3>2
  <2> HIDE DEF e
  <2>3. [i \in 1..Len(n) |-> e(i)] \in Seq(Token)
    BY <2>1, <2>2, IsASeq
  <2>4. p \in Seq(Token) /\ DOMAIN p = 1..Len(n)
    BY <2>1, <2>3
  <2>5. Len(p) = Len(n)
    BY <2>1, <2>4
  <2> QED BY <2>1, <2>4, <2>5 DEF e
<1> HIDE DEF p
<1>2. "/" \notin Range(p)
  BY <1>1 DEF Range
<1>3. n # <<>> => p # <<>>
  <2>1. n # <<>> => Len(n) # 0
    OBVIOUS
  <2> QED BY <1>1, <2>1
<1>4. ASSUME n \in FlatPath PROVE p = n
  <2>1. \A i \in DOMAIN n : p[i] = n[i]
    BY <1>1, <1>4 DEF FlatPath, Range
  <2>2. \A i \in 1..Len(p) : p[i] = n[i]
    BY <1>1, <2>1
  <2> QED BY <1>1, <2>2, SeqEqual
<1>5. \A y : y \in Range(p) => y = "_" \/ y \in Range(n)
  BY <1>1 DEF Range
<1> QED BY <1>1, <1>2, <1>3, <1>4, <1>5 DEF p, FlatPath

\* The files of two names, and of one name, are different files, and none is a
\* checkpoint.
LEMMA Paths ==
    ASSUME NamesApart, NEW n \in Names
    PROVE  /\ {filepath(n), metapath(n), undopath(n), temp_path(n)} \subseteq FlatPath \ CkptPath
           /\ IsMeta(metapath(n))
           /\ ~IsMeta(filepath(n)) /\ ~IsMeta(undopath(n)) /\ ~IsMeta(temp_path(n))
           /\ \A k \in Names :
                 /\ filepath(n) # undopath(k) /\ filepath(n) # temp_path(k)
                 /\ undopath(n) # temp_path(k)
                 /\ n # k => /\ filepath(n) # filepath(k) /\ metapath(n) # metapath(k)
                            /\ undopath(n) # undopath(k) /\ temp_path(n) # temp_path(k)
<1> DEFINE Marks == {".meta", ".undo", ".copytmp", ".ckpt_"}
           F(k) == flatten_logical_path(k)
<1>1. Marks \subseteq Token
  BY DEF Token
<1>2. ASSUME NEW k \in Names
      PROVE  /\ k \in Seq(Token) /\ F(k) \in FlatPath /\ F(k) \in Seq(Token)
             /\ \A x \in Marks : x \notin Range(F(k))
  <2>1. k \in Seq(Token) /\ k # <<>>
    <3>1. k \in Seq(STRING) /\ k # <<>>
      BY StoreAssumption
    <3>2. \A i \in 1..Len(k) : k[i] \in Token
      <4>1. ASSUME NEW i \in 1..Len(k) PROVE k[i] \in Range(k)
        BY <3>1 DEF Range
      <4> QED BY <4>1 DEF Token
    <3>3. k = [i \in 1..Len(k) |-> k[i]] /\ Len(k) \in Nat
      BY <3>1
    <3> QED BY <3>1, <3>2, <3>3, IsASeq
  <2>2. F(k) \in FlatPath /\ \A y : y \in Range(F(k)) => y = "_" \/ y \in Range(k)
    BY <2>1, Flattened
  <2>3. Range(k) \cap Marks = {}
    BY DEF NamesApart
  <2> QED BY <2>1, <2>2, <2>3 DEF FlatPath
<1>3. ASSUME NEW k \in Names, NEW x \in Marks
      PROVE  LET s == Append(F(k), x)
             IN  /\ s \in FlatPath /\ s[Len(s)] = x
                 /\ x # ".ckpt_" => s \notin CkptPath
                 /\ \A j \in Names, z \in Marks : s = Append(F(j), z) => F(k) = F(j)
                 /\ \A j \in Names : s # F(j)
  <2> DEFINE s == Append(F(k), x)
  <2>1. /\ s \in Seq(Token) /\ s # <<>> /\ s[Len(s)] = x
        /\ \A y : y \in Range(s) <=> y \in Range(F(k)) \/ y = x
        /\ \A q \in Seq(Token), z \in Token : s = Append(q, z) => F(k) = q
    BY <1>1, <1>2, Suffixed
  <2> HIDE DEF s
  <2>2. s \in FlatPath
    BY <1>2, <2>1 DEF FlatPath
  <2>3. x # ".ckpt_" => s \notin CkptPath
    BY <1>2, <2>1 DEF CkptPath
  <2>4. \A j \in Names : s # F(j)
    BY <1>2, <2>1
  <2>5. \A j \in Names, z \in Marks : s = Append(F(j), z) => F(k) = F(j)
    BY <1>1, <1>2, <2>1 DEF s
  <2> QED BY <2>1, <2>2, <2>3, <2>4, <2>5 DEF s
<1>4. ASSUME NEW k \in Names
      PROVE  F(k) \notin CkptPath /\ F(k)[Len(F(k))] \notin Marks
  <2>1. Len(F(k)) \in DOMAIN F(k)
    BY <1>2 DEF FlatPath
  <2> QED BY <1>2, <2>1 DEF CkptPath, Range
<1>5. /\ filepath(n) = F(n) /\ metapath(n) = Append(F(n), ".meta")
      /\ undopath(n) = Append(F(n), ".undo") /\ temp_path(n) = Append(F(n), ".copytmp")
  BY DEF filepath, metapath, undopath, temp_path
<1>6. {filepath(n), metapath(n), undopath(n), temp_path(n)} \subseteq FlatPath \ CkptPath
  BY <1>2, <1>3, <1>4, <1>5
<1>7. /\ IsMeta(metapath(n))
      /\ ~IsMeta(filepath(n)) /\ ~IsMeta(undopath(n)) /\ ~IsMeta(temp_path(n))
  BY <1>3, <1>4, <1>5 DEF IsMeta
<1>8. ASSUME NEW k \in Names
      PROVE  /\ filepath(n) # undopath(k) /\ filepath(n) # temp_path(k)
             /\ undopath(n) # temp_path(k)
             /\ n # k => /\ filepath(n) # filepath(k) /\ metapath(n) # metapath(k)
                        /\ undopath(n) # undopath(k) /\ temp_path(n) # temp_path(k)
  <2>1. /\ filepath(k) = F(k) /\ metapath(k) = Append(F(k), ".meta")
        /\ undopath(k) = Append(F(k), ".undo") /\ temp_path(k) = Append(F(k), ".copytmp")
    BY DEF filepath, metapath, undopath, temp_path
  <2>2. n # k => F(n) # F(k)
    BY DEF NamesApart, filepath
  <2>3. undopath(n)[Len(undopath(n))] = ".undo"
        /\ temp_path(k)[Len(temp_path(k))] = ".copytmp"
    BY <1>3, <1>5, <2>1
  <2>4. undopath(n) # temp_path(k)
    BY <2>3
  <2> QED BY <1>3, <1>5, <2>1, <2>2, <2>4
<1> QED BY <1>6, <1>7, <1>8

-----------------------------------------------------------------------------
(* Programs *)

LEMMA CatRange ==
    ASSUME NEW S, NEW s1 \in Seq(S), NEW s2 \in Seq(S)
    PROVE  LET s == s1 \o s2
           IN  /\ s \in Seq(S) /\ Len(s) = Len(s1) + Len(s2)
               /\ Range(s) = Range(s1) \cup Range(s2)
               /\ \A i \in 1..Len(s1) : s[i] = s1[i]
               /\ \A i \in DOMAIN s : i > Len(s1) => s[i] = s2[i - Len(s1)] /\ s[i] \in Range(s2)
<1> DEFINE s == s1 \o s2
<1>1. /\ s \in Seq(S) /\ Len(s) = Len(s1) + Len(s2)
      /\ Len(s1) \in Nat /\ Len(s2) \in Nat
      /\ DOMAIN s1 = 1..Len(s1) /\ DOMAIN s2 = 1..Len(s2) /\ DOMAIN s = 1..(Len(s1) + Len(s2))
      /\ \A i \in 1..(Len(s1) + Len(s2)) :
            s[i] = IF i <= Len(s1) THEN s1[i] ELSE s2[i - Len(s1)]
  BY ConcatProperties
<1> HIDE DEF s
<1>2. \A i \in 1..Len(s1) : s[i] = s1[i]
  BY <1>1
<1>3. \A i \in DOMAIN s : i > Len(s1) => s[i] = s2[i - Len(s1)] /\ s[i] \in Range(s2)
  <2>1. ASSUME NEW i \in DOMAIN s, i > Len(s1) PROVE s[i] = s2[i - Len(s1)] /\ i - Len(s1) \in DOMAIN s2
    BY <1>1, <2>1
  <2> QED BY <2>1 DEF Range
<1>4. ASSUME NEW e \in Range(s) PROVE e \in Range(s1) \cup Range(s2)
  <2>1. PICK i \in DOMAIN s : s[i] = e
    BY <1>4 DEF Range
  <2>2. CASE i <= Len(s1)
    <3>1. i \in DOMAIN s1 /\ s1[i] = e
      BY <1>1, <2>1, <2>2
    <3> QED BY <3>1 DEF Range
  <2>3. CASE i > Len(s1)
    BY <1>3, <2>1, <2>3
  <2> QED BY <1>1, <2>1, <2>2, <2>3
<1>5. ASSUME NEW e \in Range(s1) PROVE e \in Range(s)
  <2>1. PICK i \in DOMAIN s1 : s1[i] = e
    BY <1>5 DEF Range
  <2>2. i \in DOMAIN s /\ s[i] = e
    BY <1>1, <2>1
  <2> QED BY <2>2 DEF Range
<1>6. ASSUME NEW e \in Range(s2) PROVE e \in Range(s)
  <2>1. PICK i \in DOMAIN s2 : s2[i] = e
    BY <1>6 DEF Range
  <2>2. i + Len(s1) \in DOMAIN s /\ s[i + Len(s1)] = e
    BY <1>1, <2>1
  <2> QED BY <2>2 DEF Range
<1> QED BY <1>1, <1>2, <1>3, <1>4, <1>5, <1>6 DEF s

\* A file written through stdio.
LEMMA Written ==
    ASSUME NEW p \in Seq(Token), NEW c \in TextFile \cup Sidecar
    PROVE  LET s == ss_write_file_content(p, c)
           IN  /\ s \in Seq(Change) /\ Len(s) = 2 /\ s[1] = Open(p) /\ s[2] = Close(p, c)
               /\ Range(s) = {Open(p), Close(p, c)}
<1>1. Open(p) \in Change /\ Close(p, c) \in Change
  BY DEF Open, Close, Change
<1>2. ss_write_file_content(p, c) = <<Open(p), Close(p, c)>>
  BY DEF ss_write_file_content
<1>3. \A a, b : DOMAIN <<a, b>> = 1..2 /\ <<a, b>>[1] = a /\ <<a, b>>[2] = b
  OBVIOUS
<1> QED BY <1>1, <1>2, <1>3 DEF Range

LEMMA MetadataWritten ==
    ASSUME NEW q \in Sidecar, q.filename \in Names, NamesApart
    PROVE  LET s == ss_write_metadata(q)
               m == metapath(q.filename)
           IN  s \in Seq(Change) /\ Range(s) = {Open(m), Close(m, q)}
<1>1. metapath(q.filename) \in Seq(Token)
  BY Paths DEF FlatPath
<1>2. ss_write_metadata(q) = ss_write_file_content(metapath(q.filename), q)
  BY DEF ss_write_metadata, ss_write_file_content
<1> QED BY <1>1, <1>2, Written

LEMMA Saved ==
    ASSUME NEW q \in Sidecar, q.filename \in Names, NamesApart
    PROVE  LET s == Save(q)
               m == metapath(q.filename)
           IN  s \in Seq(Change) /\ Range(s) = {Memory(q), Open(m), Close(m, q)}
<1> DEFINE m == metapath(q.filename)
<1>1. ss_write_metadata(q) \in Seq(Change) /\ Range(ss_write_metadata(q)) = {Open(m), Close(m, q)}
  BY MetadataWritten
<1>2. <<Memory(q)>> \in Seq(Change) /\ Range(<<Memory(q)>>) = {Memory(q)}
  BY DEF Memory, Change, Range
<1>3. Save(q) = <<Memory(q)>> \o ss_write_metadata(q)
  BY DEF Save
<1>4. /\ Save(q) \in Seq(Change)
      /\ Range(Save(q)) = Range(<<Memory(q)>>) \cup Range(ss_write_metadata(q))
  <2> DEFINE a == <<Memory(q)>>
             b == ss_write_metadata(q)
  <2>1. a \in Seq(Change) /\ b \in Seq(Change) /\ Save(q) = a \o b
    BY <1>1, <1>2, <1>3
  <2> HIDE DEF a, b
  <2>2. a \o b \in Seq(Change) /\ Range(a \o b) = Range(a) \cup Range(b)
    BY <2>1, CatRange
  <2> QED BY <2>1, <2>2 DEF a, b
<1> HIDE DEF m
<1> QED BY <1>1, <1>2, <1>4 DEF m

\* What may be done to a document of one name.
LEMMA OwnChanges ==
    ASSUME NamesApart, NEW n \in Names
    PROVE  /\ \A p \in {filepath(n), undopath(n), temp_path(n)} :
                 /\ Proper(Open(p), {n}) /\ Proper(Unlink(p), {n})
                 /\ \A c \in TextFile : Proper(Close(p, c), {n})
           /\ Proper(Rename(temp_path(n), filepath(n), TRUE), {n})
           /\ Proper(Open(metapath(n)), {n}) /\ Proper(Unlink(metapath(n)), {n})
           /\ \A p \in CkptPath : Proper(Unlink(p), {n})
           /\ \A p \in CkptPath \cap FlatPath :
                 Proper(Open(p), {n}) /\ \A c \in TextFile : Proper(Close(p, c), {n})
           /\ \A q \in Sidecar : q.filename = n =>
                 Proper(Close(metapath(n), q), {n}) /\ Proper(Memory(q), {n})
<1>1. /\ {filepath(n), metapath(n), undopath(n), temp_path(n)} \subseteq FlatPath
      /\ IsMeta(metapath(n))
      /\ ~IsMeta(filepath(n)) /\ ~IsMeta(undopath(n)) /\ ~IsMeta(temp_path(n))
  BY Paths
<1>2. {filepath(n), metapath(n), undopath(n), temp_path(n)} = FilesOf({n})
  BY DEF FilesOf
<1>3. \A p \in CkptPath : ~IsMeta(p)
  BY DEF CkptPath
<1>4. /\ \A p : Open(p).do = "open" /\ Open(p).path = p
      /\ \A p : Unlink(p).do = "unlink" /\ Unlink(p).path = p
      /\ \A p, c : Close(p, c).do = "close" /\ Close(p, c).path = p /\ Close(p, c).content = c
      /\ \A c : Memory(c).do = "memory" /\ Memory(c).record = c
  BY DEF Open, Unlink, Close, Memory
<1>5. \A p, q, b : /\ Rename(p, q, b).do = "rename" /\ Rename(p, q, b).path = p
  BY DEF Rename
<1>a. ASSUME NEW e, e.do = "open", e.path \in (FilesOf({n}) \cup CkptPath) \cap FlatPath
      PROVE  Proper(e, {n})
  BY <1>a DEF Proper
<1>b. ASSUME NEW e, e.do = "unlink", e.path \in FilesOf({n}) \cup CkptPath
      PROVE  Proper(e, {n})
  BY <1>b DEF Proper
<1>c. ASSUME NEW e, e.do = "close", e.path \in (FilesOf({n}) \cup CkptPath) \cap FlatPath,
             ~IsMeta(e.path), e.content \in TextFile
      PROVE  Proper(e, {n})
  BY <1>c DEF Proper
<1>6. ASSUME NEW p \in {filepath(n), undopath(n), temp_path(n)}
      PROVE  /\ Proper(Open(p), {n}) /\ Proper(Unlink(p), {n})
             /\ \A c \in TextFile : Proper(Close(p, c), {n})
  <2>1. p \in FilesOf({n}) \cap FlatPath /\ ~IsMeta(p)
    BY <1>1, <1>2
  <2>2. Proper(Open(p), {n}) /\ Proper(Unlink(p), {n})
    <3> DEFINE e == Open(p)
               f == Unlink(p)
    <3>1. e.do = "open" /\ e.path = p /\ f.do = "unlink" /\ f.path = p
      BY <1>4
    <3> HIDE DEF e, f
    <3>2. Proper(e, {n}) /\ Proper(f, {n})
      BY <1>a, <1>b, <2>1, <3>1
    <3> QED BY <3>2 DEF e, f
  <2>3. ASSUME NEW c \in TextFile PROVE Proper(Close(p, c), {n})
    <3> DEFINE e == Close(p, c)
    <3>1. e.do = "close" /\ e.path = p /\ e.content = c
      BY <1>4
    <3> HIDE DEF e
    <3>2. Proper(e, {n})
      BY <1>c, <2>1, <3>1
    <3> QED BY <3>2 DEF e
  <2> QED BY <2>2, <2>3
<1>7. Proper(Rename(temp_path(n), filepath(n), TRUE), {n})
  BY <1>2, <1>5 DEF Proper
<1>8. Proper(Open(metapath(n)), {n}) /\ Proper(Unlink(metapath(n)), {n})
  <2>1. metapath(n) \in FilesOf({n}) \cap FlatPath
    BY <1>1, <1>2
  <2> DEFINE e == Open(metapath(n))
             f == Unlink(metapath(n))
  <2>2. e.do = "open" /\ e.path = metapath(n) /\ f.do = "unlink" /\ f.path = metapath(n)
    BY <1>4
  <2> HIDE DEF e, f
  <2>3. Proper(e, {n}) /\ Proper(f, {n})
    BY <1>a, <1>b, <2>1, <2>2
  <2> QED BY <2>3 DEF e, f
<1>9. ASSUME NEW p \in CkptPath PROVE Proper(Unlink(p), {n})
  <2> DEFINE f == Unlink(p)
  <2>1. f.do = "unlink" /\ f.path = p
    BY <1>4
  <2> HIDE DEF f
  <2>2. Proper(f, {n})
    BY <1>b, <2>1
  <2> QED BY <2>2 DEF f
<1>10. ASSUME NEW p \in CkptPath \cap FlatPath
       PROVE  Proper(Open(p), {n}) /\ \A c \in TextFile : Proper(Close(p, c), {n})
  <2>1. Proper(Open(p), {n})
    <3> DEFINE e == Open(p)
    <3>1. e.do = "open" /\ e.path = p
      BY <1>4
    <3> HIDE DEF e
    <3>2. Proper(e, {n})
      BY <1>a, <3>1
    <3> QED BY <3>2 DEF e
  <2>2. ASSUME NEW c \in TextFile PROVE Proper(Close(p, c), {n})
    <3> DEFINE e == Close(p, c)
    <3>1. e.do = "close" /\ e.path = p /\ e.content = c
      BY <1>4
    <3> HIDE DEF e
    <3>2. Proper(e, {n})
      BY <1>3, <1>c, <3>1
    <3> QED BY <3>2 DEF e
  <2> QED BY <2>1, <2>2
<1>11. ASSUME NEW q \in Sidecar, q.filename = n
       PROVE  Proper(Close(metapath(n), q), {n}) /\ Proper(Memory(q), {n})
  <2>1. ASSUME NEW e, e.do = "close", e.path = metapath(n), e.content = q PROVE Proper(e, {n})
    <3>1. e.path \in FilesOf({n}) \cap FlatPath /\ IsMeta(e.path)
      BY <1>1, <1>2, <2>1
    <3> QED BY <1>11, <2>1, <3>1 DEF Proper
  <2>2. ASSUME NEW e, e.do = "memory", e.record = q PROVE Proper(e, {n})
    BY <1>11, <2>2 DEF Proper
  <2> DEFINE e == Close(metapath(n), q)
             f == Memory(q)
  <2>3. e.do = "close" /\ e.path = metapath(n) /\ e.content = q
        /\ f.do = "memory" /\ f.record = q
    BY <1>4
  <2> HIDE DEF e, f
  <2>4. Proper(e, {n}) /\ Proper(f, {n})
    BY <2>1, <2>2, <2>3
  <2> QED BY <2>4 DEF e, f
<1> QED BY <1>6, <1>7, <1>8, <1>9, <1>10, <1>11

LEMMA Leaving ==
    ASSUME NEW x, NEW p, p # x
    PROVE  /\ Leaves(Open(p), x) /\ Leaves(Unlink(p), x)
           /\ \A c : Leaves(Close(p, c), x)
           /\ \A p1, b : p1 # x => Leaves(Rename(p1, p, b), x)
BY DEF Leaves, Open, Unlink, Close, Rename

LEMMA MemoryLeaves == \A q, x : Leaves(Memory(q), x)
BY DEF Leaves, Memory

\* The sidecar and the record are all that Save changes.
LEMMA SaveQuiet ==
    ASSUME NamesApart, NEW q \in Sidecar, q.filename \in Names
    PROVE  \A s \in {Save(q), ss_write_metadata(q)} :
              /\ s \in Seq(Change)
              /\ \A e \in Range(s) :
                    /\ Proper(e, {q.filename})
                    /\ \A p : ~IsMeta(p) => Leaves(e, p)
<1> DEFINE n == q.filename
           m == metapath(n)
<1>1. IsMeta(m) /\ Proper(Open(m), {n}) /\ Proper(Close(m, q), {n}) /\ Proper(Memory(q), {n})
  BY Paths, OwnChanges
<1>2. \A p : ~IsMeta(p) => Leaves(Open(m), p) /\ Leaves(Close(m, q), p) /\ Leaves(Memory(q), p)
  BY <1>1, Leaving, MemoryLeaves
<1>3. /\ Save(q) \in Seq(Change) /\ Range(Save(q)) = {Memory(q), Open(m), Close(m, q)}
      /\ ss_write_metadata(q) \in Seq(Change)
      /\ Range(ss_write_metadata(q)) = {Open(m), Close(m, q)}
  BY Saved, MetadataWritten
<1> HIDE DEF n, m
<1>4. \A s \in {Save(q), ss_write_metadata(q)} :
        s \in Seq(Change) /\ Range(s) \subseteq {Memory(q), Open(m), Close(m, q)}
  BY <1>3
<1> QED BY <1>1, <1>2, <1>4 DEF n

\* A file of the document is written, not its sidecar.
LEMMA WriteQuiet ==
    ASSUME NamesApart, NEW n \in Names,
           NEW p \in {filepath(n), undopath(n), temp_path(n)} \cup (CkptPath \cap FlatPath),
           NEW c \in TextFile
    PROVE  LET s == ss_write_file_content(p, c)
           IN  /\ s \in Seq(Change) /\ Len(s) = 2 /\ s[1] = Open(p) /\ s[2] = Close(p, c)
               /\ \A e \in Range(s) : Proper(e, {n}) /\ \A x : x # p => Leaves(e, x)
<1>1. Proper(Open(p), {n}) /\ Proper(Close(p, c), {n})
  BY OwnChanges
<1>2. \A x : x # p => Leaves(Open(p), x) /\ Leaves(Close(p, c), x)
  BY Leaving
<1>3. p \in Seq(Token)
  BY Paths DEF FlatPath, CkptPath
<1>4. LET s == ss_write_file_content(p, c)
      IN  /\ s \in Seq(Change) /\ Len(s) = 2 /\ s[1] = Open(p) /\ s[2] = Close(p, c)
          /\ Range(s) = {Open(p), Close(p, c)}
  BY <1>3, Written
<1> QED BY <1>1, <1>2, <1>4

\* ETIRW and REVERT: the undo text, the content, the record.
LEMMA ReplaceProgram ==
    ASSUME NamesApart, NEW q \in Sidecar, NEW n \in Names, q.filename = n,
           filepath(n) \in DOMAIN disk, disk[filepath(n)] \in TextFile,
           NEW c \in TextFile, NEW T, Shown(filepath(n)) \in T
    PROVE  LET s == ss_write_file_content(undopath(n), disk[filepath(n)])
                        \o ss_write_file_content(filepath(n), c) \o Save(q)
           IN  /\ s \in Seq(Change) /\ \A e \in Range(s) : Proper(e, {n})
               /\ Saving(n, s, T)
<1> DEFINE u == undopath(n)
           w == filepath(n)
           a == ss_write_file_content(u, disk[w])
           b == ss_write_file_content(w, c)
           d == Save(q)
           s == a \o b \o d
<1>1. u # w /\ ~IsMeta(u) /\ ~IsMeta(w)
  BY Paths
<1>2. /\ a \in Seq(Change) /\ Len(a) = 2 /\ a[1] = Open(u) /\ a[2] = Close(u, disk[w])
      /\ \A e \in Range(a) : Proper(e, {n}) /\ \A x : x # u => Leaves(e, x)
  <2> DEFINE z == disk[w]
  <2>1. z \in TextFile /\ u \in {filepath(n), undopath(n), temp_path(n)}
    OBVIOUS
  <2> HIDE DEF z, u
  <2>2. LET y == ss_write_file_content(u, z)
        IN  /\ y \in Seq(Change) /\ Len(y) = 2 /\ y[1] = Open(u) /\ y[2] = Close(u, z)
            /\ \A e \in Range(y) : Proper(e, {n}) /\ \A x : x # u => Leaves(e, x)
    BY <2>1, WriteQuiet, ZenonT(60)
  <2> QED BY <2>2 DEF z, u
<1>3. /\ b \in Seq(Change) /\ Len(b) = 2
      /\ \A e \in Range(b) : Proper(e, {n}) /\ \A x : x # w => Leaves(e, x)
  BY WriteQuiet
<1>4. /\ d \in Seq(Change)
      /\ \A e \in Range(d) : Proper(e, {n}) /\ \A x : ~IsMeta(x) => Leaves(e, x)
  BY SaveQuiet
<1> HIDE DEF a, b, d
<1>5. /\ a \o b \in Seq(Change) /\ Len(a \o b) = 4 /\ Range(a \o b) = Range(a) \cup Range(b)
      /\ (a \o b)[1] = a[1] /\ (a \o b)[2] = a[2]
      /\ \A i \in DOMAIN (a \o b) : i > 2 => (a \o b)[i] \in Range(b)
      /\ DOMAIN (a \o b) = 1..4
  <2>1. /\ a \o b \in Seq(Change) /\ Len(a \o b) = Len(a) + Len(b)
        /\ Range(a \o b) = Range(a) \cup Range(b)
        /\ \A i \in 1..Len(a) : (a \o b)[i] = a[i]
        /\ \A i \in DOMAIN (a \o b) : i > Len(a) => (a \o b)[i] \in Range(b)
    BY <1>2, <1>3, CatRange, ZenonT(60)
  <2>2. Len(a \o b) = 4
    BY <1>2, <1>3, <2>1
  <2> QED BY <1>2, <2>1, <2>2
<1> DEFINE ab == a \o b
<1> HIDE DEF ab
<1>6. /\ s \in Seq(Change) /\ Range(s) = Range(ab) \cup Range(d)
      /\ s[1] = ab[1] /\ s[2] = ab[2]
      /\ \A i \in DOMAIN s : i > 2 => s[i] \in Range(b) \cup Range(d)
      /\ 2 \in DOMAIN s
  <2>1. s = ab \o d
    BY DEF ab
  <2>2. /\ s \in Seq(Change) /\ Len(s) = Len(ab) + Len(d) /\ Range(s) = Range(ab) \cup Range(d)
        /\ \A i \in 1..Len(ab) : s[i] = ab[i]
        /\ \A i \in DOMAIN s : i > Len(ab) => s[i] \in Range(d)
    <3>1. ab \in Seq(Change)
      BY <1>5 DEF ab
    <3>2. LET y == ab \o d
          IN  /\ y \in Seq(Change) /\ Len(y) = Len(ab) + Len(d) /\ Range(y) = Range(ab) \cup Range(d)
              /\ \A i \in 1..Len(ab) : y[i] = ab[i]
              /\ \A i \in DOMAIN y : i > Len(ab) => y[i] \in Range(d)
      BY <1>4, <3>1, CatRange
    <3> QED BY <2>1, <3>2
  <2>3. Len(ab) = 4 /\ DOMAIN ab = 1..4 /\ \A i \in DOMAIN ab : i > 2 => ab[i] \in Range(b)
    BY <1>5 DEF ab
  <2> HIDE DEF s
  <2>4. \A i \in DOMAIN s : i > 2 => s[i] \in Range(b) \cup Range(d)
    <3>1. ASSUME NEW i \in DOMAIN s, i > 2 PROVE s[i] \in Range(b) \cup Range(d)
      <4>1. i \in 1..Len(s)
        BY <2>2, <3>1
      <4>2. i \in 1..4 \/ i > Len(ab)
        BY <2>3, <4>1
      <4> QED BY <2>2, <2>3, <3>1, <4>2
    <3> QED BY <3>1
  <2>5. 2 \in DOMAIN s
    BY <1>4, <2>2, <2>3
  <2> QED BY <2>2, <2>3, <2>4, <2>5
<1>7. s[1] = Open(u) /\ s[2] = Close(u, disk[w]) /\ Range(s) = Range(a) \cup Range(b) \cup Range(d)
  BY <1>2, <1>5, <1>6 DEF ab
<1>8. \A e \in Range(s) : Proper(e, {n})
  BY <1>2, <1>3, <1>4, <1>7
<1>9. /\ Close(u, disk[w]).do = "close" /\ Close(u, disk[w]).path = u
      /\ Close(u, disk[w]).content.text \in T /\ Shown(w) \in T
  BY DEF Close, Shown
<1> HIDE DEF s
<1>10. \A i \in DOMAIN s : IF i <= 2 THEN Leaves(s[i], w) ELSE Leaves(s[i], u)
  <2>1. ASSUME NEW i \in DOMAIN s, i <= 2 PROVE Leaves(s[i], w)
    <3>1. i = 1 \/ i = 2
      BY <1>6, <2>1
    <3> QED BY <1>1, <1>7, <3>1, Leaving
  <2>2. ASSUME NEW i \in DOMAIN s, ~(i <= 2) PROVE Leaves(s[i], u)
    <3>1. s[i] \in Range(b) \cup Range(d)
      BY <1>6, <2>2
    <3> QED BY <1>1, <1>3, <1>4, <3>1
  <2> QED BY <2>1, <2>2
<1>11. Saving(n, s, T)
  BY <1>6, <1>7, <1>9, <1>10 DEF Saving, Kept
<1> QED BY <1>6, <1>8, <1>11 DEF s, a, b, d

LEMMA QuietCat ==
    ASSUME NEW a, NEW b, NEW n, NEW x, Quiet(a, n, x), Quiet(b, n, x)
    PROVE  Quiet(a \o b, n, x)
<1>1. a \in Seq(Change) /\ b \in Seq(Change)
  BY DEF Quiet
<1>2. a \o b \in Seq(Change) /\ Range(a \o b) = Range(a) \cup Range(b)
  BY <1>1, CatRange
<1> QED BY <1>2 DEF Quiet

LEMMA QuietOne ==
    ASSUME NEW e \in Change, NEW n, NEW x, Proper(e, {n}), Leaves(e, x)
    PROVE  Quiet(<<e>>, n, x)
<1>1. <<e>> \in Seq(Change) /\ Range(<<e>>) = {e}
  BY DEF Range
<1> QED BY <1>1 DEF Quiet

LEMMA QuietNone == \A n, x : Quiet(<<>>, n, x)
<1>1. <<>> \in Seq(Change) /\ Range(<<>>) = {}
  BY DEF Range
<1> QED BY <1>1 DEF Quiet

LEMMA UndoProgram ==
    ASSUME NamesApart, NEW q \in Sidecar, NEW n \in Names, q.filename = n,
           NEW c \in TextFile
    PROVE  Quiet(ss_write_file_content(filepath(n), c) \o Save(q), n, undopath(n))
<1>1. filepath(n) # undopath(n) /\ ~IsMeta(undopath(n))
  BY Paths
<1>2. Quiet(Save(q), n, undopath(n))
  BY <1>1, SaveQuiet DEF Quiet
<1>3. Quiet(ss_write_file_content(filepath(n), c), n, undopath(n))
  <2>1. filepath(n) \in {filepath(n), undopath(n), temp_path(n)}
    OBVIOUS
  <2> DEFINE s == ss_write_file_content(filepath(n), c)
  <2>2. s \in Seq(Change) /\ \A e \in Range(s) : Proper(e, {n}) /\ \A x : x # filepath(n) => Leaves(e, x)
    BY <2>1, WriteQuiet
  <2> HIDE DEF s
  <2>3. Quiet(s, n, undopath(n))
    BY <1>1, <2>2 DEF Quiet
  <2> QED BY <2>3 DEF s
<1> QED BY <1>2, <1>3, QuietCat

\* The checkpoint file of n.
LEMMA CkptPaths ==
    ASSUME NamesApart, NEW n \in Names, now \in Nat, now < Len(Clock), CanOpen(ckpt_path(n))
    PROVE  ckpt_path(n) \in CkptPath \cap FlatPath
<1>1. n \in Seq(Token)
  <2>1. n \in Seq(STRING)
    BY StoreAssumption
  <2>2. \A i \in 1..Len(n) : n[i] \in Token
    <3>1. ASSUME NEW i \in 1..Len(n) PROVE n[i] \in Range(n)
      BY <2>1 DEF Range
    <3> QED BY <3>1 DEF Token
  <2>3. n = [i \in 1..Len(n) |-> n[i]] /\ Len(n) \in Nat
    BY <2>1
  <2> QED BY <2>2, <2>3, IsASeq
<1> DEFINE x == Clock[now + 1]
           y == <<".ckpt_", x>>
           s == n \o y
<1>2. x \in Range(Clock) /\ x # ".meta"
  <2>1. now + 1 \in DOMAIN Clock
    BY StoreAssumption
  <2>2. x \in Range(Clock)
    BY <2>1 DEF Range
  <2> QED BY <2>2, StoreAssumption
<1>3. ".ckpt_" \in Token /\ x \in Token
  BY <1>2 DEF Token
<1>4. y \in Seq(Token) /\ Len(y) = 2 /\ y[1] = ".ckpt_" /\ y[2] = x
  BY <1>3
<1>5. ckpt_path(n) = s
  BY DEF ckpt_path
<1> HIDE DEF x, y
<1>6. /\ s \in Seq(Token) /\ Len(s) = Len(n) + Len(y) /\ Range(s) = Range(n) \cup Range(y)
      /\ \A i \in DOMAIN s : i > Len(n) => s[i] = y[i - Len(n)]
  BY <1>1, <1>4, CatRange, ZenonT(60)
<1> HIDE DEF s
<1>7. Len(n) \in Nat /\ Len(s) = Len(n) + 2 /\ Len(s) \in DOMAIN s
  BY <1>1, <1>4, <1>6
<1>8. s[Len(s)] = x
  <2>1. Len(s) > Len(n) /\ Len(s) - Len(n) = 2
    BY <1>7
  <2> QED BY <1>4, <1>6, <1>7, <2>1
<1>9. ".ckpt_" \in Range(y)
  <2>1. 1 \in DOMAIN y
    BY <1>4
  <2> QED BY <1>4, <2>1 DEF Range
<1>10. s # <<>> /\ "/" \notin Range(s)
  BY <1>5, <1>7 DEF CanOpen
<1> QED BY <1>2, <1>5, <1>6, <1>8, <1>9, <1>10 DEF CkptPath, FlatPath, IsMeta

LEMMA CheckpointProgram ==
    ASSUME NamesApart, NEW q \in FileRecord, NEW n \in Names, q.filename = n,
           NEW tag \in Tags, now \in Nat, now < Len(Clock), CanOpen(ckpt_path(n)),
           filepath(n) \in DOMAIN disk, disk[filepath(n)] \in TextFile
    PROVE  Quiet(checkpoint(q, tag), n, filepath(n))
<1> DEFINE p == ckpt_path(n)
           c == disk[filepath(n)]
           old == q.checkpoints
           kept == Pruned(old, Full(q))
           new == [tag |-> tag, filepath |-> p]
           q2 == [q EXCEPT !.checkpoints = Append(kept, new)]
           a == ss_write_file_content(p, c)
           b == IF Full(q) THEN <<Unlink(old[1].filepath)>> ELSE <<>>
<1>1. p \in CkptPath \cap FlatPath
  BY CkptPaths
<1>2. filepath(n) \notin CkptPath /\ ~IsMeta(filepath(n))
  BY Paths
<1>3. Quiet(a, n, filepath(n))
  <2>1. c \in TextFile
    OBVIOUS
  <2> HIDE DEF p, c
  <2>2. a \in Seq(Change) /\ \A e \in Range(a) : Proper(e, {n}) /\ \A x : x # p => Leaves(e, x)
    BY <1>1, <2>1, WriteQuiet
  <2> QED BY <1>1, <1>2, <2>2 DEF Quiet
<1>4. old \in Seq([tag : Tags, filepath : CkptPath])
  BY DEF FileRecord
<1>5. Full(q) => old # <<>> /\ old[1] \in [tag : Tags, filepath : CkptPath]
  <2>1. Full(q) => Len(old) >= 1
    BY <1>4, StoreAssumption DEF Full
  <2> DEFINE R == [tag : Tags, filepath : CkptPath]
  <2> HIDE DEF old, R
  <2>2. ASSUME old \in Seq(R), Len(old) >= 1 PROVE old # <<>> /\ old[1] \in R
    BY <2>2
  <2> QED BY <1>4, <2>1, <2>2 DEF R
<1>6. Quiet(b, n, filepath(n))
  <2>1. CASE Full(q)
    <3> DEFINE x == old[1].filepath
               e == Unlink(x)
    <3>1. x \in CkptPath
      BY <1>5, <2>1
    <3>2. x \in Seq(Token) /\ x # filepath(n)
      BY <1>2, <3>1 DEF CkptPath
    <3>3. e \in Change
      BY <3>2 DEF Unlink, Change
    <3> HIDE DEF x
    <3>4. Proper(e, {n}) /\ Leaves(e, filepath(n))
      BY <3>1, <3>2, OwnChanges, Leaving
    <3> HIDE DEF e
    <3>5. Quiet(<<e>>, n, filepath(n))
      BY <3>3, <3>4, QuietOne
    <3> QED BY <2>1, <3>5 DEF e, x
  <2>2. CASE ~Full(q)
    BY <2>2, QuietNone
  <2> QED BY <2>1, <2>2
<1>7. kept \in Seq([tag : Tags, filepath : CkptPath])
  BY <1>4, <1>5 DEF Pruned
<1>8. Append(kept, new) \in Seq([tag : Tags, filepath : CkptPath])
  BY <1>1, <1>7
<1>9. q2 \in FileRecord /\ q2.filename = n
  <2> HIDE DEF kept, new
  <2> QED BY <1>8 DEF FileRecord
<1>10. q2 \in Sidecar
  BY <1>9, StoreAssumption DEF Sidecar
<1> HIDE DEF a, b, q2
<1>11. Quiet(Save(q2), n, filepath(n))
  BY <1>2, <1>9, <1>10, SaveQuiet DEF Quiet
<1>12. Quiet(a \o b \o Save(q2), n, filepath(n))
  BY <1>3, <1>6, <1>11, QuietCat
<1>13. checkpoint(q, tag) = a \o b \o Save(q2)
  BY DEF checkpoint, a, b, q2
<1> QED BY <1>12, <1>13

LEMMA QuietSave ==
    ASSUME NamesApart, NEW q \in Sidecar, q.filename \in Names, NEW x, ~IsMeta(x)
    PROVE  Quiet(Save(q), q.filename, x) /\ Quiet(ss_write_metadata(q), q.filename, x)
BY SaveQuiet DEF Quiet

LEMMA Joined ==
    ASSUME NEW S, NEW s1 \in Seq(S), NEW s2 \in Seq(S)
    PROVE  LET s == s1 \o s2
           IN  /\ s \in Seq(S) /\ Len(s) = Len(s1) + Len(s2)
               /\ \A i \in 1..(Len(s1) + Len(s2)) :
                     s[i] = IF i <= Len(s1) THEN s1[i] ELSE s2[i - Len(s1)]
BY ConcatProperties

\* SS_COPY: the temporary file is written and takes the place of the content.
LEMMA CopyProgram ==
    ASSUME NamesApart, NEW q \in Sidecar, NEW n \in Names, q.filename = n,
           NEW x \in Texts, NEW T, x \in T, Shown(filepath(n)) \in T
    PROVE  LET s == handle_ss_copy(q, x)
           IN  /\ s \in Seq(Change) /\ \A e \in Range(s) : Proper(e, {n})
               /\ Copying(n, s, T)
<1> DEFINE v == temp_path(n)
           w == filepath(n)
           u == Unlink(v)
           mv == Rename(v, w, TRUE)
           a == ss_write_file_content(v, Text(x))
           d == ss_write_metadata(q)
           s == <<u>> \o a \o <<mv>> \o d
<1>1. v # w /\ ~IsMeta(v) /\ ~IsMeta(w) /\ v \in Seq(Token) /\ w \in Seq(Token)
  BY Paths DEF FlatPath
<1>2. Text(x) \in TextFile /\ Text(x).text = x
  BY DEF Text, TextFile
<1>3. u \in Change /\ mv \in Change
  BY <1>1 DEF Unlink, Rename, Change
<1>4. Proper(u, {n}) /\ Proper(mv, {n}) /\ Leaves(u, w)
  BY <1>1, OwnChanges, Leaving
<1>5. /\ a \in Seq(Change) /\ Len(a) = 2 /\ a[1] = Open(v) /\ a[2] = Close(v, Text(x))
      /\ \A e \in Range(a) : Proper(e, {n}) /\ Leaves(e, w)
  <2> DEFINE c == Text(x)
  <2>1. v \in {filepath(n), undopath(n), temp_path(n)} /\ c \in TextFile
    BY <1>2
  <2> HIDE DEF c, v
  <2>2. LET y == ss_write_file_content(v, c)
        IN  /\ y \in Seq(Change) /\ Len(y) = 2 /\ y[1] = Open(v) /\ y[2] = Close(v, c)
            /\ \A e \in Range(y) : Proper(e, {n}) /\ \A z : z # v => Leaves(e, z)
    BY <2>1, WriteQuiet, ZenonT(60)
  <2> QED BY <1>1, <2>2 DEF v, c
<1>6. d \in Seq(Change) /\ \A e \in Range(d) : Proper(e, {n}) /\ Leaves(e, w)
  BY <1>1, QuietSave DEF Quiet
<1> DEFINE b == <<u>>
           m == <<mv>>
           ba == b \o a
           bam == ba \o m
<1>7. /\ b \in Seq(Change) /\ Len(b) = 1 /\ b[1] = u /\ Range(b) = {u}
      /\ m \in Seq(Change) /\ Len(m) = 1 /\ m[1] = mv /\ Range(m) = {mv}
  <2> HIDE DEF u, mv
  <2>1. \A e \in Change : /\ <<e>> \in Seq(Change) /\ Len(<<e>>) = 1 /\ <<e>>[1] = e
                          /\ Range(<<e>>) = {e}
    BY DEF Range
  <2> QED BY <1>3, <2>1
<1> HIDE DEF a, b, d, m, u, mv
<1>8. /\ ba \in Seq(Change) /\ Len(ba) = 3 /\ ba[1] = u /\ ba[2] = a[1] /\ ba[3] = a[2]
      /\ Range(ba) = Range(b) \cup Range(a)
  <2>1. LET y == b \o a
        IN  /\ y \in Seq(Change) /\ Len(y) = Len(b) + Len(a)
            /\ \A i \in 1..(Len(b) + Len(a)) : y[i] = IF i <= Len(b) THEN b[i] ELSE a[i - Len(b)]
    BY <1>5, <1>7, Joined
  <2>2. Range(b \o a) = Range(b) \cup Range(a)
    BY <1>5, <1>7, CatRange
  <2> HIDE DEF ba
  <2>3. /\ ba \in Seq(Change) /\ Len(ba) = Len(b) + Len(a)
        /\ \A i \in 1..(Len(b) + Len(a)) : ba[i] = IF i <= Len(b) THEN b[i] ELSE a[i - Len(b)]
    BY <2>1 DEF ba
  <2> QED BY <1>5, <1>7, <2>2, <2>3 DEF ba
<1> HIDE DEF ba
<1>9. /\ bam \in Seq(Change) /\ Len(bam) = 4 /\ bam[1] = u /\ bam[2] = a[1] /\ bam[3] = a[2]
      /\ bam[4] = mv /\ Range(bam) = Range(b) \cup Range(a) \cup {mv}
  <2>1. LET y == ba \o m
        IN  /\ y \in Seq(Change) /\ Len(y) = Len(ba) + Len(m)
            /\ \A i \in 1..(Len(ba) + Len(m)) :
                  y[i] = IF i <= Len(ba) THEN ba[i] ELSE m[i - Len(ba)]
    <3>1. ba \in Seq(Change) /\ m \in Seq(Change)
      BY <1>7, <1>8
    <3> QED BY <3>1, Joined
  <2>2. Range(ba \o m) = Range(ba) \cup Range(m)
    BY <1>7, <1>8, CatRange
  <2> HIDE DEF bam
  <2>3. /\ bam \in Seq(Change) /\ Len(bam) = Len(ba) + Len(m)
        /\ \A i \in 1..(Len(ba) + Len(m)) : bam[i] = IF i <= Len(ba) THEN ba[i] ELSE m[i - Len(ba)]
    BY <2>1 DEF bam
  <2> QED BY <1>7, <1>8, <2>2, <2>3 DEF bam
<1> HIDE DEF bam
<1> DEFINE z == bam \o d
<1>10. /\ z \in Seq(Change) /\ Range(z) = Range(bam) \cup Range(d) /\ 4 \in DOMAIN z
       /\ z[1] = u /\ z[2] = a[1] /\ z[3] = a[2] /\ z[4] = mv
       /\ \A i \in DOMAIN z : i > 4 => z[i] \in Range(d)
  <2>1. LET y == bam \o d
        IN  /\ y \in Seq(Change) /\ Len(y) = Len(bam) + Len(d)
            /\ Range(y) = Range(bam) \cup Range(d)
            /\ \A i \in 1..Len(bam) : y[i] = bam[i]
            /\ \A i \in DOMAIN y : i > Len(bam) => y[i] = d[i - Len(bam)] /\ y[i] \in Range(d)
    BY <1>6, <1>9, CatRange
  <2>2. Len(d) \in Nat
    BY <1>6
  <2> HIDE DEF z
  <2>3. /\ z \in Seq(Change) /\ Len(z) = Len(bam) + Len(d)
        /\ Range(z) = Range(bam) \cup Range(d)
        /\ \A i \in 1..Len(bam) : z[i] = bam[i]
        /\ \A i \in DOMAIN z : i > Len(bam) => z[i] \in Range(d)
    BY <2>1 DEF z
  <2>4. 4 \in DOMAIN z
    BY <1>9, <2>2, <2>3
  <2> QED BY <1>9, <2>3, <2>4
<1>11. handle_ss_copy(q, x) = z
  BY DEF handle_ss_copy, z, bam, ba, b, m, a, d, u, mv
<1> HIDE DEF z
<1>12. \A e \in Range(z) : Proper(e, {n})
  BY <1>4, <1>5, <1>6, <1>7, <1>9, <1>10
<1>13. \A i \in DOMAIN z : i # 4 => Leaves(z[i], w)
  <2>1. ASSUME NEW i \in DOMAIN z, i # 4 PROVE Leaves(z[i], w)
    <3>1. i = 1 \/ i = 2 \/ i = 3 \/ i > 4
      BY <1>10, <2>1
    <3>2. a[1] \in Range(a) /\ a[2] \in Range(a)
      BY <1>5 DEF Range
    <3> QED BY <1>4, <1>5, <1>6, <1>10, <3>1, <3>2
  <2> QED BY <2>1
<1>14. z[4 - 1].do = "close" /\ z[4 - 1].path = v /\ z[4 - 1].content.text \in T
  <2>1. z[4 - 1] = Close(v, Text(x))
    BY <1>5, <1>10
  <2>2. Close(v, Text(x)).do = "close" /\ Close(v, Text(x)).path = v
        /\ Close(v, Text(x)).content = Text(x)
    BY DEF Close
  <2> QED BY <1>2, <2>1, <2>2
<1>15. Copying(n, z, T)
  <2>1. z[4] = Rename(temp_path(n), filepath(n), TRUE)
    BY <1>10 DEF mv, v, w
  <2> DEFINE j == 4
  <2>2. j # 1 /\ j \in DOMAIN z /\ Kept(n, T)
    BY <1>10 DEF Kept
  <2> QED BY <1>13, <1>14, <2>1, <2>2 DEF Copying
<1> QED BY <1>10, <1>11, <1>12, <1>15

LEMMA CopyFailedProgram ==
    ASSUME NamesApart, NEW q, NEW n \in Names, q.filename = n
    PROVE  Quiet(copy_failed(q), n, filepath(n))
<1> DEFINE v == temp_path(n)
           e == Unlink(v)
           f == Open(v)
<1>1. v # filepath(n) /\ v \in Seq(Token)
  BY Paths DEF FlatPath
<1>2. e \in Change /\ f \in Change
  BY <1>1 DEF Unlink, Open, Change
<1>3. Proper(e, {n}) /\ Proper(f, {n}) /\ Leaves(e, filepath(n)) /\ Leaves(f, filepath(n))
  BY <1>1, OwnChanges, Leaving
<1>4. copy_failed(q) = <<e, f, e>>
  BY DEF copy_failed
<1> HIDE DEF e, f
<1>5. <<e, f, e>> \in Seq(Change) /\ Range(<<e, f, e>>) = {e, f}
  <2>1. <<e, f, e>> \in Seq(Change)
    BY <1>2
  <2>2. DOMAIN <<e, f, e>> = 1..3 /\ <<e, f, e>>[1] = e /\ <<e, f, e>>[2] = f /\ <<e, f, e>>[3] = e
    OBVIOUS
  <2> QED BY <2>1, <2>2 DEF Range
<1> QED BY <1>3, <1>4, <1>5 DEF Quiet

\* The six changes of a rename.
LEMMA RenameProgram ==
    ASSUME NamesApart, NEW q \in FileRecord, NEW n \in Names, NEW b \in Names, q.filename = n
    PROVE  LET q2 == [q EXCEPT !.filename = b]
               plan == RenamePlan(n, b, q2)
           IN  /\ q2 \in Sidecar /\ q2.filename = b
               /\ ss_handle_rename(q, b) = plan
<1> DEFINE q2 == [q EXCEPT !.filename = b]
           c1 == Rename(filepath(n), filepath(b), TRUE)
           c2 == Rename(metapath(n), metapath(b), FALSE)
           c3 == Rename(undopath(n), undopath(b), FALSE)
           c4 == Memory(q2)
           c5 == Open(metapath(b))
           c6 == Close(metapath(b), q2)
           S == {c1, c2, c3, c4, c5, c6}
           x == <<c1, c2, c3>>
           y == <<c4>>
           z == <<c5, c6>>
           yz == y \o z
           s == x \o yz
           plan == <<c1, c2, c3, c4, c5, c6>>
<1>1. q2 \in Sidecar /\ q2.filename = b
  <2>1. b \in Seq(Token) /\ b # <<>>
    <3>1. b \in Seq(STRING) /\ b # <<>>
      BY StoreAssumption
    <3>2. \A i \in 1..Len(b) : b[i] \in Token
      <4>1. ASSUME NEW i \in 1..Len(b) PROVE b[i] \in Range(b)
        BY <3>1 DEF Range
      <4> QED BY <4>1 DEF Token
    <3>3. b = [i \in 1..Len(b) |-> b[i]] /\ Len(b) \in Nat
      BY <3>1
    <3> QED BY <3>1, <3>2, <3>3, IsASeq
  <2> QED BY <2>1 DEF FileRecord, Sidecar
<1>2. ss_handle_rename(q, b) = s
  <2>1. ss_write_metadata(q2) = z
    BY <1>1 DEF ss_write_metadata
  <2>2. Save(q2) = yz
    BY <2>1 DEF Save
  <2> HIDE DEF yz, q2
  <2> QED BY <2>2 DEF ss_handle_rename, q2
<1>3. RenamePlan(n, b, q2) = plan
  BY DEF RenamePlan
<1> HIDE DEF c1, c2, c3, c4, c5, c6
<1>4. /\ x \in Seq(S) /\ Len(x) = 3 /\ x[1] = c1 /\ x[2] = c2 /\ x[3] = c3
      /\ y \in Seq(S) /\ Len(y) = 1 /\ y[1] = c4
      /\ z \in Seq(S) /\ Len(z) = 2 /\ z[1] = c5 /\ z[2] = c6
  OBVIOUS
<1>5. /\ plan \in Seq(S) /\ Len(plan) = 6 /\ plan[1] = c1 /\ plan[2] = c2 /\ plan[3] = c3
      /\ plan[4] = c4 /\ plan[5] = c5 /\ plan[6] = c6
  OBVIOUS
<1> HIDE DEF x, y, z, plan, S
<1>6. yz \in Seq(S) /\ Len(yz) = 3 /\ yz[1] = c4 /\ yz[2] = c5 /\ yz[3] = c6
  <2>1. /\ yz \in Seq(S) /\ Len(yz) = Len(y) + Len(z)
        /\ \A i \in 1..(Len(y) + Len(z)) : yz[i] = IF i <= Len(y) THEN y[i] ELSE z[i - Len(y)]
    BY <1>4, Joined
  <2> HIDE DEF yz
  <2> QED BY <1>4, <2>1
<1> HIDE DEF yz
<1>7. /\ s \in Seq(S) /\ Len(s) = 6 /\ s[1] = c1 /\ s[2] = c2 /\ s[3] = c3
      /\ s[4] = c4 /\ s[5] = c5 /\ s[6] = c6
  <2>1. /\ s \in Seq(S) /\ Len(s) = Len(x) + Len(yz)
        /\ \A i \in 1..(Len(x) + Len(yz)) :
              s[i] = IF i <= Len(x) THEN x[i] ELSE yz[i - Len(x)]
    BY <1>4, <1>6, Joined
  <2> HIDE DEF s
  <2> QED BY <1>4, <1>6, <2>1
<1> HIDE DEF s
<1>8. s = plan
  BY <1>5, <1>7, SeqEqual
<1> QED BY <1>1, <1>2, <1>3, <1>8

\* What is left of it after k changes.
LEMMA RenameLeft ==
    ASSUME NamesApart, NEW q \in Sidecar, NEW n \in Names, NEW b \in Names, NEW k \in 0..6
    PROVE  LET plan == RenamePlan(n, b, q)
               left == RenameRest(n, b, q, k)
           IN  /\ left \in Seq(Change) /\ Len(left) = 6 - k
               /\ k = 0 => left = plan
               /\ k = 6 => left = <<>>
               /\ k < 6 => /\ left # <<>>
                           /\ Tail(left) = RenameRest(n, b, q, k + 1)
                           /\ k = 0 => Head(left) = Rename(filepath(n), filepath(b), TRUE)
                           /\ k = 1 => Head(left) = Rename(metapath(n), metapath(b), FALSE)
                           /\ k = 2 => Head(left) = Rename(undopath(n), undopath(b), FALSE)
                           /\ k = 3 => Head(left) = Memory(q)
                           /\ k = 4 => Head(left) = Open(metapath(b))
                           /\ k = 5 => Head(left) = Close(metapath(b), q)
<1> DEFINE c1 == Rename(filepath(n), filepath(b), TRUE)
           c2 == Rename(metapath(n), metapath(b), FALSE)
           c3 == Rename(undopath(n), undopath(b), FALSE)
           c4 == Memory(q)
           c5 == Open(metapath(b))
           c6 == Close(metapath(b), q)
           plan == <<c1, c2, c3, c4, c5, c6>>
           left == SubSeq(plan, k + 1, 6)
           next == SubSeq(plan, k + 2, 6)
<1>1. {c1, c2, c3, c4, c5, c6} \subseteq Change
  <2>1. \A m \in Names : {filepath(m), metapath(m), undopath(m)} \subseteq Seq(Token)
    BY Paths DEF FlatPath
  <2>2. \A u, w \in Seq(Token) : \A e \in BOOLEAN :
            Rename(u, w, e) \in Change /\ Open(u) \in Change /\ Close(u, q) \in Change
    BY DEF Rename, Open, Close, Change
  <2>3. c4 \in Change
    BY DEF Memory, Change
  <2> QED BY <2>1, <2>2, <2>3
<1>2. RenamePlan(n, b, q) = plan
  BY DEF RenamePlan
<1> HIDE DEF c1, c2, c3, c4, c5, c6
<1>3. /\ plan \in Seq(Change) /\ Len(plan) = 6 /\ plan[1] = c1 /\ plan[2] = c2 /\ plan[3] = c3
      /\ plan[4] = c4 /\ plan[5] = c5 /\ plan[6] = c6
  BY <1>1
<1> HIDE DEF plan
<1>e. \A i \in 1..6 : plan[i] \in Change
  BY <1>3, ElementOfSeq
<1>4. left \in Seq(Change) /\ Len(left) = 6 - k /\ \A i \in 1..(6 - k) : left[i] = plan[i + k]
  <2>1. \A i \in (k + 1)..6 : plan[i] \in Change
    BY <1>e
  <2> QED BY <1>3, <2>1, SubSeqProperties
<1>5. k < 6 => next \in Seq(Change) /\ Len(next) = 5 - k
               /\ \A i \in 1..(5 - k) : next[i] = plan[i + k + 1]
  <2>1. \A i \in (k + 2)..6 : plan[i] \in Change
    BY <1>e
  <2>2. k + 2 \in Int /\ 6 \in Int
    OBVIOUS
  <2>3. /\ next \in Seq(Change)
        /\ Len(next) = IF k + 2 <= 6 THEN 6 - (k + 2) + 1 ELSE 0
        /\ \A i \in 1..(6 - (k + 2) + 1) : next[i] = plan[k + 2 + i - 1]
    BY <2>1, <2>2, SubSeqProperties
  <2> HIDE DEF next
  <2> QED BY <2>3
<1>6. k = 0 => left = plan
  <2> HIDE DEF left
  <2> QED BY <1>3, <1>4, SeqEqual
<1>7. k = 6 => left = <<>>
  <2> HIDE DEF left
  <2> QED BY <1>4
<1>8. k < 6 => left # <<>> /\ Head(left) = plan[k + 1] /\ Tail(left) = next
  <2> HIDE DEF left, next
  <2>1. ASSUME k < 6 PROVE left # <<>> /\ Head(left) = plan[k + 1]
    BY <1>4, <2>1
  <2>2. ASSUME k < 6 PROVE Tail(left) = next
    <3> DEFINE t == Tail(left)
    <3>1. /\ t \in Seq(Change) /\ Len(t) = Len(left) - 1
          /\ \A i \in 1..Len(t) : t[i] = left[i + 1]
      BY <1>4, <2>1, <2>2, HeadTailProperties
    <3> HIDE DEF t
    <3>2. Len(t) = 5 - k /\ \A i \in 1..(5 - k) : t[i] = next[i]
      BY <1>4, <1>5, <2>2, <3>1
    <3>3. t = next
      BY <1>5, <2>2, <3>1, <3>2, SeqEqual
    <3> QED BY <3>3 DEF t
  <2> QED BY <2>1, <2>2
<1> HIDE DEF left, next
<1>9. /\ k = 0 => plan[k + 1] = c1
      /\ k = 1 => plan[k + 1] = c2
      /\ k = 2 => plan[k + 1] = c3
      /\ k = 3 => plan[k + 1] = c4
      /\ k = 4 => plan[k + 1] = c5
      /\ k = 5 => plan[k + 1] = c6
  BY <1>3
<1>10. left = RenameRest(n, b, q, k) /\ next = RenameRest(n, b, q, k + 1)
  <2>1. (k + 1) + 1 = k + 2
    OBVIOUS
  <2> QED BY <1>2, <2>1 DEF RenameRest, left, next
<1> QED BY <1>2, <1>4, <1>6, <1>7, <1>8, <1>9, <1>10 DEF c1, c2, c3, c4, c5, c6

\* A handler whose tests pass has a listed record.
LEMMA Lockable ==
    ASSUME NamesApart, Types, Records, NEW t \in Threads, Locking(t), on[t] \in Recs,
           Accepted(rec[on[t]], op[t])
    PROVE  /\ on[t] \in files
           /\ rec[on[t]] \in FileRecord /\ rec[on[t]] \in Sidecar
           /\ rec[on[t]].filename \in Names
<1> DEFINE q == rec[on[t]]
           o == op[t]
<1>1. q \in FileRecord
  BY DEF Types
<1>2. on[t] \in files
  <2>1. SUFFICES ASSUME on[t] \notin files PROVE FALSE
    OBVIOUS
  <2>2. t \in Clients /\ q.filename = <<>> /\ ~q.undo_available
    BY <2>1 DEF Records, RecordOf, Threads
  <2>3. o \in Requests
    BY <2>2 DEF Types, Locking, Busy
  <2>4. filepath(<<>>) \notin FlatPath
    <3>1. DOMAIN filepath(<<>>) = {}
      BY DEF filepath, flatten_logical_path
    <3>2. ASSUME filepath(<<>>) \in FlatPath PROVE FALSE
      <4> DEFINE p == filepath(<<>>)
      <4>1. p \in Seq(Token) /\ p # <<>> /\ DOMAIN p = {}
        BY <3>1, <3>2 DEF FlatPath
      <4> HIDE DEF p
      <4>2. DOMAIN p = 1..Len(p) /\ Len(p) # 0 /\ Len(p) \in Nat
        BY <4>1
      <4>3. 1 \in DOMAIN p
        BY <4>2
      <4> QED BY <4>1, <4>3
    <3> QED BY <3>2
  <2>5. filepath(q.filename) \notin DOMAIN disk
    BY <2>2, <2>4 DEF Types, Tidy
  <2>6. o.do \in {"write", "undo", "read", "checkpoint", "revert"}
    BY <2>3 DEF Requests
  <2> QED BY <2>2, <2>5, <2>6 DEF Accepted
<1>3. q.filename \in Names
  BY <1>2 DEF Records, RecordOf
<1> QED BY <1>1, <1>2, <1>3, StoreAssumption DEF Sidecar

\* What a handler sets out to do is confined to its document, and a crash during
\* it leaves a text that is expected.
LEMMA LockProgram ==
    ASSUME NamesApart, Types, NEW t \in Threads, Locking(t), on[t] \in Recs,
           op[t].do # "rename", op[t].do = "checkpoint" => now < Len(Clock),
           Accepted(rec[on[t]], op[t]), rec[on[t]] \in Sidecar, rec[on[t]].filename \in Names
    PROVE  LET q == rec[on[t]]
               n == q.filename
               s == Program(q, op[t])
           IN  /\ s \in Seq(Change) /\ \A e \in Range(s) : Proper(e, {n})
               /\ Safe(n, s, Outcomes(q, op[t]))
<1> DEFINE q == rec[on[t]]
           o == op[t]
           n == q.filename
           T == Outcomes(q, o)
           s == Program(q, o)
<1>1. Shown(filepath(n)) \in T
  BY DEF Outcomes
<1>2. q \in FileRecord /\ q \in Sidecar /\ n \in Names
  BY DEF Types
<1>3. \A p \in DOMAIN disk : ~IsMeta(p) => disk[p] \in TextFile
  BY DEF Types, Tidy
<1>4. ~IsMeta(filepath(n)) /\ ~IsMeta(undopath(n))
  BY Paths
<1>5. /\ o \in Requests \cup Commands
      /\ o.do \in {"write", "undo", "read", "checkpoint", "revert",
                   "access", "copy", "copy_failed"}
  BY DEF Types, Locking, Busy, Threads, Requests, Commands, Creates, Deletes
<1>6. ASSUME NEW z, z = s, Quiet(z, n, filepath(n)) PROVE
           s \in Seq(Change) /\ (\A e \in Range(s) : Proper(e, {n})) /\ Safe(n, s, T)
  BY <1>1, <1>6 DEF Quiet, Safe, Kept, LeftBy
<1>7. CASE o.do \in {"write", "revert"}
  <2> DEFINE q2 == [q EXCEPT !.undo_available = TRUE]
             c == IF o.do = "write" THEN Text(o.text) ELSE disk[SlotPath(q, o.tag)]
  <2>1. q2 \in Sidecar /\ q2.filename = n
    BY <1>2 DEF FileRecord, Sidecar
  <2>2. filepath(n) \in DOMAIN disk /\ disk[filepath(n)] \in TextFile
    BY <1>3, <1>4, <1>7 DEF Accepted
  <2>3. c \in TextFile
    <3>1. CASE o.do = "write"
      <4>1. o.text \in Texts
        BY <1>5, <3>1 DEF Requests, Commands
      <4> QED BY <3>1, <4>1 DEF Text, TextFile
    <3>2. CASE o.do = "revert"
      <4> DEFINE i == CHOOSE j \in Slots(q, o.tag) : TRUE
      <4>1. Slots(q, o.tag) # {} /\ SlotPath(q, o.tag) \in DOMAIN disk
        BY <3>2 DEF Accepted
      <4>2. i \in DOMAIN q.checkpoints
        BY <4>1 DEF Slots
      <4>3. q.checkpoints[i] \in [tag : Tags, filepath : CkptPath]
        <5> DEFINE R == [tag : Tags, filepath : CkptPath]
                   old == q.checkpoints
        <5>1. old \in Seq(R)
          BY <1>2 DEF FileRecord
        <5> HIDE DEF R, old
        <5>2. \A k \in DOMAIN old : old[k] \in R
          BY <5>1
        <5> QED BY <4>2, <5>2 DEF R, old
      <4>4. SlotPath(q, o.tag) \in CkptPath
        BY <4>3 DEF SlotPath
      <4> QED BY <1>3, <3>2, <4>1, <4>4 DEF CkptPath
    <3> QED BY <1>7, <3>1, <3>2
  <2>4. s = ss_write_file_content(undopath(n), disk[filepath(n)])
                \o ss_write_file_content(filepath(n), c) \o Save(q2)
    <3>1. CASE o.do = "write"
      BY <3>1 DEF Program, etirw
    <3>2. CASE o.do = "revert"
      BY <3>2 DEF Program, revert
    <3> QED BY <1>7, <3>1, <3>2
  <2> HIDE DEF q2, c, s, T, n
  <2>5. LET z == ss_write_file_content(undopath(n), disk[filepath(n)])
                     \o ss_write_file_content(filepath(n), c) \o Save(q2)
        IN  z \in Seq(Change) /\ (\A e \in Range(z) : Proper(e, {n})) /\ Saving(n, z, T)
    BY <1>1, <1>2, <2>1, <2>2, <2>3, ReplaceProgram
  <2>6. s \in Seq(Change) /\ (\A e \in Range(s) : Proper(e, {n})) /\ Safe(n, s, T)
    BY <2>4, <2>5 DEF Safe
  <2> QED BY <2>6 DEF s, T, n
<1>8. CASE o.do = "undo"
  <2> DEFINE q2 == [q EXCEPT !.undo_available = FALSE]
             c == disk[undopath(n)]
  <2>1. q2 \in Sidecar /\ q2.filename = n
    BY <1>2 DEF FileRecord, Sidecar
  <2>2. undopath(n) \in DOMAIN disk /\ c \in TextFile
    BY <1>3, <1>4, <1>8 DEF Accepted
  <2>3. s = ss_write_file_content(filepath(n), c) \o Save(q2)
    BY <1>8 DEF Program, undo
  <2>4. UndoKept(n, T)
    BY <1>8 DEF Outcomes, UndoKept
  <2> HIDE DEF q2, c, s, T, n
  <2>5. Quiet(ss_write_file_content(filepath(n), c) \o Save(q2), n, undopath(n))
    BY <1>2, <2>1, <2>2, UndoProgram
  <2>6. s \in Seq(Change) /\ (\A e \in Range(s) : Proper(e, {n})) /\ Safe(n, s, T)
    BY <2>3, <2>4, <2>5 DEF Quiet, Safe, LeftBy
  <2> QED BY <2>6 DEF s, T, n
<1>9. CASE o.do = "checkpoint"
  <2>1. o.tag \in Tags
    BY <1>5, <1>9 DEF Requests, Commands
  <2>2. /\ now \in Nat /\ now < Len(Clock) /\ CanOpen(ckpt_path(n))
        /\ filepath(n) \in DOMAIN disk /\ disk[filepath(n)] \in TextFile
    BY <1>3, <1>4, <1>9 DEF Accepted, Types
  <2>3. Quiet(checkpoint(q, o.tag), n, filepath(n))
    BY <1>2, <2>1, <2>2, CheckpointProgram
  <2>4. s = checkpoint(q, o.tag)
    BY <1>9 DEF Program
  <2> QED BY <1>6, <2>3, <2>4
<1>10. CASE o.do = "read"
  <2>1. s = ss_write_metadata(q)
    BY <1>10 DEF Program
  <2> QED BY <1>2, <1>4, <1>6, <2>1, QuietSave
<1>11. CASE o.do = "access"
  <2> DEFINE q2 == [q EXCEPT !.acl = o.acl]
  <2>1. q2 \in Sidecar /\ q2.filename = n
    <3>1. o.acl \in SUBSET Readers
      BY <1>5, <1>11 DEF Requests, Commands
    <3> QED BY <1>2, <3>1 DEF FileRecord, Sidecar
  <2>2. s = Save(q2)
    BY <1>11 DEF Program
  <2> HIDE DEF q2
  <2>3. Quiet(Save(q2), n, filepath(n))
    BY <1>2, <1>4, <2>1, QuietSave
  <2> QED BY <1>6, <2>2, <2>3
<1>12. CASE o.do = "copy"
  <2>1. o.text \in Texts /\ o.text \in T
    BY <1>5, <1>12 DEF Requests, Commands, Outcomes
  <2>2. s = handle_ss_copy(q, o.text)
    BY <1>12 DEF Program
  <2> DEFINE x == o.text
  <2> HIDE DEF s, T, n, x
  <2>3. LET z == handle_ss_copy(q, x)
        IN  z \in Seq(Change) /\ (\A e \in Range(z) : Proper(e, {n})) /\ Copying(n, z, T)
    <3>1. q.filename = n /\ x \in Texts /\ x \in T
      BY <2>1 DEF n, x
    <3> QED BY <1>1, <1>2, <3>1, CopyProgram
  <2>4. s \in Seq(Change) /\ (\A e \in Range(s) : Proper(e, {n})) /\ Safe(n, s, T)
    BY <2>2, <2>3 DEF Safe, x
  <2> QED BY <2>4 DEF s, T, n
<1>13. CASE o.do = "copy_failed"
  <2>1. s = copy_failed(q)
    BY <1>13 DEF Program
  <2> QED BY <1>2, <1>6, <2>1, CopyFailedProgram
<1> HIDE DEF s, T, n
<1> QED BY <1>5, <1>7, <1>8, <1>9, <1>10, <1>11, <1>12, <1>13 DEF s, T, n

-----------------------------------------------------------------------------
(* Who works on a document *)

\* What is known of a name is only ever forgotten.
LEMMA GoodOnlyFalls ==
    ASSUME lost \subseteq lost', \A n \in DOMAIN texts' : n \in DOMAIN texts \/ n \notin lost'
    PROVE  \A n : Good(n)' => Good(n)
BY DEF Good

LEMMA NoOpApart ==
    ASSUME Types, NEW t \in Threads, Busy(t)
    PROVE  /\ t # NS => op[t] \in Requests
           /\ t = NS => op[t] \in Commands \cup Creates \cup Deletes
           /\ Locking(t) => op[t] \in Requests \cup Commands
           /\ t # NS => Locking(t)
BY DEF Types, Busy, Threads, Locking, Requests, Commands, Creates, Deletes

\* A handler that works on a document with an expected text holds the lock of
\* the document's record, and there is one such handler.
LEMMA TextWorker ==
    ASSUME IInv, NEW t \in Threads, NEW n \in DOMAIN texts, n \in touch[t]
    PROVE  /\ Locking(t) /\ Working(t) /\ op[t].do # "rename"
           /\ on[t] \in files /\ rec[on[t]].filename = n
           /\ file_lock[on[t]] = t /\ Own(t) = {n}
           /\ \A r \in files : rec[r].filename = n => r = on[t]
<1>1. n \in Names /\ n \in DOMAIN docs /\ Good(n) /\ n \in Own(t)
  BY DEF IInv, Types, Good, Own
<1>2. Busy(t) /\ Working(t)
  BY DEF IInv, Handlers, Handler, Working
<1>3. Locking(t)
  <2>1. SUFFICES ASSUME ~Locking(t) PROVE FALSE
    OBVIOUS
  <2>2. t = NS /\ op[t].do \in {"create", "delete"} /\ n = op[t].filename
    BY <1>2, <2>1, NoOpApart DEF IInv, Handlers, Handler, Locking
  <2> QED BY <1>1, <1>2, <2>2 DEF IInv, Creating, Deleting
<1>4. op[t].do # "rename"
  <2>1. SUFFICES ASSUME op[t].do = "rename" PROVE FALSE
    OBVIOUS
  <2>2. t = NS
    BY <1>2, <2>1, NoOpApart DEF IInv, Requests
  <2>3. op[NS].to \notin DOMAIN docs
    BY <1>2, <2>1, <2>2 DEF IInv, Renaming
  <2>4. \E m \in Names : touch[NS] = {m, op[NS].to} /\ m \notin DOMAIN texts
    BY <1>2, <2>1, <2>2 DEF IInv, Renaming
  <2> QED BY <1>1, <2>2, <2>3, <2>4
<1>5. on[t] \in files
  BY <1>1, <1>3 DEF IInv, Records, RecordOf
<1>6. rec[on[t]].filename = n /\ Own(t) = {n}
  BY <1>1, <1>2, <1>3, <1>4, <1>5 DEF IInv, Records, RecordOf
<1>7. file_lock[on[t]] = t
  BY <1>2, <1>3 DEF IInv, Handlers, Handler
<1>8. \A r \in files : rec[r].filename = n => r = on[t]
  BY <1>1, <1>5, <1>6 DEF IInv, Unique
<1> QED BY <1>2, <1>3, <1>4, <1>5, <1>6, <1>7, <1>8

LEMMA OneWorker ==
    ASSUME IInv, NEW t \in Threads, NEW u \in Threads, NEW n \in DOMAIN texts,
           n \in touch[t], n \in touch[u]
    PROVE  t = u
<1>1. on[t] \in files /\ rec[on[t]].filename = n /\ file_lock[on[t]] = t
  BY TextWorker
<1>2. on[u] \in files /\ rec[on[u]].filename = n /\ file_lock[on[u]] = u
  BY TextWorker
<1>3. on[t] = on[u]
  BY <1>1, <1>2, TextWorker
<1> QED BY <1>1, <1>2, <1>3

\* What a thread still has to do stays safe as long as the disk, or the three
\* files of the document on it, stay as they are.
LEMMA SafeStays ==
    ASSUME NEW n, NEW t, Safe(n, todo[t], texts[n]),
           todo'[t] = todo[t], texts'[n] = texts[n],
           \A p \in {filepath(n), undopath(n), temp_path(n)} :
              /\ p \in DOMAIN disk' <=> p \in DOMAIN disk
              /\ p \in DOMAIN disk => disk'[p] = disk[p]
    PROVE  Safe(n, todo[t], texts[n])'
<1>1. /\ Kept(n, texts[n])' <=> Kept(n, texts[n])
      /\ UndoKept(n, texts[n])' <=> UndoKept(n, texts[n])
  BY DEF Kept, UndoKept, Shown
<1>2. CASE Kept(n, texts[n]) /\ LeftBy(todo[t], filepath(n))
  BY <1>1, <1>2 DEF Safe
<1>3. CASE UndoKept(n, texts[n]) /\ LeftBy(todo[t], undopath(n))
  BY <1>1, <1>3 DEF Safe
<1>4. CASE Saving(n, todo[t], texts[n])
  <2>1. Saving(n, todo[t], texts[n])'
    BY <1>1, <1>4 DEF Saving
  <2> QED BY <2>1 DEF Safe
<1>5. CASE Copying(n, todo[t], texts[n])
  <2>1. Copying(n, todo[t], texts[n])'
    BY <1>1, <1>5 DEF Copying
  <2> QED BY <2>1 DEF Safe
<1> QED BY <1>2, <1>3, <1>4, <1>5 DEF Safe

LEMMA TextsStay ==
    ASSUME TextsSafe, UNCHANGED <<disk, todo, texts, touch>>
    PROVE  TextsSafe'
<1>1. SUFFICES ASSUME NEW n \in DOMAIN texts
      PROVE  /\ Kept(n, texts[n])' \/ UndoKept(n, texts[n])'
             /\ \A t \in Threads : n \in touch'[t] => Safe(n, todo[t], texts[n])'
  BY DEF TextsSafe
<1>2. Kept(n, texts[n])' \/ UndoKept(n, texts[n])'
  BY DEF TextsSafe, Kept, UndoKept, Shown
<1>3. ASSUME NEW t \in Threads, n \in touch'[t] PROVE Safe(n, todo[t], texts[n])'
  <2>1. Safe(n, todo[t], texts[n])
    BY <1>3 DEF TextsSafe
  <2> QED BY <2>1, SafeStays
<1> QED BY <1>2, <1>3

-----------------------------------------------------------------------------
(* The invariant, action by action *)

LEMMA InitKeeps ==
    ASSUME Init PROVE IInv
<1>1. \A t \in Threads : ~Busy(t) /\ on[t] = NoRec /\ touch[t] = {} /\ todo[t] = <<>>
  BY DEF Init, Busy
<1>2. Types
  <2>1. NewRecord(<<>>, NoUser) \in FileRecord
    BY DEF NewRecord, FileRecord
  <2>2. DOMAIN disk = {} /\ DOMAIN texts = {} /\ DOMAIN docs = {}
    BY DEF Init
  <2>3. <<>> \in Seq(Change)
    OBVIOUS
  <2> QED BY <2>1, <2>2, <2>3 DEF Init, Types, Tidy, Threads
<1>3. Handlers
  BY <1>1 DEF Handlers, Handler, Working
<1>4. Records /\ Creating /\ Deleting /\ Renaming
  BY <1>1 DEF Records, RecordOf, Locking, Creating, Deleting, Renaming, Threads
<1>5. Confined
  <2>1. Range(<<>>) = {}
    BY DEF Range
  <2> QED BY <1>1, <2>1 DEF Confined, Planned
<1>6. Sidecars /\ Unique /\ TextsSafe
  BY DEF Init, Sidecars, Unique, TextsSafe
<1> QED BY <1>2, <1>3, <1>4, <1>5, <1>6 DEF IInv

LEMMA FindKeeps ==
    ASSUME IInv, NEW t \in Threads, NEW n \in Names, NEW o, Sent(t, o), Find(t, n, o)
    PROVE  IInv'
<1>1. PICK r \in ss_find_file(n) :
          /\ on' = [on EXCEPT ![t] = r]
          /\ lost' = IF on[NS] = r /\ op[NS].do = "delete" THEN lost \cup {n} ELSE lost
  BY DEF Find
<1>2. /\ op' = [op EXCEPT ![t] = o]
      /\ files_lock' = IF o.do = "write" THEN files_lock ELSE t
      /\ o.do # "write" => files_lock = NoThread
      /\ UNCHANGED <<disk, files, rec, file_lock, todo, ok, now, docs, touch, texts>>
  BY DEF Find
<1>3. r \in files /\ rec[r].filename = n /\ r \in Recs
  BY DEF ss_find_file, IInv, Types
<1>4. /\ ~Busy(t) /\ on[t] = NoRec /\ touch[t] = {} /\ todo[t] = <<>>
  BY DEF Find, Begin, Idle, Busy, IInv, Handlers, Handler
<1>5. DOMAIN op = Threads /\ DOMAIN on = Threads /\ NoThread \notin Threads
  BY StoreAssumption DEF IInv, Types
<1>6. /\ o \in Requests \cup Commands /\ o # NoOp
      /\ o.do \notin {"create", "delete"}
      /\ t # NS => o \in Requests
      /\ t = NS => o \in Commands
  BY RequestAssumption DEF Sent, Threads, Requests, Commands
<1>7. /\ op'[t] = o /\ on'[t] = r
      /\ \A u \in Threads : u # t => op'[u] = op[u] /\ on'[u] = on[u]
  BY <1>1, <1>2, <1>5
<1>8. Busy(t)' /\ Locking(t)' /\ ~Working(t)' /\ touch'[t] = {} /\ todo'[t] = <<>>
  BY <1>2, <1>4, <1>6, <1>7 DEF Busy, Locking, Working
<1>9. \A u \in Threads : u # t =>
          /\ Busy(u)' <=> Busy(u)
          /\ Locking(u)' <=> Locking(u)
  BY <1>7 DEF Busy, Locking
<1>10. \A k : Good(k)' => Good(k)
  BY <1>1, <1>2 DEF Good
<1>11. Types'
  <2>1. \A c \in Clients : op'[c] \in Requests \cup {NoOp}
    BY <1>6, <1>7, StoreAssumption DEF IInv, Types, Threads
  <2>2. op'[NS] \in Commands \cup Creates \cup Deletes \cup {NoOp}
    BY <1>6, <1>7 DEF IInv, Types, Threads
  <2>3. on' \in [Threads -> Recs \cup {NoRec}] /\ files_lock' \in Threads \cup {NoThread}
    BY <1>1, <1>2, <1>3 DEF IInv, Types
  <2>4. DOMAIN op' = Threads
    BY <1>2, <1>5
  <2>5. n \in Seq(Token)
    BY <1>3 DEF IInv, Types, FileRecord
  <2>6. lost' \subseteq Seq(Token)
    BY <1>1, <2>5 DEF IInv, Types
  <2> QED BY <1>2, <2>1, <2>2, <2>3, <2>4, <2>6 DEF IInv, Types
<1>12. Handlers'
  <2>1. SUFFICES ASSUME NEW u \in Threads
        PROVE  Handler(u)'
    BY DEF Handlers
  <2>2. CASE u = t
    BY <1>2, <1>3, <1>7, <1>8, <2>2 DEF Sent, Handler
  <2>3. CASE u # t
    <3>1. Working(u)' <=> Working(u)
      BY <1>2 DEF Working
    <3>2. files_lock = u => files_lock' = u
      BY <1>2, <1>5
    <3> QED BY <1>2, <1>7, <1>9, <2>3, <3>1, <3>2 DEF IInv, Handlers, Handler
  <2> QED BY <2>2, <2>3
<1>13. Records'
  <2>1. SUFFICES ASSUME NEW u \in Threads, Locking(u)'
        PROVE  RecordOf(u)'
    BY DEF Records
  <2>2. CASE u = t
    BY <1>2, <1>3, <1>7, <1>8, <2>2 DEF RecordOf
  <2>3. CASE u # t
    <3>1. Own(u)' = Own(u) /\ (Working(u)' <=> Working(u))
      BY <1>2 DEF Own, Working
    <3> QED BY <1>2, <1>7, <1>9, <1>10, <2>1, <2>3, <3>1 DEF IInv, Records, RecordOf
  <2> QED BY <2>2, <2>3
<1>14. Confined'
  <2>1. SUFFICES ASSUME NEW u \in Threads, NEW e \in Range(todo'[u])
        PROVE  /\ op'[u].do # "rename" => Proper(e, Own(u))'
               /\ op'[u].do = "create" => e.do \in {"open", "close"}
               /\ op'[u].do = "delete" => e.do = "unlink"
    BY DEF Confined, Planned
  <2>2. u # t
    BY <1>8, <2>1 DEF Range
  <2>3. Proper(e, Own(u))' <=> Proper(e, Own(u))
    BY <1>2 DEF Own, Proper
  <2> QED BY <1>2, <1>7, <2>1, <2>2, <2>3 DEF IInv, Confined, Planned
<1>15. Sidecars'
  <2>1. \A m, p : Between(m, p) => Between(m, p)'
    <3>1. CASE t = NS
      BY <1>4, <3>1 DEF Between
    <3>2. CASE t # NS
      BY <1>2, <1>7, <1>9, <3>2 DEF Between, Threads
    <3> QED BY <3>1, <3>2
  <2> QED BY <1>2, <1>10, <2>1 DEF IInv, Sidecars
<1>16. Unique'
  BY <1>2, <1>10 DEF IInv, Unique
<1>17. Creating'
  <2>1. CASE t = NS
    BY <1>6, <1>7, <2>1 DEF Creating, Commands
  <2>2. CASE t # NS
    BY <1>2, <1>3, <1>7, <1>9, <2>2 DEF IInv, Creating, Threads
  <2> QED BY <2>1, <2>2
<1>18. Deleting'
  <2>1. CASE t = NS
    BY <1>6, <1>7, <2>1 DEF Deleting, Commands
  <2>2. CASE t # NS
    <3>1. SUFFICES ASSUME Busy(NS)', op'[NS].do = "delete" PROVE Deleting'
      BY DEF Deleting
    <3>2. Busy(NS) /\ op[NS].do = "delete" /\ op'[NS] = op[NS] /\ on'[NS] = on[NS]
      BY <1>7, <1>9, <2>2, <3>1 DEF Threads
    <3>3. ASSUME NEW c \in Clients, on'[c] = on'[NS]
          PROVE  \A k \in Own(c)' \cup {op'[NS].filename} : ~Good(k)'
      <4>1. CASE c = t
        <5>1. op[NS].filename = n /\ n \notin DOMAIN texts
          BY <1>3, <1>7, <3>2, <3>3, <4>1 DEF IInv, Deleting
        <5>2. ~Good(n)' /\ Own(c)' = {}
          BY <1>1, <1>2, <1>7, <1>8, <3>2, <3>3, <4>1, <5>1 DEF Good, Own
        <5> QED BY <3>2, <5>1, <5>2
      <4>2. CASE c # t
        <5>1. on'[c] = on[c] /\ Own(c)' = Own(c)
          BY <1>2, <1>7, <4>2 DEF Threads, Own
        <5> QED BY <1>10, <3>2, <3>3, <5>1 DEF IInv, Deleting
      <4> QED BY <4>1, <4>2
    <3> QED BY <1>2, <3>2, <3>3 DEF IInv, Deleting
  <2> QED BY <2>1, <2>2
<1>19. Renaming'
  <2>1. CASE t = NS
    <3>1. o.do = "rename" => /\ o.to \notin DOMAIN docs
                             /\ \A s \in files : rec[s].filename # o.to
      BY DEF Sent, ss_find_file
    <3> QED BY <1>2, <1>3, <1>7, <1>8, <2>1, <3>1 DEF Renaming
  <2>2. CASE t # NS
    <3>1. op'[NS] = op[NS] /\ on'[NS] = on[NS] /\ (Busy(NS)' <=> Busy(NS))
      BY <1>7, <1>9, <2>2 DEF Threads
    <3>2. Working(NS)' <=> Working(NS)
      BY <1>2 DEF Working
    <3> QED BY <1>2, <3>1, <3>2 DEF IInv, Renaming
  <2> QED BY <2>1, <2>2
<1>20. TextsSafe'
  BY <1>2, TextsStay DEF IInv
<1> QED BY <1>11, <1>12, <1>13, <1>14, <1>15, <1>16, <1>17, <1>18, <1>19, <1>20 DEF IInv

LEMMA NameTypes ==
    ASSUME NamesApart, NEW n \in Names
    PROVE  n \in Seq(Token) /\ n # <<>> /\ temp_path(n) \in Seq(Token) /\ temp_path(n) \notin Names
<1>1. n \in Seq(STRING) /\ n # <<>>
  BY StoreAssumption
<1>2. \A i \in 1..Len(n) : n[i] \in Token
  <2>1. ASSUME NEW i \in 1..Len(n) PROVE n[i] \in Range(n)
    BY <1>1 DEF Range
  <2> QED BY <2>1 DEF Token
<1>3. n = [i \in 1..Len(n) |-> n[i]] /\ Len(n) \in Nat
  BY <1>1
<1>4. n \in Seq(Token)
  BY <1>1, <1>2, <1>3, IsASeq
<1>5. ".copytmp" \in Range(temp_path(n)) /\ temp_path(n) \in Seq(Token)
  <2>1. flatten_logical_path(n) \in Seq(Token) /\ ".copytmp" \in Token
    BY <1>4, Flattened DEF Token
  <2> QED BY <2>1, Suffixed DEF temp_path
<1> QED BY <1>1, <1>4, <1>5 DEF NamesApart

\* What a handler starts to work on.
LEMMA Changing ==
    ASSUME NamesApart, IInv, NEW t \in Threads, Locking(t), on[t] \in Recs
    PROVE  LET q == rec[on[t]]
               C == Changed(q, op[t])
           IN  /\ q.filename \in C /\ C \subseteq Seq(Token)
               /\ op[t].do = "rename" => op[t].to \in Names /\ C = {q.filename, op[t].to}
               /\ op[t].do # "rename" => C \cap Names = {q.filename} \cap Names
<1> DEFINE q == rec[on[t]]
           o == op[t]
<1>1. q.filename \in Seq(Token)
  BY DEF IInv, Types, FileRecord
<1>2. o \in Requests \cup Commands
  BY NoOpApart DEF IInv, Locking
<1>3. CASE o.do = "rename"
  <2>1. o.to \in Names
    BY <1>2, <1>3 DEF Requests, Commands
  <2>2. Changed(q, o) = {q.filename, o.to}
    BY <1>3 DEF Changed
  <2>3. o.to \in Seq(Token)
    BY <2>1, NameTypes
  <2> QED BY <1>1, <1>3, <2>1, <2>2, <2>3
<1>4. CASE o.do \in {"copy", "copy_failed"}
  <2>1. t = NS
    BY <1>4, NoOpApart DEF IInv, Locking, Requests
  <2>2. q.filename \in Names
    BY <2>1 DEF IInv, Records, RecordOf
  <2>3. Changed(q, o) = {q.filename, temp_path(q.filename)}
    BY <1>4 DEF Changed
  <2> QED BY <1>1, <1>4, <2>2, <2>3, NameTypes
<1>5. CASE o.do \notin {"rename", "copy", "copy_failed"}
  <2>1. Changed(q, o) = {q.filename}
    BY <1>5 DEF Changed
  <2> QED BY <1>1, <1>5, <2>1
<1> QED BY <1>3, <1>4, <1>5

LEMMA LockKeeps ==
    ASSUME NamesApart, IInv, NEW t \in Threads, Lock(t)
    PROVE  IInv'
<1> DEFINE r == on[t]
           q == rec[r]
           n == q.filename
           o == op[t]
           acc == Accepted(q, o)
           C == Changed(q, o)
<1>1. /\ Busy(t) /\ Locking(t) /\ ~Working(t) /\ r \in Recs
      /\ todo[t] = <<>> /\ touch[t] = {} /\ file_lock[r] = NoThread
      /\ o.do # "write" => files_lock = t
      /\ o.do = "checkpoint" => now < Len(Clock)
  BY DEF Lock, Idle, Waiting, Busy, Working, IInv, Handlers, Handler
<1>2. /\ file_lock' = [file_lock EXCEPT ![r] = t]
      /\ files_lock' = IF files_lock = t THEN NoThread ELSE files_lock
      /\ ok' = [ok EXCEPT ![t] = acc]
      /\ todo' = [todo EXCEPT ![t] = IF acc THEN Program(q, o) ELSE <<>>]
      /\ touch' = [touch EXCEPT ![t] = C]
      /\ now' = IF o.do = "checkpoint" /\ acc THEN now + 1 ELSE now
      /\ UNCHANGED <<disk, files, rec, op, on, docs, lost>>
  BY DEF Lock
<1>3. texts' = IF ~acc \/ n \notin DOMAIN texts THEN texts
               ELSE IF o.do = "rename" THEN Restrict(texts, DOMAIN texts \ {n})
               ELSE [texts EXCEPT ![n] = Outcomes(q, o)]
  BY DEF Lock
<1>4. /\ DOMAIN touch = Threads /\ DOMAIN todo = Threads /\ DOMAIN ok = Threads
      /\ DOMAIN file_lock = Recs /\ NoThread \notin Threads
  BY StoreAssumption DEF IInv, Types
<1>5. /\ todo'[t] = IF acc THEN Program(q, o) ELSE <<>>
      /\ touch'[t] = C /\ ok'[t] = acc /\ file_lock'[r] = t
      /\ \A u \in Threads : u # t => todo'[u] = todo[u] /\ touch'[u] = touch[u] /\ ok'[u] = ok[u]
      /\ \A s \in Recs : s # r => file_lock'[s] = file_lock[s]
  BY <1>1, <1>2, <1>4
<1>6. /\ n \in C /\ C \subseteq Seq(Token)
      /\ o.do = "rename" => o.to \in Names /\ C = {n, o.to}
      /\ o.do # "rename" => C \cap Names = {n} \cap Names
  BY <1>1, Changing
<1>7. acc => r \in files /\ q \in FileRecord /\ q \in Sidecar /\ n \in Names
  BY <1>1, Lockable DEF IInv
<1>8. acc /\ o.do # "rename" =>
          LET s == Program(q, o)
          IN  /\ s \in Seq(Change) /\ (\A e \in Range(s) : Proper(e, {n}))
              /\ Safe(n, s, Outcomes(q, o))
  BY <1>1, <1>7, LockProgram DEF IInv
<1>9. o.do = "rename" =>
          LET q2 == [q EXCEPT !.filename = o.to]
              plan == RenamePlan(n, o.to, q2)
          IN  /\ t = NS /\ acc /\ r \in files /\ n \in Names /\ n # o.to
              /\ q2 \in Sidecar /\ q2.filename = o.to
              /\ Program(q, o) = plan /\ plan \in Seq(Change)
              /\ plan = RenameRest(n, o.to, q2, 0)
  <2>1. SUFFICES ASSUME o.do = "rename"
        PROVE  LET q2 == [q EXCEPT !.filename = o.to]
                   plan == RenamePlan(n, o.to, q2)
               IN  /\ t = NS /\ acc /\ r \in files /\ n \in Names /\ n # o.to
                   /\ q2 \in Sidecar /\ q2.filename = o.to
                   /\ Program(q, o) = plan /\ plan \in Seq(Change)
              /\ plan = RenameRest(n, o.to, q2, 0)
    OBVIOUS
  <2>2. t = NS
    BY <1>1, <2>1, NoOpApart DEF IInv, Requests
  <2>3. acc
    BY <2>1 DEF Accepted
  <2>4. n # o.to
    BY <1>1, <2>1, <2>2 DEF IInv, Renaming
  <2>5. Program(q, o) = ss_handle_rename(q, o.to)
    BY <2>1 DEF Program
  <2> DEFINE q2 == [q EXCEPT !.filename = o.to]
             plan == RenamePlan(n, o.to, q2)
  <2>6. q2 \in Sidecar /\ q2.filename = o.to /\ ss_handle_rename(q, o.to) = plan
    BY <1>6, <1>7, <2>1, <2>3, RenameProgram
  <2>7. plan \in Seq(Change) /\ plan = RenameRest(n, o.to, q2, 0)
    <3> HIDE DEF q2, n
    <3>1. n \in Names /\ o.to \in Names /\ 0 \in 0..6
      BY <1>6, <1>7, <2>1, <2>3
    <3> QED BY <2>6, <3>1, RenameLeft
  <2> QED BY <1>7, <2>2, <2>3, <2>4, <2>5, <2>6, <2>7
<1>10. DOMAIN texts' \subseteq DOMAIN texts /\ o.do = "rename" => n \notin DOMAIN texts'
  BY <1>3, <1>9 DEF Restrict
<1>11. DOMAIN texts' \subseteq DOMAIN texts
  BY <1>3 DEF Restrict
<1>12. \A k : Good(k)' => Good(k)
  BY <1>2, <1>11, GoodOnlyFalls
<1>13. \A u \in Threads : /\ Busy(u)' <=> Busy(u)
                          /\ Locking(u)' <=> Locking(u)
                          /\ u # t => Own(u)' = Own(u) /\ (Working(u)' <=> Working(u))
  BY <1>2, <1>5 DEF Busy, Locking, Own, Working
<1>14. Own(t)' = C \cap Names
  BY <1>5 DEF Own
<1> HIDE DEF acc, C
<1>15. Types'
  <2>1. todo' \in [Threads -> Seq(Change)]
    <3>1. todo'[t] \in Seq(Change)
      BY <1>5, <1>8, <1>9
    <3>2. todo \in [Threads -> Seq(Change)] /\ todo' = [todo EXCEPT ![t] = todo'[t]]
      BY <1>2, <1>5 DEF IInv, Types
    <3> QED BY <3>1, <3>2
  <2>2. touch' \in [Threads -> SUBSET Seq(Token)]
    BY <1>2, <1>6 DEF IInv, Types
  <2>3. ok' \in [Threads -> BOOLEAN] /\ file_lock' \in [Recs -> Threads \cup {NoThread}]
    <3>1. acc \in BOOLEAN
      BY DEF acc, Accepted
    <3> QED BY <1>2, <3>1 DEF IInv, Types
  <2>4. files_lock' \in Threads \cup {NoThread} /\ now' \in Nat
    BY <1>2 DEF IInv, Types
  <2>5. DOMAIN texts' \subseteq DOMAIN docs
    BY <1>11 DEF IInv, Types
  <2> QED BY <1>2, <2>1, <2>2, <2>3, <2>4, <2>5 DEF IInv, Types
<1>16. Handlers'
  <2>1. SUFFICES ASSUME NEW u \in Threads
        PROVE  Handler(u)'
    BY DEF Handlers
  <2>2. CASE u = t
    <3>1. Working(t)' /\ Busy(t)' /\ Locking(t)'
      BY <1>1, <1>5, <1>6, <1>13 DEF Working
    <3>2. on'[t] = r /\ (~ok'[t] => todo'[t] = <<>>) /\ touch'[t] # {}
      BY <1>2, <1>5, <1>6
    <3> QED BY <1>1, <1>5, <2>2, <3>1, <3>2 DEF Handler
  <2>3. CASE u # t
    <3>1. files_lock = u => files_lock' = u
      BY <1>2, <2>3
    <3>2. Working(u) /\ Locking(u) => file_lock'[on'[u]] = u
      <4>1. ASSUME Working(u), Locking(u) PROVE file_lock'[on'[u]] = u
        <5>1. file_lock[on[u]] = u /\ on[u] \in Recs
          BY <4>1 DEF IInv, Handlers, Handler, Locking
        <5>2. on[u] # r
          BY <1>1, <1>4, <5>1
        <5> QED BY <1>2, <1>5, <5>1, <5>2
      <4> QED BY <4>1
    <3>3. ~Working(u) /\ Busy(u) /\ op[u].do = "checkpoint" => now' < Len(Clock)
      <4>1. ASSUME ~Working(u), Busy(u), op[u].do = "checkpoint" PROVE now' = now /\ now < Len(Clock)
        <5>1. files_lock = u /\ now < Len(Clock)
          BY <4>1 DEF IInv, Handlers, Handler
        <5>2. o.do # "checkpoint"
          BY <1>1, <2>3, <5>1
        <5> QED BY <1>2, <5>1, <5>2
      <4> QED BY <4>1
    <3> QED BY <1>2, <1>5, <1>13, <2>3, <3>1, <3>2, <3>3 DEF IInv, Handlers, Handler
  <2> QED BY <2>2, <2>3
<1>17. Records'
  <2>1. SUFFICES ASSUME NEW u \in Threads, Locking(u)'
        PROVE  RecordOf(u)'
    BY DEF Records
  <2>2. CASE u = t
    <3>1. CASE r \in files
      <4>1. n \in Names
        BY <1>1, <3>1 DEF IInv, Records, RecordOf
      <4> QED BY <1>2, <1>6, <1>14, <2>2, <3>1, <4>1 DEF RecordOf
    <3>2. CASE r \notin files
      <4>1. t # NS /\ n = <<>> /\ ~q.undo_available
        BY <1>1, <3>2 DEF IInv, Records, RecordOf
      <4>2. C \cap Names = {}
        BY <1>6, <1>9, <4>1, StoreAssumption
      <4> QED BY <1>2, <1>14, <2>2, <3>2, <4>1, <4>2 DEF RecordOf
    <3> QED BY <3>1, <3>2
  <2>3. CASE u # t
    BY <1>2, <1>12, <1>13, <2>1, <2>3 DEF IInv, Records, RecordOf
  <2> QED BY <2>2, <2>3
<1>18. Confined'
  <2>1. SUFFICES ASSUME NEW u \in Threads, NEW e \in Range(todo'[u])
        PROVE  Planned(u, e)'
    BY DEF Confined
  <2>2. CASE u = t
    <3>1. acc
      BY <1>5, <2>1, <2>2 DEF Range
    <3>2. o.do # "rename" => Proper(e, {n}) /\ Own(t)' = {n}
      BY <1>5, <1>6, <1>7, <1>8, <1>14, <2>1, <2>2, <3>1
    <3>3. op'[u] = o /\ o.do \notin {"create", "delete"}
      BY <1>1, <1>2, <2>2 DEF Locking
    <3> QED BY <2>2, <3>2, <3>3 DEF Planned
  <2>3. CASE u # t
    <3>1. op'[u] = op[u] /\ e \in Range(todo[u]) /\ Own(u)' = Own(u)
      BY <1>2, <1>5, <1>13, <2>1, <2>3
    <3> QED BY <3>1 DEF IInv, Confined, Planned
  <2> QED BY <2>2, <2>3
<1>19. Sidecars'
  <2>1. \A m, p : Between(m, p) => Between(m, p)'
    <3>1. CASE t = NS
      BY <1>1, <3>1 DEF Between
    <3>2. CASE t # NS
      BY <1>2, <1>5, <1>13, <3>2 DEF Between, Threads
    <3> QED BY <3>1, <3>2
  <2> QED BY <1>2, <1>12, <2>1 DEF IInv, Sidecars
<1>20. Unique'
  BY <1>2, <1>12 DEF IInv, Unique
<1>21. Creating'
  BY <1>2, <1>13 DEF IInv, Creating, Threads
<1>22. Deleting'
  <2>1. SUFFICES ASSUME Busy(NS)', op'[NS].do = "delete" PROVE Deleting'
    BY DEF Deleting
  <2>2. Busy(NS) /\ op[NS].do = "delete" /\ op'[NS] = op[NS] /\ on'[NS] = on[NS]
    BY <1>2, <1>13, <2>1 DEF Threads
  <2>3. ASSUME NEW c \in Clients, on'[c] = on'[NS]
        PROVE  \A k \in Own(c)' \cup {op'[NS].filename} : ~Good(k)'
    <3>1. \A k \in Own(c) \cup {op[NS].filename} : ~Good(k)
      BY <1>2, <2>2, <2>3 DEF IInv, Deleting
    <3>2. CASE c = t
      <4>1. n = op[NS].filename
        BY <1>2, <2>2, <2>3, <3>2 DEF IInv, Deleting
      <4>2. t # NS
        BY <3>2, StoreAssumption
      <4>3. Own(t)' \subseteq {n}
        BY <1>6, <1>9, <1>14, <4>2
      <4> QED BY <1>2, <1>12, <2>2, <3>1, <3>2, <4>1, <4>3
    <3>3. CASE c # t
      BY <1>2, <1>12, <1>13, <2>2, <3>1, <3>3 DEF Threads
    <3> QED BY <3>2, <3>3
  <2> QED BY <1>2, <1>11, <2>2, <2>3 DEF IInv, Deleting
<1>23. Renaming'
  <2>1. SUFFICES ASSUME Busy(NS)', op'[NS].do = "rename" PROVE Renaming'
    BY DEF Renaming
  <2>2. Busy(NS) /\ op[NS].do = "rename" /\ op'[NS] = op[NS] /\ on'[NS] = on[NS]
    BY <1>2, <1>13, <2>1 DEF Threads
  <2>3. CASE t = NS
    <3> DEFINE b == o.to
               q2 == [q EXCEPT !.filename = b]
    <3>1. /\ b \notin DOMAIN docs /\ r \in files
          /\ \A s \in files : rec[s].filename = b => s = r
      BY <2>2, <2>3 DEF IInv, Renaming
    <3>2. /\ touch'[NS] = {n, b} /\ n # b /\ n \notin DOMAIN texts' /\ n \in Names
      BY <1>5, <1>6, <1>9, <1>10, <1>11, <2>2, <2>3
    <3>3. ok'[NS] /\ todo'[NS] = RenameRest(n, b, q2, 0)
      BY <1>5, <1>9, <2>2, <2>3
    <3>4. Working(NS)'
      BY <3>2 DEF Working
    <3>5. \E k \in 0..6 : /\ todo'[NS] = RenameRest(n, b, q2, k)
                          /\ n = IF k >= 4 THEN b ELSE n
      <4>1. 0 \in 0..6 /\ n = IF 0 >= 4 THEN b ELSE n
        OBVIOUS
      <4> QED BY <3>3, <4>1
    <3> HIDE DEF b, q2, n
    <3>6. \E m \in Names :
              /\ touch'[NS] = {m, b} /\ m # b /\ m \notin DOMAIN texts'
              /\ ~ok'[NS] => n = m
              /\ ok'[NS] => \E k \in 0..6 :
                    /\ todo'[NS] = RenameRest(m, b, q2, k)
                    /\ n = IF k >= 4 THEN b ELSE m
      BY <3>2, <3>3, <3>5
    <3> QED BY <1>2, <2>3, <3>1, <3>4, <3>6 DEF Renaming, b, q2, n
  <2>4. CASE t # NS
    <3>1. /\ touch'[NS] = touch[NS] /\ todo'[NS] = todo[NS] /\ ok'[NS] = ok[NS]
          /\ (Working(NS)' <=> Working(NS))
      BY <1>5, <1>13, <2>4 DEF Threads
    <3> QED BY <1>2, <1>11, <2>2, <3>1 DEF IInv, Renaming
  <2> QED BY <2>3, <2>4
<1>24. TextsSafe'
  <2>1. SUFFICES ASSUME NEW m \in DOMAIN texts'
        PROVE  /\ Kept(m, texts[m])' \/ UndoKept(m, texts[m])'
               /\ \A u \in Threads : m \in touch'[u] => Safe(m, todo[u], texts[m])'
    BY DEF TextsSafe
  <2>2. m \in DOMAIN texts /\ m \in Names /\ m \in DOMAIN docs
    BY <1>11, <2>1 DEF IInv, Types
  <2>3. Kept(m, texts[m]) \/ UndoKept(m, texts[m])
    BY <2>2 DEF IInv, TextsSafe
  <2>4. CASE acc /\ m = n
    <3>1. o.do # "rename"
      BY <1>9, <1>10, <1>11, <2>1, <2>4
    <3>2. texts'[m] = Outcomes(q, o)
      BY <1>3, <2>2, <2>4, <3>1
    <3>3. Kept(m, texts[m])'
      <4>1. Shown(filepath(n)) \in Outcomes(q, o)
        BY DEF Outcomes
      <4> QED BY <1>2, <2>4, <3>2, <4>1 DEF Kept, Shown
    <3>4. ASSUME NEW u \in Threads, m \in touch'[u] PROVE Safe(m, todo[u], texts[m])'
      <4>1. CASE u = t
        <5>1. Safe(m, todo'[t], texts'[m])
          BY <1>5, <1>8, <2>4, <3>1, <3>2
        <5> QED BY <1>2, <4>1, <5>1 DEF Safe, Kept, UndoKept, Shown, Saving, Copying
      <4>2. CASE u # t
        <5>1. m \in touch[u]
          BY <1>5, <3>4, <4>2
        <5>2. file_lock[on[u]] = u /\ r = on[u]
          BY <1>7, <2>2, <2>4, <5>1, TextWorker
        <5> QED BY <1>1, <1>4, <5>2
      <4> QED BY <4>1, <4>2
    <3> QED BY <3>3, <3>4
  <2>5. CASE ~(acc /\ m = n)
    <3>1. texts'[m] = texts[m]
      BY <1>3, <2>1, <2>5 DEF Restrict
    <3>2. Kept(m, texts[m])' \/ UndoKept(m, texts[m])'
      BY <1>2, <2>3, <3>1 DEF Kept, UndoKept, Shown
    <3>3. ASSUME NEW u \in Threads, m \in touch'[u] PROVE Safe(m, todo[u], texts[m])'
      <4>1. CASE u # t
        <5>1. m \in touch[u] /\ todo'[u] = todo[u]
          BY <1>5, <3>3, <4>1
        <5>2. Safe(m, todo[u], texts[m])
          BY <2>2, <5>1 DEF IInv, TextsSafe
        <5> QED BY <1>2, <3>1, <5>1, <5>2, SafeStays
      <4>2. CASE u = t /\ ~acc
        <5>1. todo'[u] = <<>>
          BY <1>5, <4>2
        <5>2. \A p : LeftBy(todo'[u], p)
          BY <5>1 DEF LeftBy, Range
        <5> QED BY <3>2, <5>2 DEF Safe
      <4>3. CASE u = t /\ acc
        <5>1. m \in C
          BY <1>5, <3>3, <4>3
        <5>2. o.do = "rename" /\ m = o.to
          BY <1>6, <2>2, <2>5, <4>3, <5>1
        <5>3. o.to \notin DOMAIN docs
          BY <1>1, <1>9, <5>2 DEF IInv, Renaming
        <5> QED BY <2>2, <5>2, <5>3
      <4> QED BY <4>1, <4>2, <4>3
    <3> QED BY <3>2, <3>3
  <2> QED BY <2>4, <2>5
<1> QED BY <1>15, <1>16, <1>17, <1>18, <1>19, <1>20, <1>21, <1>22, <1>23, <1>24 DEF IInv

\* CREATE writes the content file and the sidecar of its name.
LEMMA CreateProgram ==
    ASSUME NamesApart, NEW n \in Names, NEW owner \in Owners
    PROVE  LET s == ss_create_file(n, owner)
           IN  /\ s \in Seq(Change)
               /\ \A e \in Range(s) : Proper(e, {n}) /\ e.do \in {"open", "close"}
<1> DEFINE q == NewRecord(n, owner)
           m == metapath(n)
           e1 == Open(filepath(n))
           a == <<e1>>
           d == ss_write_metadata(q)
<1>1. q \in Sidecar /\ q.filename = n
  <2>1. n \in Seq(Token) /\ n # <<>>
    BY NameTypes
  <2>2. <<>> \in Seq([tag : Tags, filepath : CkptPath])
    OBVIOUS
  <2> QED BY <2>1, <2>2 DEF NewRecord, FileRecord, Sidecar
<1>2. e1 \in Change /\ Proper(e1, {n}) /\ e1.do = "open"
  <2>1. filepath(n) \in Seq(Token)
    BY Paths DEF FlatPath
  <2>2. e1 \in Change
    BY <2>1 DEF Open, Change
  <2>3. Proper(e1, {n})
    BY OwnChanges
  <2> QED BY <2>2, <2>3 DEF Open
<1> HIDE DEF q
<1>3. d \in Seq(Change) /\ Range(d) = {Open(m), Close(m, q)}
  BY <1>1, MetadataWritten
<1>4. \A e \in Range(d) : Proper(e, {n}) /\ e.do \in {"open", "close"}
  <2>1. Proper(Open(m), {n}) /\ Proper(Close(m, q), {n})
    BY <1>1, OwnChanges
  <2>2. Open(m).do = "open" /\ Close(m, q).do = "close"
    BY DEF Open, Close
  <2> HIDE DEF m, d
  <2> QED BY <1>3, <2>1, <2>2
<1> HIDE DEF e1, d
<1>5. a \in Seq(Change) /\ Range(a) = {e1}
  BY <1>2 DEF Range
<1> HIDE DEF a
<1>6. a \o d \in Seq(Change) /\ Range(a \o d) = Range(a) \cup Range(d)
  BY <1>3, <1>5, CatRange
<1>7. ss_create_file(n, owner) = a \o d
  BY DEF ss_create_file, a, d, e1, q
<1> QED BY <1>2, <1>4, <1>5, <1>6, <1>7

\* DELETE removes the files of its name and the record's checkpoints.
LEMMA DeleteProgram ==
    ASSUME NamesApart, NEW n \in Names, NEW q \in FileRecord, q.filename = n
    PROVE  LET s == ss_delete_file(q)
           IN  /\ s \in Seq(Change)
               /\ \A e \in Range(s) : Proper(e, {n}) /\ e.do = "unlink"
<1> DEFINE e1 == Unlink(filepath(n))
           e2 == Unlink(metapath(n))
           e3 == Unlink(undopath(n))
           a == <<e1, e2, e3>>
           old == q.checkpoints
           d == [i \in DOMAIN old |-> Unlink(old[i].filepath)]
<1>1. /\ {e1, e2, e3} \subseteq Change
      /\ \A e \in {e1, e2, e3} : Proper(e, {n}) /\ e.do = "unlink"
  <2>1. {filepath(n), metapath(n), undopath(n)} \subseteq Seq(Token)
    BY Paths DEF FlatPath
  <2>2. \A p \in Seq(Token) : Unlink(p) \in Change /\ Unlink(p).do = "unlink"
    BY DEF Unlink, Change
  <2>3. Proper(e1, {n}) /\ Proper(e2, {n}) /\ Proper(e3, {n})
    BY OwnChanges
  <2> QED BY <2>1, <2>2, <2>3
<1>2. \A i \in DOMAIN old : old[i].filepath \in CkptPath
  <2> DEFINE R == [tag : Tags, filepath : CkptPath]
  <2>1. old \in Seq(R)
    BY DEF FileRecord
  <2> HIDE DEF old, R
  <2>2. \A i \in DOMAIN old : old[i] \in R
    BY <2>1
  <2> QED BY <2>2 DEF R
<1>3. \A p \in CkptPath : Unlink(p) \in Change /\ Proper(Unlink(p), {n}) /\ Unlink(p).do = "unlink"
  <2>1. \A p \in CkptPath : Unlink(p) \in Change /\ Unlink(p).do = "unlink"
    BY DEF Unlink, Change, CkptPath
  <2>2. \A p \in CkptPath : Proper(Unlink(p), {n})
    BY OwnChanges
  <2> QED BY <2>1, <2>2
<1>4. d \in Seq(Change)
  <2>1. DOMAIN old = 1..Len(old) /\ Len(old) \in Nat
    BY DEF FileRecord
  <2> DEFINE f(i) == Unlink(old[i].filepath)
  <2>2. \A i \in 1..Len(old) : f(i) \in Change
    BY <1>2, <1>3, <2>1
  <2> HIDE DEF f
  <2>3. [i \in 1..Len(old) |-> f(i)] \in Seq(Change)
    BY <2>1, <2>2, IsASeq
  <2> QED BY <2>1, <2>3 DEF f
<1>5. \A e \in Range(d) : Proper(e, {n}) /\ e.do = "unlink"
  BY <1>2, <1>3 DEF Range
<1> HIDE DEF e1, e2, e3, d
<1>6. a \in Seq(Change) /\ Range(a) = {e1, e2, e3}
  <2>1. a \in Seq(Change)
    BY <1>1
  <2>2. DOMAIN a = 1..3 /\ a[1] = e1 /\ a[2] = e2 /\ a[3] = e3
    OBVIOUS
  <2> HIDE DEF a
  <2> QED BY <2>1, <2>2 DEF Range
<1> HIDE DEF a
<1>7. a \o d \in Seq(Change) /\ Range(a \o d) = Range(a) \cup Range(d)
  BY <1>4, <1>6, CatRange
<1>8. ss_delete_file(q) = a \o d
  BY DEF ss_delete_file, a, d, e1, e2, e3
<1> QED BY <1>1, <1>5, <1>6, <1>7, <1>8

\* What starting CREATE or DELETE leaves as it was.
LEMMA StartKeeps ==
    ASSUME NamesApart, IInv, NEW n \in Names, ~Busy(NS), files_lock = NoThread,
           NEW o \in Creates \cup Deletes, o.filename = n,
           NEW r \in Recs, NEW s \in Seq(Change),
           \A e \in Range(s) : /\ Proper(e, {n})
                               /\ o.do = "create" => e.do \in {"open", "close"}
                               /\ o.do = "delete" => e.do = "unlink",
           on' = [on EXCEPT ![NS] = r], op' = [op EXCEPT ![NS] = o], files_lock' = NS,
           todo' = [todo EXCEPT ![NS] = s], ok' = [ok EXCEPT ![NS] = TRUE],
           touch' = [touch EXCEPT ![NS] = {n}],
           UNCHANGED <<disk, files, rec, file_lock, now, docs>>,
           n \notin DOMAIN texts', DOMAIN texts' \subseteq DOMAIN texts,
           \A m \in DOMAIN texts' : texts'[m] = texts[m],
           lost \subseteq lost', lost' \subseteq Seq(Token),
           Creating', Deleting'
    PROVE  IInv'
<1>1. /\ DOMAIN op = Threads /\ DOMAIN on = Threads /\ DOMAIN todo = Threads
      /\ DOMAIN ok = Threads /\ DOMAIN touch = Threads /\ NS \in Threads
      /\ NoThread \notin Threads
  BY StoreAssumption DEF IInv, Types, Threads
<1>2. /\ op'[NS] = o /\ on'[NS] = r /\ todo'[NS] = s /\ ok'[NS] = TRUE /\ touch'[NS] = {n}
      /\ \A u \in Threads : u # NS =>
            /\ op'[u] = op[u] /\ on'[u] = on[u] /\ todo'[u] = todo[u]
            /\ ok'[u] = ok[u] /\ touch'[u] = touch[u]
  BY <1>1
<1>3. o # NoOp /\ o.do \in {"create", "delete"}
  BY RequestAssumption DEF Creates, Deletes
<1>4. Busy(NS)' /\ ~Locking(NS)' /\ Working(NS)' /\ Own(NS)' = {n}
  BY <1>2, <1>3 DEF Busy, Locking, Working, Own
<1>5. \A u \in Threads : u # NS =>
          /\ Busy(u)' <=> Busy(u)
          /\ Locking(u)' <=> Locking(u)
          /\ Working(u)' <=> Working(u)
          /\ Own(u)' = Own(u)
  BY <1>2 DEF Busy, Locking, Working, Own
<1>6. \A k : Good(k)' => Good(k)
  BY GoodOnlyFalls
<1>7. Types'
  <2>1. n \in Seq(Token)
    BY NameTypes
  <2>2. \A c \in Clients : op'[c] \in Requests \cup {NoOp}
    BY <1>2, StoreAssumption DEF IInv, Types, Threads
  <2>3. op'[NS] \in Commands \cup Creates \cup Deletes \cup {NoOp} /\ DOMAIN op' = Threads
    BY <1>1, <1>2
  <2>4. /\ on' \in [Threads -> Recs \cup {NoRec}] /\ todo' \in [Threads -> Seq(Change)]
        /\ ok' \in [Threads -> BOOLEAN] /\ touch' \in [Threads -> SUBSET Seq(Token)]
    BY <2>1 DEF IInv, Types
  <2>5. DOMAIN texts' \subseteq DOMAIN docs
    BY DEF IInv, Types
  <2> QED BY <1>1, <2>2, <2>3, <2>4, <2>5 DEF IInv, Types
<1>8. Handlers'
  <2>1. SUFFICES ASSUME NEW u \in Threads
        PROVE  Handler(u)'
    BY DEF Handlers
  <2>2. CASE u = NS
    BY <1>2, <1>4, <2>2, ZenonT(60) DEF Handler
  <2>3. CASE u # NS
    <3>1. files_lock # u
      BY <1>1
    <3> QED BY <1>2, <1>5, <2>3, <3>1 DEF IInv, Handlers, Handler
  <2> QED BY <2>2, <2>3
<1>9. Records'
  <2>1. SUFFICES ASSUME NEW u \in Threads, Locking(u)'
        PROVE  RecordOf(u)'
    BY DEF Records
  <2>2. u # NS
    BY <1>4, <2>1
  <2> QED BY <1>2, <1>5, <1>6, <2>1, <2>2 DEF IInv, Records, RecordOf
<1>10. Confined'
  <2>1. SUFFICES ASSUME NEW u \in Threads, NEW e \in Range(todo'[u])
        PROVE  Planned(u, e)'
    BY DEF Confined
  <2>2. CASE u = NS
    <3>1. e \in Range(s)
      BY <1>2, <2>1, <2>2
    <3>2. Proper(e, Own(u)')
      <4>1. Own(u)' = {n}
        BY <1>4, <2>2
      <4> QED BY <3>1, <4>1
    <3> QED BY <1>2, <2>2, <3>1, <3>2 DEF Planned
  <2>3. CASE u # NS
    BY <1>2, <1>5, <2>1, <2>3 DEF IInv, Confined, Planned
  <2> QED BY <2>2, <2>3
<1>11. Sidecars'
  <2>1. \A m, p : ~Between(m, p)
    BY DEF Between
  <2> QED BY <1>6, <2>1 DEF IInv, Sidecars
<1>12. Unique'
  BY <1>6 DEF IInv, Unique
<1>13. Renaming'
  BY <1>2, <1>3 DEF Renaming
<1>14. TextsSafe'
  <2>1. SUFFICES ASSUME NEW m \in DOMAIN texts'
        PROVE  /\ Kept(m, texts[m])' \/ UndoKept(m, texts[m])'
               /\ \A u \in Threads : m \in touch'[u] => Safe(m, todo[u], texts[m])'
    BY DEF TextsSafe
  <2>2. m \in DOMAIN texts /\ texts'[m] = texts[m] /\ m # n
    BY <2>1
  <2>3. Kept(m, texts[m])' \/ UndoKept(m, texts[m])'
    BY <2>2 DEF IInv, TextsSafe, Kept, UndoKept, Shown
  <2>4. ASSUME NEW u \in Threads, m \in touch'[u] PROVE Safe(m, todo[u], texts[m])'
    <3>1. u # NS
      BY <1>2, <2>2, <2>4
    <3>2. m \in touch[u] /\ todo'[u] = todo[u]
      BY <1>2, <2>4, <3>1
    <3>3. Safe(m, todo[u], texts[m])
      BY <2>2, <3>2 DEF IInv, TextsSafe
    <3> QED BY <2>2, <3>2, <3>3, SafeStays
  <2> QED BY <2>3, <2>4
<1> QED BY <1>7, <1>8, <1>9, <1>10, <1>11, <1>12, <1>13, <1>14 DEF IInv

LEMMA CreateKeeps ==
    ASSUME NamesApart, IInv, NEW n \in Names, NEW owner \in Owners, Create(n, owner)
    PROVE  IInv'
<1> DEFINE free == Recs \ (files \cup Range(on))
           r == CHOOSE x \in free : TRUE
           o == [do |-> "create", filename |-> n, owner |-> owner]
           s == ss_create_file(n, owner)
<1>1. /\ ~Busy(NS) /\ files_lock = NoThread /\ n \notin DOMAIN docs
      /\ ss_find_file(n) = {} /\ free # {}
      /\ on' = [on EXCEPT ![NS] = r] /\ op' = [op EXCEPT ![NS] = o] /\ files_lock' = NS
      /\ todo' = [todo EXCEPT ![NS] = s] /\ ok' = [ok EXCEPT ![NS] = TRUE]
      /\ touch' = [touch EXCEPT ![NS] = {n}]
      /\ UNCHANGED <<disk, files, rec, file_lock, now, docs, lost, texts>>
  BY DEF Create, Begin, Idle, Busy
<1>2. r \in Recs /\ r \notin files /\ r \notin Range(on)
  BY <1>1
<1>3. o \in Creates /\ o.filename = n /\ o.do = "create"
  BY DEF Creates
<1>4. /\ s \in Seq(Change)
      /\ \A e \in Range(s) : Proper(e, {n}) /\ e.do \in {"open", "close"}
  BY CreateProgram
<1>5. n \notin DOMAIN texts' /\ lost' \subseteq Seq(Token)
  BY <1>1 DEF IInv, Types
<1> HIDE DEF r, s, o
<1>6. op'[NS] = o /\ on'[NS] = r /\ \A c \in Clients : on'[c] = on[c] /\ on[c] \in Range(on)
  BY <1>1, StoreAssumption DEF IInv, Types, Threads, Range
<1>7. Creating'
  <2>1. \A x \in files : rec[x].filename # n
    BY <1>1 DEF ss_find_file
  <2>2. \A c \in Clients : on'[c] # on'[NS]
    BY <1>2, <1>6
  <2> QED BY <1>1, <1>2, <1>3, <1>6, <2>1, <2>2 DEF Creating
<1>8. Deleting'
  BY <1>3, <1>6 DEF Deleting
<1> QED BY <1>1, <1>2, <1>3, <1>4, <1>5, <1>7, <1>8, StartKeeps

LEMMA DeleteKeeps ==
    ASSUME NamesApart, IInv, NEW n \in Names, Delete(n)
    PROVE  IInv'
<1>1. PICK r \in ss_find_file(n) :
        LET others == {t \in Threads : on[t] = r}
            names == {n} \cup UNION {touch[t] : t \in others}
        IN  /\ on' = [on EXCEPT ![NS] = r]
            /\ todo' = [todo EXCEPT ![NS] = ss_delete_file(rec[r])]
            /\ lost' = IF others = {} THEN lost ELSE lost \cup names
            /\ texts' = Restrict(texts, DOMAIN texts \ names)
  BY DEF Delete
<1> DEFINE others == {t \in Threads : on[t] = r}
           names == {n} \cup UNION {touch[t] : t \in others}
           o == [do |-> "delete", filename |-> n]
           s == ss_delete_file(rec[r])
<1>2. /\ ~Busy(NS) /\ files_lock = NoThread
      /\ op' = [op EXCEPT ![NS] = o] /\ files_lock' = NS
      /\ ok' = [ok EXCEPT ![NS] = TRUE]
      /\ touch' = [touch EXCEPT ![NS] = {n}]
      /\ UNCHANGED <<disk, files, rec, file_lock, now, docs>>
  BY DEF Delete, Begin, Idle, Busy
<1>3. /\ on' = [on EXCEPT ![NS] = r]
      /\ todo' = [todo EXCEPT ![NS] = s]
      /\ lost' = IF others = {} THEN lost ELSE lost \cup names
      /\ texts' = Restrict(texts, DOMAIN texts \ names)
  BY <1>1
<1>4. r \in files /\ r \in Recs /\ rec[r].filename = n /\ rec[r] \in FileRecord
  BY DEF ss_find_file, IInv, Types
<1>5. o \in Deletes /\ o.filename = n /\ o.do = "delete"
  BY DEF Deletes
<1>6. s \in Seq(Change) /\ \A e \in Range(s) : Proper(e, {n}) /\ e.do = "unlink"
  BY <1>4, DeleteProgram
<1>7. names \subseteq Seq(Token)
  <2>1. n \in Seq(Token)
    BY NameTypes
  <2>2. \A t \in Threads : touch[t] \subseteq Seq(Token)
    BY DEF IInv, Types
  <2> QED BY <2>1, <2>2
<1>8. /\ DOMAIN texts' \subseteq DOMAIN texts \ names
      /\ \A m \in DOMAIN texts' : texts'[m] = texts[m]
  BY <1>3 DEF Restrict
<1>9. /\ n \notin DOMAIN texts' /\ DOMAIN texts' \subseteq DOMAIN texts
      /\ lost \subseteq lost' /\ lost' \subseteq Seq(Token)
  BY <1>3, <1>7, <1>8 DEF IInv, Types
<1> HIDE DEF s, o
<1>10. /\ op'[NS] = o /\ on'[NS] = r
       /\ \A c \in Clients : /\ c \in Threads /\ on'[c] = on[c] /\ op'[c] = op[c]
                             /\ Own(c)' = Own(c) /\ Own(c) \subseteq touch[c]
  BY <1>2, <1>3, StoreAssumption DEF IInv, Types, Threads, Own
<1>11. Creating'
  BY <1>5, <1>10 DEF Creating
<1>12. Deleting'
  <2>1. ASSUME NEW c \in Clients, on'[c] = on'[NS]
        PROVE  \A k \in Own(c)' \cup {n} : ~Good(k)'
    <3>1. c \in others
      BY <1>10, <2>1
    <3>2. Own(c) \cup {n} \subseteq names
      BY <1>10, <3>1
    <3>3. names \subseteq lost'
      BY <1>3, <3>1
    <3> HIDE DEF names
    <3>4. \A k \in names : ~Good(k)'
      BY <1>8, <3>3 DEF Good
    <3> QED BY <1>3, <1>10, <3>1, <3>2, <3>4
  <2> QED BY <1>2, <1>4, <1>5, <1>9, <1>10, <2>1 DEF Deleting
<1> HIDE DEF names, others
<1> QED BY <1>2, <1>3, <1>4, <1>5, <1>6, <1>8, <1>9, <1>11, <1>12, StartKeeps

-----------------------------------------------------------------------------
(* One change *)

\* What the disk holds after it.
LEMMA Effect ==
    ASSUME NEW s, NEW p
    PROVE  LET d == AfterChange(s)
           IN  /\ s.do \in {"open", "close"} =>
                     /\ p \in DOMAIN d <=> p \in DOMAIN disk \/ p = s.path
                     /\ p # s.path /\ p \in DOMAIN d => d[p] = disk[p]
                     /\ s.do = "open" => d[s.path] = Empty
                     /\ s.do = "close" => d[s.path] = s.content
               /\ s.do = "unlink" =>
                     /\ p \in DOMAIN d <=> p \in DOMAIN disk /\ p # s.path
                     /\ p \in DOMAIN d => d[p] = disk[p]
               /\ s.do = "rename" /\ s.path \in DOMAIN disk =>
                     /\ p \in DOMAIN d <=> (p \in DOMAIN disk /\ p # s.path) \/ p = s.to
                     /\ p # s.to /\ p \in DOMAIN d => d[p] = disk[p]
                     /\ d[s.to] = disk[s.path]
               /\ s.do = "rename" /\ s.path \notin DOMAIN disk => d = disk
               /\ s.do = "memory" => d = disk
<1> DEFINE d == AfterChange(s)
<1>1. ASSUME NEW f, NEW x, NEW c, NEW g, g = WithFile(f, x, c)
      PROVE  /\ p \in DOMAIN g <=> p \in DOMAIN f \/ p = x
             /\ p # x /\ p \in DOMAIN g => g[p] = f[p]
             /\ g[x] = c
  BY <1>1 DEF WithFile
<1>2. ASSUME NEW f, NEW x, NEW g, g = WithoutFile(f, x)
      PROVE  /\ p \in DOMAIN g <=> p \in DOMAIN f /\ p # x
             /\ p \in DOMAIN g => g[p] = f[p]
  BY <1>2 DEF WithoutFile, Restrict
<1>3. CASE s.do = "open"
  <2>1. d = WithFile(disk, s.path, Empty)
    BY <1>3 DEF AfterChange
  <2> HIDE DEF d
  <2> QED BY <1>1, <1>3, <2>1 DEF d
<1>4. CASE s.do = "close"
  <2>1. d = WithFile(disk, s.path, s.content)
    BY <1>4 DEF AfterChange
  <2> HIDE DEF d
  <2> QED BY <1>1, <1>4, <2>1 DEF d
<1>5. CASE s.do = "unlink"
  <2>1. d = WithoutFile(disk, s.path)
    BY <1>5 DEF AfterChange
  <2> HIDE DEF d
  <2> QED BY <1>2, <1>5, <2>1 DEF d
<1>6. CASE s.do = "rename" /\ s.path \in DOMAIN disk
  <2> DEFINE w == WithoutFile(disk, s.path)
  <2>1. d = WithFile(w, s.to, disk[s.path])
    BY <1>6 DEF AfterChange
  <2>2. /\ p \in DOMAIN w <=> p \in DOMAIN disk /\ p # s.path
        /\ p \in DOMAIN w => w[p] = disk[p]
    BY <1>2
  <2> HIDE DEF d, w
  <2>3. /\ p \in DOMAIN d <=> p \in DOMAIN w \/ p = s.to
        /\ p # s.to /\ p \in DOMAIN d => d[p] = w[p]
        /\ d[s.to] = disk[s.path]
    BY <1>1, <2>1
  <2> QED BY <1>6, <2>2, <2>3 DEF d
<1>7. CASE s.do = "rename" /\ s.path \notin DOMAIN disk
  <2>1. d = disk
    BY <1>7 DEF AfterChange
  <2> QED BY <1>7, <2>1
<1>8. CASE s.do = "memory"
  <2>1. d = disk
    BY <1>8 DEF AfterChange
  <2> QED BY <1>8, <2>1
<1> QED BY <1>3, <1>4, <1>5, <1>6, <1>7, <1>8

LEMMA Untouched ==
    ASSUME NEW s \in Change, NEW p, Leaves(s, p), disk' = AfterChange(s)
    PROVE  /\ p \in DOMAIN disk' <=> p \in DOMAIN disk
           /\ p \in DOMAIN disk => disk'[p] = disk[p]
<1>1. s.do \in {"open", "close", "unlink", "rename", "memory"}
  BY DEF Change
<1> QED BY <1>1, Effect DEF Leaves

LEMMA TidyStays ==
    ASSUME NEW s \in Change, Orderly(s), Tidy(disk), disk' = AfterChange(s)
    PROVE  Tidy(disk)'
<1>1. s.do \in {"open", "close", "unlink", "rename", "memory"}
  BY DEF Change
<1>2. Empty \in TextFile
  BY DEF Empty, Text, TextFile
<1>3. SUFFICES ASSUME NEW p \in DOMAIN disk'
      PROVE  /\ p \in FlatPath
             /\ disk'[p] \in IF IsMeta(p) THEN Sidecar \cup {Empty} ELSE TextFile
  BY DEF Tidy
<1>4. CASE s.do = "open"
  BY <1>2, <1>3, <1>4, Effect DEF Orderly, Tidy
<1>5. CASE s.do = "close"
  BY <1>3, <1>5, Effect DEF Orderly, Tidy
<1>6. CASE s.do = "unlink"
  BY <1>3, <1>6, Effect DEF Tidy
<1>7. CASE s.do = "rename"
  <2>1. CASE s.path \in DOMAIN disk
    BY <1>3, <1>7, <2>1, Effect DEF Orderly, Tidy
  <2>2. CASE s.path \notin DOMAIN disk
    BY <1>3, <1>7, <2>2, Effect DEF Tidy
  <2> QED BY <2>1, <2>2
<1>8. CASE s.do = "memory"
  BY <1>3, <1>8, Effect DEF Tidy
<1> QED BY <1>1, <1>4, <1>5, <1>6, <1>7, <1>8

\* The files of different names are different.
LEMMA FilesApart ==
    ASSUME NamesApart, NEW N \in SUBSET Names, NEW n \in Names, n \notin N
    PROVE  \A p \in {filepath(n), undopath(n), temp_path(n)} : p \notin FilesOf(N) \cup CkptPath
<1>1. SUFFICES ASSUME NEW k \in N, NEW p \in {filepath(n), undopath(n), temp_path(n)}
      PROVE  p \notin {filepath(k), metapath(k), undopath(k), temp_path(k)} /\ p \notin CkptPath
  <2>1. \A p \in {filepath(n), undopath(n), temp_path(n)} : p \notin CkptPath
    BY Paths
  <2> QED BY <1>1, <2>1 DEF FilesOf
<1>2. k \in Names /\ k # n
  OBVIOUS
<1>3. /\ filepath(n) # filepath(k) /\ undopath(n) # undopath(k) /\ temp_path(n) # temp_path(k)
      /\ filepath(n) # undopath(k) /\ filepath(n) # temp_path(k) /\ undopath(n) # temp_path(k)
  BY <1>2, Paths
<1>4. filepath(k) # undopath(n) /\ filepath(k) # temp_path(n) /\ undopath(k) # temp_path(n)
  BY <1>2, Paths
<1>5. p \notin CkptPath /\ ~IsMeta(p) /\ IsMeta(metapath(k))
  BY <1>2, Paths
<1>6. p # metapath(k)
  BY <1>5
<1> QED BY <1>3, <1>4, <1>5, <1>6

LEMMA ProperChange ==
    ASSUME NamesApart, NEW N \in SUBSET Names, NEW s \in Change, Proper(s, N)
    PROVE  /\ Orderly(s)
           /\ \A p : p \notin FilesOf(N) \cup CkptPath => Leaves(s, p)
           /\ Tidy(disk) /\ disk' = AfterChange(s) =>
                 \A p \in DOMAIN disk' : IsMeta(p) /\ disk'[p] # Empty =>
                     \/ p \in DOMAIN disk /\ disk'[p] = disk[p]
                     \/ p = metapath(disk'[p].filename)
<1>1. s.do \in {"open", "close", "unlink", "rename", "memory"}
  BY DEF Change
<1>2. s.do = "rename" =>
          \E n \in N : /\ s.path = temp_path(n) /\ s.to = filepath(n)
                       /\ ~IsMeta(s.path) /\ ~IsMeta(s.to) /\ s.to \in FlatPath
                       /\ s.to \in FilesOf(N)
  <2>1. SUFFICES ASSUME s.do = "rename"
        PROVE  \E n \in N : /\ s.path = temp_path(n) /\ s.to = filepath(n)
                            /\ ~IsMeta(s.path) /\ ~IsMeta(s.to) /\ s.to \in FlatPath
                            /\ s.to \in FilesOf(N)
    OBVIOUS
  <2>2. PICK n \in N : s = Rename(temp_path(n), filepath(n), TRUE)
    BY <2>1 DEF Proper
  <2>3. s.path = temp_path(n) /\ s.to = filepath(n)
    BY <2>2 DEF Rename
  <2>4. ~IsMeta(temp_path(n)) /\ ~IsMeta(filepath(n)) /\ filepath(n) \in FlatPath
    BY Paths
  <2>5. filepath(n) \in FilesOf(N)
    BY DEF FilesOf
  <2> QED BY <2>3, <2>4, <2>5
<1>3. Orderly(s)
  BY <1>2 DEF Orderly, Proper
<1>4. \A p : p \notin FilesOf(N) \cup CkptPath => Leaves(s, p)
  BY <1>2 DEF Proper, Leaves
<1>5. ASSUME Tidy(disk), disk' = AfterChange(s), NEW p \in DOMAIN disk', IsMeta(p), disk'[p] # Empty
      PROVE  \/ p \in DOMAIN disk /\ disk'[p] = disk[p]
             \/ p = metapath(disk'[p].filename)
  <2>1. CASE s.do \in {"open", "close"} /\ p = s.path
    <3>1. s.do = "close" /\ disk'[p] = s.content
      BY <1>5, <2>1, Effect
    <3> QED BY <1>5, <2>1, <3>1 DEF Proper
  <2>2. CASE s.do \in {"open", "close"} /\ p # s.path
    BY <1>5, <2>2, Effect
  <2>3. CASE s.do = "unlink"
    BY <1>5, <2>3, Effect
  <2>4. CASE s.do = "rename"
    <3>1. p # s.to
      BY <1>2, <1>5, <2>4
    <3>2. CASE s.path \in DOMAIN disk
      BY <1>5, <2>4, <3>1, <3>2, Effect
    <3>3. CASE s.path \notin DOMAIN disk
      BY <1>5, <2>4, <3>3, Effect
    <3> QED BY <3>2, <3>3
  <2>5. CASE s.do = "memory"
    BY <1>5, <2>5, Effect
  <2> QED BY <1>1, <2>1, <2>2, <2>3, <2>4, <2>5
<1> QED BY <1>3, <1>4, <1>5

-----------------------------------------------------------------------------
(* One change of a document whose text is expected *)

LEMMA TailOf ==
    ASSUME NEW s \in Seq(Change), s # <<>>
    PROVE  /\ Head(s) = s[1] /\ Head(s) \in Change /\ Head(s) \in Range(s) /\ 1 \in DOMAIN s
           /\ Tail(s) \in Seq(Change)
           /\ \A e \in Range(Tail(s)) : e \in Range(s)
           /\ \A i : i \in DOMAIN Tail(s) <=> i \in Nat \ {0} /\ i + 1 \in DOMAIN s
           /\ \A i \in DOMAIN Tail(s) : Tail(s)[i] = s[i + 1]
<1> DEFINE v == Tail(s)
<1>1. v \in Seq(Change) /\ Len(v) = Len(s) - 1 /\ \A i \in 1..Len(v) : v[i] = s[i + 1]
  BY HeadTailProperties
<1>2. Len(s) \in Nat \ {0} /\ DOMAIN s = 1..Len(s) /\ Head(s) = s[1] /\ s[1] \in Change
  OBVIOUS
<1> HIDE DEF v
<1>3. DOMAIN v = 1..(Len(s) - 1)
  BY <1>1, <1>2
<1>4. \A i : i \in DOMAIN v <=> i \in Nat \ {0} /\ i + 1 \in DOMAIN s
  BY <1>2, <1>3
<1>5. \A i \in DOMAIN v : v[i] = s[i + 1]
  BY <1>1, <1>2, <1>3
<1>6. \A e \in Range(v) : e \in Range(s)
  BY <1>4, <1>5 DEF Range
<1>7. Head(s) \in Range(s) /\ 1 \in DOMAIN s
  BY <1>2 DEF Range
<1> QED BY <1>1, <1>2, <1>4, <1>5, <1>6, <1>7 DEF v

\* The change that is made next keeps a text that is expected, and so do those
\* after it.
LEMMA SafeStep ==
    ASSUME NamesApart, NEW n \in Names, NEW t, todo[t] \in Seq(Change), todo[t] # <<>>,
           Safe(n, todo[t], texts[n]), texts'[n] = texts[n],
           disk' = AfterChange(Head(todo[t])),
           \/ todo'[t] = Tail(todo[t])
           \/ /\ todo'[t] = <<>> /\ Head(todo[t]).do = "rename"
              /\ Head(todo[t]).path \notin DOMAIN disk
    PROVE  /\ Kept(n, texts[n])' \/ UndoKept(n, texts[n])'
           /\ Safe(n, todo[t], texts[n])'
<1> DEFINE s == todo[t]
           e == Head(s)
           v == Tail(s)
           T == texts[n]
           w == filepath(n)
           u == undopath(n)
           x == temp_path(n)
<1>1. /\ e = s[1] /\ e \in Change /\ e \in Range(s) /\ 1 \in DOMAIN s
      /\ v \in Seq(Change)
      /\ \A y \in Range(v) : y \in Range(s)
      /\ \A i : i \in DOMAIN v <=> i \in Nat \ {0} /\ i + 1 \in DOMAIN s
      /\ \A i \in DOMAIN v : v[i] = s[i + 1]
  BY TailOf
<1>2. DOMAIN s = 1..Len(s) /\ Len(s) \in Nat
  OBVIOUS
<1>3. Range(<<>>) = {}
  BY DEF Range
<1>4. todo'[t] = v \/ (todo'[t] = <<>> /\ e.do = "rename" /\ e.path \notin DOMAIN disk)
  OBVIOUS
<1>5. disk' = AfterChange(e) /\ texts'[n] = T
  OBVIOUS
<1> HIDE DEF s, e, v, T
<1>6. Range(todo'[t]) \subseteq Range(v)
  BY <1>3, <1>4
<1>7. ASSUME Leaves(e, w) PROVE Kept(n, texts[n])' <=> Kept(n, T)
  <2>1. /\ w \in DOMAIN disk' <=> w \in DOMAIN disk
        /\ w \in DOMAIN disk => disk'[w] = disk[w]
    BY <1>1, <1>5, <1>7, Untouched
  <2> QED BY <1>5, <2>1 DEF Kept, Shown
<1>8. ASSUME Leaves(e, u) PROVE UndoKept(n, texts[n])' <=> UndoKept(n, T)
  <2>1. /\ u \in DOMAIN disk' <=> u \in DOMAIN disk
        /\ u \in DOMAIN disk => disk'[u] = disk[u]
    BY <1>1, <1>5, <1>8, Untouched
  <2> QED BY <1>5, <2>1 DEF UndoKept, Shown
<1>9. CASE Kept(n, T) /\ LeftBy(s, w)
  <2>1. Kept(n, texts[n])' /\ LeftBy(todo'[t], w)
    BY <1>1, <1>6, <1>7, <1>9 DEF LeftBy
  <2> QED BY <2>1 DEF Safe
<1>10. CASE UndoKept(n, T) /\ LeftBy(s, u)
  <2>1. UndoKept(n, texts[n])' /\ LeftBy(todo'[t], u)
    BY <1>1, <1>6, <1>8, <1>10 DEF LeftBy
  <2> QED BY <2>1 DEF Safe
<1>11. CASE Saving(n, s, T)
  <2>1. PICK j \in {1, 2} :
          /\ j \in DOMAIN s /\ s[j].do = "close" /\ s[j].path = u /\ s[j].content.text \in T
          /\ \A i \in DOMAIN s : IF i <= j THEN Leaves(s[i], w) ELSE Leaves(s[i], u)
    BY <1>11 DEF Saving
  <2>2. Leaves(e, w)
    BY <1>1, <2>1
  <2>3. Kept(n, texts[n])'
    BY <1>7, <1>11, <2>2 DEF Saving
  <2>4. CASE j = 1
    <3>1. e.do = "close" /\ e.path = u /\ e.content.text \in T
      BY <1>1, <2>1, <2>4
    <3>2. u \in DOMAIN disk' /\ disk'[u] = e.content
      BY <1>5, <3>1, Effect
    <3>3. UndoKept(n, texts[n])'
      BY <1>5, <3>1, <3>2 DEF UndoKept, Shown
    <3>4. todo'[t] = v
      BY <1>4, <3>1
    <3>5. \A y \in Range(v) : Leaves(y, u)
      <4>1. ASSUME NEW i \in DOMAIN v PROVE Leaves(v[i], u)
        <5>1. i + 1 \in DOMAIN s /\ i \in Nat \ {0} /\ v[i] = s[i + 1]
          BY <1>1, <4>1
        <5>2. ~(i + 1 <= j)
          BY <2>4, <5>1
        <5> QED BY <2>1, <5>1, <5>2
      <4> QED BY <4>1 DEF Range
    <3> QED BY <3>3, <3>4, <3>5 DEF Safe, LeftBy
  <2>5. CASE j = 2
    <3>1. CASE todo'[t] = v
      <4>1. 1 \in DOMAIN v /\ v[1] = s[2]
        <5>1. 1 \in DOMAIN v
          BY <1>1, <2>1, <2>5
        <5> QED BY <1>1, <5>1
      <4>2. \A i \in DOMAIN v : IF i <= 1 THEN Leaves(v[i], w) ELSE Leaves(v[i], u)
        <5>1. ASSUME NEW i \in DOMAIN v PROVE IF i <= 1 THEN Leaves(v[i], w) ELSE Leaves(v[i], u)
          <6>1. i + 1 \in DOMAIN s /\ i \in Nat \ {0} /\ v[i] = s[i + 1]
            BY <1>1, <5>1
          <6>2. i <= 1 <=> i + 1 <= j
            BY <2>5, <6>1
          <6> QED BY <2>1, <6>1, <6>2
        <5> QED BY <5>1
      <4>3. v[1].do = "close" /\ v[1].path = u /\ v[1].content.text \in T
        BY <2>1, <2>5, <4>1
      <4>4. Saving(n, todo[t], texts[n])'
        BY <1>5, <2>3, <3>1, <4>1, <4>2, <4>3 DEF Saving
      <4> QED BY <2>3, <4>4 DEF Safe
    <3>2. CASE todo'[t] = <<>>
      BY <1>3, <2>3, <3>2 DEF Safe, LeftBy
    <3> QED BY <1>4, <3>1, <3>2
  <2> QED BY <2>1, <2>4, <2>5
<1>12. CASE Copying(n, s, T)
  <2>1. PICK j \in DOMAIN s :
          /\ s[j] = Rename(x, w, TRUE)
          /\ \A i \in DOMAIN s : i # j => Leaves(s[i], w)
          /\ IF j = 1
             THEN x \in DOMAIN disk /\ disk[x].text \in T
             ELSE s[j - 1].do = "close" /\ s[j - 1].path = x /\ s[j - 1].content.text \in T
    BY <1>12 DEF Copying
  <2>2. j \in Nat \ {0}
    BY <1>2, <2>1
  <2>3. CASE j = 1
    <3>1. e.do = "rename" /\ e.path = x /\ e.to = w /\ x \in DOMAIN disk /\ disk[x].text \in T
      BY <1>1, <2>1, <2>3 DEF Rename
    <3>2. w \in DOMAIN disk' /\ disk'[w] = disk[x]
      BY <1>5, <3>1, Effect
    <3>3. Kept(n, texts[n])'
      BY <1>5, <3>1, <3>2 DEF Kept, Shown
    <3>4. todo'[t] = v
      BY <1>4, <3>1
    <3>5. \A y \in Range(v) : Leaves(y, w)
      <4>1. ASSUME NEW i \in DOMAIN v PROVE Leaves(v[i], w)
        <5>1. i + 1 \in DOMAIN s /\ i \in Nat \ {0} /\ v[i] = s[i + 1]
          BY <1>1, <4>1
        <5>2. i + 1 # j
          BY <2>3, <5>1
        <5> QED BY <2>1, <5>1, <5>2
      <4> QED BY <4>1 DEF Range
    <3> QED BY <3>3, <3>4, <3>5 DEF Safe, LeftBy
  <2>4. CASE j # 1
    <3>1. Leaves(e, w)
      BY <1>1, <2>1, <2>4
    <3>2. Kept(n, texts[n])'
      BY <1>7, <1>12, <3>1 DEF Copying
    <3>3. CASE todo'[t] = v
      <4> DEFINE k == j - 1
      <4>1. k \in DOMAIN v /\ v[k] = s[j] /\ k \in Nat \ {0}
        <5>1. k \in Nat \ {0} /\ k + 1 = j
          BY <2>2, <2>4
        <5> HIDE DEF k
        <5>2. k \in DOMAIN v
          BY <1>1, <2>1, <5>1
        <5> QED BY <1>1, <5>1, <5>2
      <4>2. \A i \in DOMAIN v : i # k => Leaves(v[i], w)
        <5>1. ASSUME NEW i \in DOMAIN v, i # k PROVE Leaves(v[i], w)
          <6>1. i + 1 \in DOMAIN s /\ i \in Nat \ {0} /\ v[i] = s[i + 1]
            BY <1>1, <5>1
          <6>2. i + 1 # j
            BY <2>2, <5>1, <6>1
          <6> QED BY <2>1, <6>1, <6>2
        <5> QED BY <5>1
      <4>3. CASE k = 1
        <5>1. e.do = "close" /\ e.path = x /\ e.content.text \in T
          <6>1. j - 1 = 1
            BY <4>3
          <6> QED BY <1>1, <2>1, <2>4, <6>1
        <5>2. x \in DOMAIN disk' /\ disk'[x] = e.content
          BY <1>5, <5>1, Effect
        <5>3. Copying(n, todo[t], texts[n])'
          <6> HIDE DEF k
          <6> QED BY <1>5, <2>1, <3>2, <3>3, <4>1, <4>2, <4>3, <5>1, <5>2 DEF Copying
        <5> QED BY <3>2, <5>3 DEF Safe
      <4>4. CASE k # 1
        <5>1. k - 1 \in DOMAIN v /\ v[k - 1] = s[j - 1]
          <6>1. k - 1 \in Nat \ {0} /\ (k - 1) + 1 = j - 1 /\ j - 1 \in DOMAIN s
            BY <1>2, <2>1, <4>1, <4>4
          <6> HIDE DEF k
          <6>2. k - 1 \in DOMAIN v
            BY <1>1, <6>1
          <6> QED BY <1>1, <6>1, <6>2
        <5>2. v[k - 1].do = "close" /\ v[k - 1].path = x /\ v[k - 1].content.text \in T
          BY <2>1, <2>4, <5>1
        <5>3. Copying(n, todo[t], texts[n])'
          <6> HIDE DEF k
          <6> QED BY <1>5, <2>1, <3>2, <3>3, <4>1, <4>2, <4>4, <5>2 DEF Copying
        <5> QED BY <3>2, <5>3 DEF Safe
      <4> QED BY <4>3, <4>4
    <3>4. CASE todo'[t] = <<>>
      BY <1>3, <3>2, <3>4 DEF Safe, LeftBy
    <3> QED BY <1>4, <3>3, <3>4
  <2> QED BY <2>3, <2>4
<1>13. Safe(n, s, T)
  BY DEF s, T
<1> QED BY <1>9, <1>10, <1>11, <1>12, <1>13 DEF Safe

-----------------------------------------------------------------------------
(* A change is made *)

LEMMA StepFacts ==
    ASSUME IInv, NEW t \in Threads, Step(t)
    PROVE  LET s == Head(todo[t])
           IN  /\ todo[t] \in Seq(Change) /\ todo[t] # <<>>
               /\ s \in Change /\ s \in Range(todo[t])
               /\ Busy(t) /\ Working(t) /\ ok[t] /\ on[t] \in Recs
               /\ disk' = AfterChange(s)
               /\ rec' = IF s.do = "memory" /\ on[t] \in files
                         THEN [rec EXCEPT ![on[t]] = s.record] ELSE rec
               /\ \/ todo'[t] = Tail(todo[t]) /\ ok' = ok
                  \/ /\ todo'[t] = <<>> /\ ok' = [ok EXCEPT ![t] = FALSE]
                     /\ s.do = "rename" /\ s.must /\ s.path \notin DOMAIN disk
               /\ \A u \in Threads : u # t => todo'[u] = todo[u] /\ ok'[u] = ok[u]
               /\ \E x \in Seq(Change) : todo' = [todo EXCEPT ![t] = x]
               /\ \A e \in Range(todo'[t]) : e \in Range(todo[t])
               /\ UNCHANGED <<files, files_lock, file_lock, op, on, now, docs, touch, lost, texts>>
<1> DEFINE s == Head(todo[t])
           fails == s.do = "rename" /\ s.path \notin DOMAIN disk
<1>1. todo[t] \in Seq(Change) /\ todo[t] # <<>> /\ DOMAIN todo = Threads /\ DOMAIN ok = Threads
  BY DEF Step, IInv, Types
<1>2. /\ s \in Change /\ s \in Range(todo[t]) /\ Tail(todo[t]) \in Seq(Change)
      /\ \A e \in Range(Tail(todo[t])) : e \in Range(todo[t])
  BY <1>1, TailOf
<1>3. Busy(t) /\ Working(t) /\ ok[t] /\ on[t] \in Recs
  BY <1>1 DEF IInv, Handlers, Handler, Working
<1>4. /\ rec' = IF s.do = "memory" /\ on[t] \in files
                THEN [rec EXCEPT ![on[t]] = s.record] ELSE rec
      /\ IF fails /\ s.must
         THEN todo' = [todo EXCEPT ![t] = <<>>] /\ ok' = [ok EXCEPT ![t] = FALSE]
         ELSE todo' = [todo EXCEPT ![t] = Tail(@)] /\ ok' = ok
      /\ UNCHANGED <<files, files_lock, file_lock, op, on, now, docs, touch, lost, texts>>
  BY DEF Step, history
<1>5. disk' = AfterChange(s)
  BY DEF Step, AfterChange
<1>6. <<>> \in Seq(Change) /\ Range(<<>>) = {}
  BY DEF Range
<1> HIDE DEF s
<1>7. CASE fails /\ s.must
  <2>1. todo' = [todo EXCEPT ![t] = <<>>] /\ ok' = [ok EXCEPT ![t] = FALSE]
    BY <1>4, <1>7
  <2> QED BY <1>1, <1>2, <1>3, <1>4, <1>5, <1>6, <1>7, <2>1 DEF s
<1>8. CASE ~(fails /\ s.must)
  <2>1. todo' = [todo EXCEPT ![t] = Tail(@)] /\ ok' = ok
    BY <1>4, <1>8
  <2> QED BY <1>1, <1>2, <1>3, <1>4, <1>5, <2>1 DEF s
<1> QED BY <1>7, <1>8

\* Whatever the request, a change that stays within its names keeps the types,
\* the handlers and the texts in order.
LEMMA StepRest ==
    ASSUME NamesApart, IInv, NEW t \in Threads, Step(t), Orderly(Head(todo[t])),
           \A p : p \notin FilesOf(Own(t)) \cup CkptPath => Leaves(Head(todo[t]), p),
           rec' \in [Recs -> FileRecord]
    PROVE  Types' /\ Handlers' /\ TextsSafe'
<1> DEFINE s == Head(todo[t])
<1>1. /\ todo[t] \in Seq(Change) /\ todo[t] # <<>> /\ s \in Change /\ s \in Range(todo[t])
      /\ Busy(t) /\ Working(t) /\ ok[t]
      /\ disk' = AfterChange(s)
      /\ UNCHANGED <<files, files_lock, file_lock, op, on, now, docs, touch, lost, texts>>
  BY StepFacts
<1>2. \/ todo'[t] = Tail(todo[t]) /\ ok' = ok
      \/ /\ todo'[t] = <<>> /\ ok' = [ok EXCEPT ![t] = FALSE]
         /\ s.do = "rename" /\ s.path \notin DOMAIN disk
  BY StepFacts
<1>3. \A u \in Threads : u # t => todo'[u] = todo[u] /\ ok'[u] = ok[u]
  BY StepFacts
<1>4. \E x \in Seq(Change) : todo' = [todo EXCEPT ![t] = x]
  BY StepFacts
<1> HIDE DEF s
<1>5. Types'
  <2>1. Tidy(disk)'
    BY <1>1, TidyStays DEF IInv, Types, s
  <2>2. todo' \in [Threads -> Seq(Change)]
    BY <1>4 DEF IInv, Types
  <2>3. ok' \in [Threads -> BOOLEAN]
    BY <1>2 DEF IInv, Types
  <2> QED BY <1>1, <2>1, <2>2, <2>3 DEF IInv, Types
<1>6. Handlers'
  <2>1. SUFFICES ASSUME NEW u \in Threads
        PROVE  Handler(u)'
    BY DEF Handlers
  <2>2. /\ Busy(u)' <=> Busy(u)
        /\ Locking(u)' <=> Locking(u)
        /\ Working(u)' <=> Working(u)
    BY <1>1 DEF Busy, Locking, Working
  <2>3. touch'[u] = {} \/ ~ok'[u] => todo'[u] = <<>>
    <3>1. CASE u = t
      BY <1>1, <1>2, <3>1 DEF Working
    <3>2. CASE u # t
      BY <1>1, <1>3, <3>2 DEF IInv, Handlers, Handler
    <3> QED BY <3>1, <3>2
  <2>4. Busy(u) /\ ~Locking(u) => ok'[u]
    <3>1. CASE u = t
      <4>1. SUFFICES ASSUME ~Locking(t) PROVE ok'[t]
        BY <1>1, <3>1
      <4>2. s.do # "rename"
        BY <1>1, <4>1 DEF IInv, Confined, Planned, Locking
      <4> QED BY <1>1, <1>2, <4>2
    <3>2. CASE u # t
      BY <1>3, <3>2 DEF IInv, Handlers, Handler
    <3> QED BY <3>1, <3>2
  <2> QED BY <1>1, <2>2, <2>3, <2>4 DEF IInv, Handlers, Handler
<1>7. TextsSafe'
  <2>1. SUFFICES ASSUME NEW n \in DOMAIN texts
        PROVE  /\ Kept(n, texts[n])' \/ UndoKept(n, texts[n])'
               /\ \A u \in Threads : n \in touch'[u] => Safe(n, todo[u], texts[n])'
    BY <1>1 DEF TextsSafe
  <2>2. n \in Names /\ texts'[n] = texts[n]
    BY <1>1 DEF IInv, Types
  <2>3. CASE n \in touch[t]
    <3>1. Safe(n, todo[t], texts[n])
      BY <2>3 DEF IInv, TextsSafe
    <3>2. /\ Kept(n, texts[n])' \/ UndoKept(n, texts[n])'
          /\ Safe(n, todo[t], texts[n])'
      BY <1>1, <1>2, <2>2, <3>1, SafeStep DEF s
    <3>3. ASSUME NEW u \in Threads, n \in touch'[u] PROVE u = t
      BY <1>1, <2>3, <3>3, OneWorker
    <3> QED BY <3>2, <3>3
  <2>4. CASE n \notin touch[t]
    <3>1. Own(t) \in SUBSET Names /\ n \notin Own(t)
      BY <2>4 DEF Own
    <3>2. \A p \in {filepath(n), undopath(n), temp_path(n)} :
              /\ p \in DOMAIN disk' <=> p \in DOMAIN disk
              /\ p \in DOMAIN disk => disk'[p] = disk[p]
      <4>1. \A p \in {filepath(n), undopath(n), temp_path(n)} : Leaves(s, p)
        BY <2>2, <3>1, FilesApart DEF s
      <4> QED BY <1>1, <4>1, Untouched
    <3>3. Kept(n, texts[n])' \/ UndoKept(n, texts[n])'
      <4>1. Kept(n, texts[n]) \/ UndoKept(n, texts[n])
        BY DEF IInv, TextsSafe
      <4> QED BY <2>2, <3>2, <4>1 DEF Kept, UndoKept, Shown
    <3>4. ASSUME NEW u \in Threads, n \in touch'[u] PROVE Safe(n, todo[u], texts[n])'
      <4>1. n \in touch[u] /\ u # t
        BY <1>1, <2>4, <3>4
      <4>2. Safe(n, todo[u], texts[n]) /\ todo'[u] = todo[u]
        BY <1>3, <4>1 DEF IInv, TextsSafe
      <4> QED BY <2>2, <3>2, <4>2, SafeStays
    <3> QED BY <3>3, <3>4
  <2> QED BY <2>3, <2>4
<1> QED BY <1>5, <1>6, <1>7

LEMMA OtherStepKeeps ==
    ASSUME NamesApart, IInv, NEW t \in Threads, Step(t), op[t].do # "rename"
    PROVE  IInv'
<1> DEFINE s == Head(todo[t])
<1>1. /\ s \in Change /\ s \in Range(todo[t])
      /\ Busy(t) /\ Working(t) /\ on[t] \in Recs
      /\ disk' = AfterChange(s)
      /\ rec' = IF s.do = "memory" /\ on[t] \in files
                THEN [rec EXCEPT ![on[t]] = s.record] ELSE rec
      /\ \A u \in Threads : u # t => todo'[u] = todo[u] /\ ok'[u] = ok[u]
      /\ \A e \in Range(todo'[t]) : e \in Range(todo[t])
      /\ UNCHANGED <<files, files_lock, file_lock, op, on, now, docs, touch, lost, texts>>
  BY StepFacts
<1> HIDE DEF s
<1>2. Proper(s, Own(t)) /\ Own(t) \in SUBSET Names
  BY <1>1 DEF IInv, Confined, Planned, Own
<1>3. /\ Orderly(s)
      /\ \A p : p \notin FilesOf(Own(t)) \cup CkptPath => Leaves(s, p)
      /\ \A p \in DOMAIN disk' : IsMeta(p) /\ disk'[p] # Empty =>
            \/ p \in DOMAIN disk /\ disk'[p] = disk[p]
            \/ p = metapath(disk'[p].filename)
  BY <1>1, <1>2, ProperChange DEF IInv, Types
<1>4. /\ rec' \in [Recs -> FileRecord]
      /\ \A r \in Recs : rec'[r].filename = rec[r].filename
      /\ \A r \in Recs : r \notin files => rec'[r] = rec[r]
      /\ \A r \in Recs : rec'[r] # rec[r] => Locking(t) /\ r = on[t]
  <2>1. CASE s.do = "memory" /\ on[t] \in files
    <3>1. Locking(t)
      BY <1>1, <2>1 DEF IInv, Confined, Planned, Locking
    <3>2. Own(t) = {rec[on[t]].filename}
      BY <1>1, <2>1, <3>1 DEF IInv, Records, RecordOf
    <3>3. s.record \in Sidecar /\ s.record.filename \in Own(t)
      BY <1>1, <1>2, <2>1 DEF Proper, Change
    <3>4. s.record \in FileRecord /\ s.record.filename = rec[on[t]].filename
      BY <3>2, <3>3 DEF Sidecar
    <3> QED BY <1>1, <2>1, <3>1, <3>4 DEF IInv, Types
  <2>2. CASE ~(s.do = "memory" /\ on[t] \in files)
    BY <1>1, <2>2 DEF IInv, Types
  <2> QED BY <2>1, <2>2
<1>5. Types' /\ Handlers' /\ TextsSafe'
  BY <1>3, <1>4, StepRest DEF s
<1>6. \A u \in Threads : /\ Busy(u)' <=> Busy(u)
                         /\ Locking(u)' <=> Locking(u)
                         /\ Working(u)' <=> Working(u)
                         /\ Own(u)' = Own(u)
                         /\ Busy(u) => on[u] \in Recs
  BY <1>1 DEF Busy, Locking, Working, Own, IInv, Handlers, Handler
<1>7. \A k : Good(k)' <=> Good(k)
  BY <1>1 DEF Good
<1>8. Records'
  <2>1. SUFFICES ASSUME NEW u \in Threads, Locking(u)'
        PROVE  RecordOf(u)'
    BY DEF Records
  <2>2. Locking(u) /\ on[u] \in Recs
    BY <1>6, <2>1 DEF Locking
  <2> QED BY <1>1, <1>4, <1>6, <1>7, <2>2 DEF IInv, Records, RecordOf
<1>9. Confined'
  <2>1. SUFFICES ASSUME NEW u \in Threads, NEW e \in Range(todo'[u])
        PROVE  Planned(u, e)'
    BY DEF Confined
  <2>2. e \in Range(todo[u])
    BY <1>1, <2>1
  <2>3. Own(u)' = Own(u) /\ op'[u] = op[u]
    BY <1>1, <1>6
  <2> QED BY <2>2, <2>3 DEF IInv, Confined, Planned
<1>10. Sidecars'
  <2>1. \A m, p : Between(m, p) => Between(m, p)'
    <3>1. CASE t = NS
      BY <3>1 DEF Between
    <3>2. CASE t # NS
      BY <1>1, <1>6, <3>2 DEF Between, Threads
    <3> QED BY <3>1, <3>2
  <2> QED BY <1>3, <1>7, <2>1 DEF IInv, Sidecars
<1>11. files \subseteq Recs /\ NS \in Threads
  BY DEF IInv, Types, Threads
<1>12. Unique'
  BY <1>1, <1>4, <1>7, <1>11 DEF IInv, Unique
<1>13. Creating'
  BY <1>1, <1>4, <1>6, <1>11 DEF IInv, Creating
<1>14. Deleting'
  <2>1. \A c \in Clients : Own(c)' = Own(c)
    BY <1>6 DEF Threads
  <2> QED BY <1>1, <1>4, <1>6, <1>7, <1>11, <2>1 DEF IInv, Deleting
<1>15. Renaming'
  <2>1. SUFFICES ASSUME Busy(NS), op[NS].do = "rename" PROVE Renaming'
    BY <1>1, <1>6, <1>11 DEF Renaming
  <2>2. t # NS /\ Locking(NS)
    BY <2>1 DEF Locking
  <2>3. Working(NS) => rec'[on[NS]] = rec[on[NS]]
    <3>1. SUFFICES ASSUME Working(NS), rec'[on[NS]] # rec[on[NS]] PROVE FALSE
      OBVIOUS
    <3>2. on[NS] = on[t] /\ Locking(t)
      BY <1>4, <1>6, <1>11, <2>1, <3>1
    <3>3. file_lock[on[NS]] = NS /\ file_lock[on[t]] = t
      BY <1>1, <1>11, <2>2, <3>1, <3>2 DEF IInv, Handlers, Handler
    <3> QED BY <2>2, <3>2, <3>3
  <2>4. todo'[NS] = todo[NS] /\ ok'[NS] = ok[NS]
    BY <1>1, <1>11, <2>2
  <2>5. \A r \in files : rec'[r].filename = rec[r].filename
    BY <1>4, <1>11
  <2>6. CASE Working(NS)
    BY <1>1, <1>6, <1>11, <2>1, <2>3, <2>4, <2>5, <2>6, SMTT(30) DEF IInv, Renaming
  <2>7. CASE ~Working(NS)
    BY <1>1, <1>6, <1>11, <2>1, <2>5, <2>7 DEF IInv, Renaming
  <2> QED BY <2>6, <2>7
<1> QED BY <1>5, <1>8, <1>9, <1>10, <1>12, <1>13, <1>14, <1>15 DEF IInv

\* The lengths of what is left.
LEMMA RenameShorter ==
    ASSUME NamesApart, NEW q \in Sidecar, NEW n \in Names, NEW b \in Names, NEW k \in 0..5
    PROVE  RenameShrinks(n, b, q, k)
<1>1. k \in 0..6 /\ k < 6 /\ k + 1 \in 0..6 /\ 6 - (k + 1) = 5 - k
  OBVIOUS
<1>2. Tail(RenameRest(n, b, q, k)) = RenameRest(n, b, q, k + 1)
  BY <1>1, RenameLeft
<1>3. Len(RenameRest(n, b, q, k)) = 6 - k
  BY <1>1, RenameLeft
<1>4. Len(RenameRest(n, b, q, k + 1)) = 6 - (k + 1)
  BY <1>1, RenameLeft
<1> QED BY <1>1, <1>2, <1>3, <1>4 DEF RenameShrinks

LEMMA RenameOver ==
    ASSUME NamesApart, NEW q \in Sidecar, NEW n \in Names, NEW b \in Names
    PROVE  RenameRest(n, b, q, 6) = <<>>
<1>1. \A k \in 0..6 : k = 6 => RenameRest(n, b, q, k) = <<>>
  BY RenameLeft
<1> QED BY <1>1

\* The k-th change of a rename.
LEMMA RenameChange ==
    ASSUME NamesApart, NEW n \in Names, NEW b \in Names, NEW q \in Sidecar, q.filename = b,
           NEW k \in 0..5
    PROVE  RenameStep(Head(RenameRest(n, b, q, k)), n, b, q, k)
<1> DEFINE s == Head(RenameRest(n, b, q, k))
<1>1. /\ k = 0 => s = Rename(filepath(n), filepath(b), TRUE)
      /\ k = 1 => s = Rename(metapath(n), metapath(b), FALSE)
      /\ k = 2 => s = Rename(undopath(n), undopath(b), FALSE)
      /\ k = 3 => s = Memory(q)
      /\ k = 4 => s = Open(metapath(b))
      /\ k = 5 => s = Close(metapath(b), q)
  <2>1. k \in 0..6 /\ k < 6
    OBVIOUS
  <2> QED BY <2>1, RenameLeft, ZenonT(60)
<1> HIDE DEF s
<1>2. /\ k = 0 => s.do = "rename" /\ s.path = filepath(n) /\ s.to = filepath(b)
      /\ k = 1 => s.do = "rename" /\ s.path = metapath(n) /\ s.to = metapath(b)
      /\ k = 2 => s.do = "rename" /\ s.path = undopath(n) /\ s.to = undopath(b)
      /\ k = 3 => s.do = "memory"
      /\ k \in {1, 2} => ~s.must
      /\ k = 4 => s.do = "open" /\ s.path = metapath(b)
      /\ k = 5 => s.do = "close" /\ s.path = metapath(b) /\ s.content = q
  BY <1>1 DEF Rename, Memory, Open, Close
<1>3. k = 0 \/ k = 1 \/ k = 2 \/ k = 3 \/ k = 4 \/ k = 5
  OBVIOUS
<1>4. \A m \in {n, b} : {filepath(m), metapath(m), undopath(m)} \subseteq FilesOf({n, b})
  BY DEF FilesOf
<1>5. \A p : p \notin FilesOf({n, b}) => Leaves(s, p)
  BY <1>2, <1>3, <1>4 DEF Leaves
<1>6. Orderly(s)
  <2>1. \A m \in {n, b} : /\ {filepath(m), metapath(m), undopath(m)} \subseteq FlatPath
                          /\ IsMeta(metapath(m)) /\ ~IsMeta(filepath(m)) /\ ~IsMeta(undopath(m))
    BY Paths
  <2> QED BY <1>2, <1>3, <2>1 DEF Orderly
<1> QED BY <1>1, <1>2, <1>3, <1>5, <1>6 DEF RenameStep, s

LEMMA RenameStepKeeps ==
    ASSUME NamesApart, IInv, NEW t \in Threads, Step(t), op[t].do = "rename"
    PROVE  IInv'
<1> DEFINE s == Head(todo[NS])
           b == op[NS].to
           r == on[NS]
           q == [rec[r] EXCEPT !.filename = b]
<1>1. /\ todo[t] \in Seq(Change) /\ todo[t] # <<>> /\ Head(todo[t]) \in Change
      /\ Busy(t) /\ Working(t) /\ ok[t] /\ on[t] \in Recs
      /\ UNCHANGED <<files, files_lock, file_lock, op, on, now, docs, touch, lost, texts>>
  BY StepFacts
<1>2. t = NS
  BY <1>1, NoOpApart DEF IInv, Requests
<1>3. /\ disk' = AfterChange(s)
      /\ rec' = IF s.do = "memory" /\ r \in files THEN [rec EXCEPT ![r] = s.record] ELSE rec
      /\ \/ todo'[NS] = Tail(todo[NS]) /\ ok' = ok
         \/ /\ todo'[NS] = <<>> /\ ok' = [ok EXCEPT ![NS] = FALSE]
            /\ s.do = "rename" /\ s.must /\ s.path \notin DOMAIN disk
      /\ \A u \in Threads : u # NS => todo'[u] = todo[u] /\ ok'[u] = ok[u]
      /\ \A e \in Range(todo'[NS]) : e \in Range(todo[NS])
  BY <1>2, StepFacts
<1>4. /\ b \notin DOMAIN docs /\ r \in files
      /\ \A x \in files : rec[x].filename = b => x = r
  BY <1>1, <1>2 DEF IInv, Renaming
<1>5. PICK n \in Names :
          /\ touch[NS] = {n, b} /\ n # b /\ n \notin DOMAIN texts
          /\ \E k \in 0..6 :
                /\ todo[NS] = RenameRest(n, b, q, k)
                /\ rec[r].filename = IF k >= 4 THEN b ELSE n
  BY <1>1, <1>2 DEF IInv, Renaming
<1>6. PICK k \in 0..6 :
          /\ todo[NS] = RenameRest(n, b, q, k)
          /\ rec[r].filename = IF k >= 4 THEN b ELSE n
  BY <1>5
<1>7. /\ b \in Names /\ Own(NS) = {n, b}
      /\ rec[r] \in FileRecord /\ q \in Sidecar /\ q.filename = b
      /\ [q EXCEPT !.filename = b] = q /\ [rec[r] EXCEPT !.filename = b] = q
  <2>1. op[NS] \in Commands
    BY <1>1, <1>2, NoOpApart DEF IInv, Creates, Deletes
  <2>2. b \in Names
    BY <1>1, <1>2, <2>1 DEF Commands
  <2>3. b \in Seq(Token) /\ b # <<>>
    BY <2>2, NameTypes
  <2>4. rec[r] \in FileRecord
    BY <1>1, <1>2 DEF IInv, Types
  <2>5. q \in Sidecar /\ q.filename = b /\ [q EXCEPT !.filename = b] = q
    BY <2>3, <2>4 DEF Sidecar, FileRecord
  <2> QED BY <1>5, <2>2, <2>4, <2>5 DEF Own
<1> HIDE DEF q
<1>8. /\ k \in 0..5 /\ k + 1 \in 0..6
      /\ Tail(todo[NS]) = RenameRest(n, b, q, k + 1)
      /\ Len(todo[NS]) = 6 - k
      /\ k < 5 => Len(Tail(todo[NS])) = 5 - k
  <2> HIDE DEF b
  <2>1. RenameRest(n, b, q, 6) = <<>>
    BY <1>7, RenameOver, Zenon
  <2>2. k # 6
    BY <1>1, <1>2, <1>6, <2>1
  <2>3. k \in 0..5
    BY <2>2
  <2>4. RenameShrinks(n, b, q, k)
    BY <1>7, <2>3, RenameShorter, Zenon
  <2>5. k + 1 \in 0..6
    BY <2>3
  <2>6. todo[NS] = RenameRest(n, b, q, k)
    BY <1>6
  <2> QED BY <2>3, <2>4, <2>5, <2>6, Zenon DEF RenameShrinks
<1>9. /\ Orderly(s)
      /\ \A p : p \notin FilesOf({n, b}) => Leaves(s, p)
      /\ s.do = "memory" <=> k = 3
      /\ k = 3 => s = Memory(q)
      /\ k = 0 => s.do = "rename" /\ s.path = filepath(n) /\ s.to = filepath(b)
      /\ k = 1 => s.do = "rename" /\ s.path = metapath(n) /\ s.to = metapath(b)
      /\ k = 2 => s.do = "rename" /\ s.path = undopath(n) /\ s.to = undopath(b)
      /\ k \in {1, 2} => ~s.must
      /\ k = 4 => s.do = "open" /\ s.path = metapath(b)
      /\ k = 5 => s.do = "close" /\ s.path = metapath(b) /\ s.content = q
  <2>1. s = Head(RenameRest(n, b, q, k))
    BY <1>6
  <2> HIDE DEF s, b
  <2>2. RenameStep(Head(RenameRest(n, b, q, k)), n, b, q, k)
    BY <1>7, <1>8, RenameChange, Zenon
  <2> QED BY <2>1, <2>2 DEF RenameStep
<1> HIDE DEF s, b
<1>10. /\ rec' \in [Recs -> FileRecord]
       /\ \A x \in Recs : x # r => rec'[x] = rec[x]
       /\ k = 3 => rec'[r] = q
       /\ k # 3 => rec'[r] = rec[r]
  <2>1. k = 3 => s.record = q
    BY <1>9 DEF Memory
  <2>2. q \in FileRecord
    BY <1>7 DEF Sidecar
  <2> QED BY <1>1, <1>2, <1>3, <1>4, <1>9, <2>1, <2>2 DEF IInv, Types
<1>11. rec'[r].filename = IF k + 1 >= 4 THEN b ELSE n
  BY <1>6, <1>7, <1>8, <1>10
<1>12. Types' /\ Handlers' /\ TextsSafe'
  BY <1>2, <1>7, <1>9, <1>10, StepRest DEF s
<1>13. \A u \in Threads : /\ Busy(u)' <=> Busy(u)
                          /\ Locking(u)' <=> Locking(u)
                          /\ Working(u)' <=> Working(u)
                          /\ Own(u)' = Own(u)
                          /\ Busy(u) => on[u] \in Recs
  BY <1>1 DEF Busy, Locking, Working, Own, IInv, Handlers, Handler
<1>14. \A x : Good(x)' <=> Good(x)
  BY <1>1 DEF Good
<1>15. files \subseteq Recs /\ NS \in Threads
  BY DEF IInv, Types, Threads
<1>16. rec'[r].filename \in Names
  BY <1>7, <1>11
<1>17. Records'
  <2>1. SUFFICES ASSUME NEW u \in Threads, Locking(u)'
        PROVE  RecordOf(u)'
    BY DEF Records
  <2>2. Locking(u) /\ on[u] \in Recs
    BY <1>13, <2>1 DEF Locking
  <2>3. CASE on[u] # r
    BY <1>1, <1>10, <1>13, <1>14, <2>2, <2>3 DEF IInv, Records, RecordOf
  <2>4. CASE on[u] = r
    <3>1. Working(u) => u = NS
      <4>1. SUFFICES ASSUME Working(u) PROVE u = NS
        OBVIOUS
      <4>2. Locking(NS)
        BY <1>1, <1>2 DEF Locking
      <4>3. file_lock[r] = NS /\ file_lock[on[u]] = u
        BY <1>1, <1>2, <1>15, <2>2, <4>1, <4>2 DEF IInv, Handlers, Handler
      <4> QED BY <2>4, <4>3
    <3> QED BY <1>1, <1>2, <1>4, <1>13, <1>16, <2>4, <3>1 DEF RecordOf
  <2> QED BY <2>3, <2>4
<1>18. Confined'
  <2>1. SUFFICES ASSUME NEW u \in Threads, NEW e \in Range(todo'[u])
        PROVE  Planned(u, e)'
    BY DEF Confined
  <2>2. CASE u = NS
    BY <1>1, <1>2, <2>2 DEF Planned
  <2>3. CASE u # NS
    <3>1. op'[u] = op[u] /\ e \in Range(todo[u]) /\ Own(u)' = Own(u)
      BY <1>1, <1>3, <1>13, <2>1, <2>3
    <3> QED BY <3>1 DEF IInv, Confined, Planned
  <2> QED BY <2>2, <2>3
<1>19. Sidecars'
  <2>1. SUFFICES ASSUME NEW p \in DOMAIN disk', IsMeta(p), disk'[p] # Empty,
                        NEW m, m = disk'[p].filename, Good(m)
        PROVE  p = metapath(m) \/ Between(m, p)'
    BY <1>14 DEF Sidecars
  <2>2. m \in Names
    BY <2>1 DEF Good
  <2>3. /\ ~IsMeta(filepath(b)) /\ ~IsMeta(undopath(b))
        /\ \A x \in Names : metapath(n) = metapath(x) => x = n
    BY <1>7, Paths
  <2>4. k \in 1..3 /\ m \in {n, b} /\ p = metapath(b) => Between(m, p)'
    <3>1. SUFFICES ASSUME k \in 1..3, m \in {n, b}, p = metapath(b) PROVE Between(m, p)'
      OBVIOUS
    <3>2. CASE todo'[NS] = Tail(todo[NS])
      <4>1. Len(todo'[NS]) \in 2..4
        <5> DEFINE v == Tail(todo[NS])
        <5>1. (k < 5 => Len(v) = 5 - k) /\ todo'[NS] = v
          BY <1>8, <3>2
        <5> HIDE DEF v
        <5>2. Len(v) = 5 - k /\ 5 - k \in 2..4
          BY <1>8, <3>1, <5>1
        <5> QED BY <5>1, <5>2
      <4> QED BY <1>1, <1>2, <1>5, <1>13, <1>15, <3>1, <4>1 DEF Between, b
    <3>3. ~(s.do = "rename" /\ s.must)
      BY <1>9, <3>1
    <3> QED BY <1>3, <3>2, <3>3
  <2>5. ASSUME p \in DOMAIN disk, disk'[p] = disk[p]
        PROVE  p = metapath(m) \/ Between(m, p)'
    <3>1. p = metapath(m) \/ Between(m, p)
      BY <1>14, <2>1, <2>5 DEF IInv, Sidecars
    <3>2. ASSUME Between(m, p), p # metapath(m) PROVE k \in 2..4 /\ m \in {n, b} /\ p = metapath(b)
      BY <1>5, <1>8, <3>2 DEF Between, b
    <3>3. k = 4 => p # metapath(b)
      BY <1>3, <1>9, <2>1, Effect
    <3>4. k \in 2..4 /\ k # 4 => k \in 1..3
      OBVIOUS
    <3> QED BY <2>4, <3>1, <3>2, <3>3, <3>4
  <2>6. CASE k \in {0, 2}
    <3>1. p # s.to /\ s.do = "rename"
      BY <1>9, <2>1, <2>3, <2>6
    <3>2. p \in DOMAIN disk /\ disk'[p] = disk[p]
      BY <1>3, <2>1, <3>1, Effect
    <3> QED BY <2>5, <3>2
  <2>7. CASE k = 1
    <3>1. CASE s.path \in DOMAIN disk /\ p = s.to
      <4>1. disk'[p] = disk[metapath(n)] /\ metapath(n) \in DOMAIN disk
        BY <1>3, <1>9, <2>7, <3>1, Effect
      <4>2. IsMeta(metapath(n))
        BY Paths
      <4>3. metapath(n) = metapath(m) \/ Between(m, metapath(n))
        BY <1>14, <2>1, <4>1, <4>2 DEF IInv, Sidecars
      <4>4. ~Between(m, metapath(n))
        BY <1>8, <2>7 DEF Between
      <4>5. m = n /\ p = metapath(b)
        BY <1>9, <2>2, <2>3, <2>7, <3>1, <4>3, <4>4
      <4> QED BY <2>4, <2>7, <4>5
    <3>2. CASE ~(s.path \in DOMAIN disk /\ p = s.to)
      <4>1. p \in DOMAIN disk /\ disk'[p] = disk[p]
        BY <1>3, <1>9, <2>1, <2>7, <3>2, Effect
      <4> QED BY <2>5, <4>1
    <3> QED BY <3>1, <3>2
  <2>8. CASE k = 3
    <3>1. p \in DOMAIN disk /\ disk'[p] = disk[p]
      BY <1>3, <1>9, <2>1, <2>8, Effect
    <3> QED BY <2>5, <3>1
  <2>9. CASE k \in {4, 5}
    <3>1. CASE p = s.path
      <4>1. k = 5 /\ disk'[p] = q
        BY <1>3, <1>9, <2>1, <2>9, <3>1, Effect
      <4> QED BY <1>7, <1>9, <2>1, <3>1, <4>1
    <3>2. CASE p # s.path
      <4>1. p \in DOMAIN disk /\ disk'[p] = disk[p]
        BY <1>3, <1>9, <2>1, <2>9, <3>2, Effect
      <4> QED BY <2>5, <4>1
    <3> QED BY <3>1, <3>2
  <2>10. k \in {0, 2} \/ k = 1 \/ k = 3 \/ k \in {4, 5}
    BY <1>8
  <2> QED BY <2>6, <2>7, <2>8, <2>9, <2>10
<1>20. Unique'
  <2>1. SUFFICES ASSUME NEW x \in files, NEW y \in files,
                        rec'[x].filename = rec'[y].filename, Good(rec'[x].filename)
        PROVE  x = y
    BY <1>1, <1>14 DEF Unique
  <2>2. CASE k = 3
    <3>1. \A z \in files : z # r => rec'[z].filename # b
      BY <1>4, <1>10, <1>15
    <3>2. rec'[r].filename = b
      BY <1>7, <1>10, <2>2
    <3>3. x # r /\ y # r => x = y
      BY <1>10, <1>15, <2>1 DEF IInv, Unique
    <3> QED BY <2>1, <3>1, <3>2, <3>3
  <2>3. CASE k # 3
    <3>1. \A z \in files : rec'[z] = rec[z]
      BY <1>10, <1>15, <2>3
    <3> QED BY <2>1, <3>1 DEF IInv, Unique
  <2> QED BY <2>2, <2>3
<1>21. Creating' /\ Deleting'
  BY <1>1, <1>2 DEF Creating, Deleting
<1>22. Renaming'
  <2>1. \A x \in files : rec'[x].filename = b => x = r
    BY <1>4, <1>10, <1>15
  <2>2. op'[NS].to = b /\ on'[NS] = r
    BY <1>1 DEF b
  <2>3. [rec'[r] EXCEPT !.filename = b] = q
    BY <1>7, <1>10
  <2>4. Working(NS)' /\ Busy(NS)'
    BY <1>1, <1>2, <1>13, <1>15
  <2>5. CASE todo'[NS] = Tail(todo[NS]) /\ ok' = ok
    <3>1. \E j \in 0..6 : /\ todo'[NS] = RenameRest(n, b, q, j)
                          /\ rec'[r].filename = IF j >= 4 THEN b ELSE n
      BY <1>8, <1>11, <2>5
    <3>2. \E x \in Names :
              /\ touch'[NS] = {x, b} /\ x # b /\ x \notin DOMAIN texts'
              /\ ~ok'[NS] => rec'[r].filename = x
              /\ ok'[NS] => \E j \in 0..6 :
                    /\ todo'[NS] = RenameRest(x, b, q, j)
                    /\ rec'[r].filename = IF j >= 4 THEN b ELSE x
      BY <1>1, <1>2, <1>5, <2>5, <3>1
    <3> QED BY <1>1, <1>4, <2>1, <2>2, <2>3, <2>4, <3>2 DEF Renaming
  <2>6. CASE /\ todo'[NS] = <<>> /\ ok' = [ok EXCEPT ![NS] = FALSE]
             /\ s.do = "rename" /\ s.path \notin DOMAIN disk
    <3>1. ok'[NS] = FALSE
      BY <1>15, <2>6 DEF IInv, Types
    <3>2. rec'[r].filename = n
      BY <1>6, <1>8, <1>9, <1>10, <2>6
    <3>3. \E x \in Names :
              /\ touch'[NS] = {x, b} /\ x # b /\ x \notin DOMAIN texts'
              /\ ~ok'[NS] => rec'[r].filename = x
              /\ ok'[NS] => \E j \in 0..6 :
                    /\ todo'[NS] = RenameRest(x, b, q, j)
                    /\ rec'[r].filename = IF j >= 4 THEN b ELSE x
      BY <1>1, <1>5, <3>1, <3>2
    <3> QED BY <1>1, <1>4, <2>1, <2>2, <2>3, <2>4, <3>3 DEF Renaming
  <2> QED BY <1>3, <2>5, <2>6
<1> QED BY <1>12, <1>17, <1>18, <1>19, <1>20, <1>21, <1>22 DEF IInv

-----------------------------------------------------------------------------
(* The end of a request *)

\* What the end of a request leaves alone, whatever the request.
LEMMA EndKeeps ==
    ASSUME NamesApart, IInv, NEW t \in Threads, Busy(t), Working(t), todo[t] = <<>>,
           on' = [on EXCEPT ![t] = NoRec], op' = [op EXCEPT ![t] = NoOp],
           touch' = [touch EXCEPT ![t] = {}],
           files_lock' = IF Locking(t) THEN files_lock ELSE NoThread,
           file_lock' = IF Locking(t) THEN [file_lock EXCEPT ![on[t]] = NoThread] ELSE file_lock,
           UNCHANGED <<disk, todo, ok, now>>,
           lost \subseteq lost', lost' \subseteq Seq(Token),
           files' \subseteq Recs, rec' \in [Recs -> FileRecord],
           DOMAIN texts' \subseteq DOMAIN docs', DOMAIN docs' \subseteq Names,
           \A n \in DOMAIN texts' :
              \/ n \in DOMAIN texts /\ texts'[n] = texts[n]
              \/ /\ n \notin lost' /\ Shown(filepath(n)) \in texts'[n]
                 /\ \A u \in Threads : u # t => n \notin touch[u],
           t # NS => /\ UNCHANGED <<files, rec>>
                     /\ DOMAIN docs' = DOMAIN docs /\ DOMAIN texts' \subseteq DOMAIN texts,
           Records', Unique'
    PROVE  IInv'
<1>1. /\ op'[t] = NoOp /\ on'[t] = NoRec /\ touch'[t] = {} /\ t \in Threads /\ NS \in Threads
      /\ \A u \in Threads : u # t => op'[u] = op[u] /\ on'[u] = on[u] /\ touch'[u] = touch[u]
      /\ \A u \in Threads : todo'[u] = todo[u] /\ ok'[u] = ok[u]
  BY DEF IInv, Types, Threads
<1>2. /\ ~Busy(t)' /\ ~Locking(t)' /\ ~Working(t)'
      /\ \A u \in Threads : u # t => /\ Busy(u)' <=> Busy(u)
                                     /\ Locking(u)' <=> Locking(u)
                                     /\ Working(u)' <=> Working(u)
                                     /\ Own(u)' = Own(u)
  BY <1>1 DEF Busy, Locking, Working, Own
<1>3. \A n : Good(n)' => Good(n)
  BY GoodOnlyFalls
<1>4. /\ on[t] \in Recs
      /\ Locking(t) => file_lock[on[t]] = t
      /\ ~Locking(t) => files_lock = t
  BY DEF IInv, Handlers, Handler
<1>5. Types'
  <2>1. Tidy(disk)'
    BY DEF IInv, Types, Tidy
  <2>2. file_lock' \in [Recs -> Threads \cup {NoThread}] /\ files_lock' \in Threads \cup {NoThread}
    BY <1>4 DEF IInv, Types
  <2>3. /\ on' \in [Threads -> Recs \cup {NoRec}] /\ DOMAIN op' = Threads
        /\ touch' \in [Threads -> SUBSET Seq(Token)]
    BY DEF IInv, Types
  <2>4. /\ \A c \in Clients : op'[c] \in Requests \cup {NoOp}
        /\ op'[NS] \in Commands \cup Creates \cup Deletes \cup {NoOp}
    BY <1>1 DEF IInv, Types, Threads
  <2> QED BY <2>1, <2>2, <2>3, <2>4 DEF IInv, Types
<1>6. Handlers'
  <2>1. SUFFICES ASSUME NEW u \in Threads
        PROVE  Handler(u)'
    BY DEF Handlers
  <2>2. CASE u = t
    BY <1>1, <1>2, <2>2 DEF Handler
  <2>3. CASE u # t
    <3>1. Working(u) /\ Locking(u) => file_lock'[on[u]] = u
      <4>1. SUFFICES ASSUME Working(u), Locking(u) PROVE file_lock'[on[u]] = u
        OBVIOUS
      <4>2. file_lock[on[u]] = u /\ on[u] \in Recs
        BY <4>1 DEF IInv, Handlers, Handler, Locking
      <4> QED BY <1>4, <2>3, <4>2 DEF IInv, Types
    <3>2. files_lock = u => files_lock' = u
      BY <1>4, <2>3
    <3> QED BY <1>1, <1>2, <2>3, <3>1, <3>2 DEF IInv, Handlers, Handler
  <2> QED BY <2>2, <2>3
<1>7. Confined'
  <2>1. SUFFICES ASSUME NEW u \in Threads, NEW e \in Range(todo'[u])
        PROVE  Planned(u, e)'
    BY DEF Confined
  <2>2. u # t
    <3>1. Range(<<>>) = {}
      BY DEF Range
    <3> QED BY <1>1, <2>1, <3>1
  <2> QED BY <1>1, <1>2, <2>1, <2>2 DEF IInv, Confined, Planned
<1>8. Sidecars'
  <2>1. SUFFICES ASSUME NEW p \in DOMAIN disk, IsMeta(p), disk[p] # Empty,
                        NEW m, m = disk[p].filename, Good(m)
        PROVE  p = metapath(m) \/ Between(m, p)'
    BY <1>3 DEF Sidecars
  <2>2. p = metapath(m) \/ Between(m, p)
    BY <2>1 DEF IInv, Sidecars
  <2>3. ASSUME Between(m, p) PROVE Between(m, p)'
    <3>1. Len(<<>>) \notin 2..4
      OBVIOUS
    <3>2. NS # t
      BY <2>3, <3>1 DEF Between
    <3> QED BY <1>1, <1>2, <2>3, <3>2 DEF Between
  <2> QED BY <2>2, <2>3
<1>9. ASSUME t # NS PROVE Creating' /\ Deleting' /\ Renaming'
  <2>1. /\ op'[NS] = op[NS] /\ on'[NS] = on[NS] /\ touch'[NS] = touch[NS]
        /\ todo'[NS] = todo[NS] /\ ok'[NS] = ok[NS]
        /\ (Busy(NS)' <=> Busy(NS)) /\ (Working(NS)' <=> Working(NS))
    BY <1>1, <1>2, <1>9
  <2>2. Busy(NS) => on[NS] \in Recs /\ on[NS] # NoRec
    BY <1>1, StoreAssumption DEF IInv, Handlers, Handler
  <2>3. \A c \in Clients : /\ c \in Threads
                           /\ c # t => on'[c] = on[c] /\ op'[c] = op[c] /\ Own(c)' = Own(c)
                           /\ c = t => on'[c] = NoRec
    BY <1>1, <1>2 DEF Threads
  <2>4. Creating'
    BY <1>9, <2>1, <2>2, <2>3 DEF IInv, Creating
  <2>5. Deleting'
    <3>1. SUFFICES ASSUME Busy(NS), op[NS].do = "delete"
          PROVE  LET n == op[NS].filename
                 IN  /\ on[NS] \in files /\ rec[on[NS]].filename = n
                     /\ n \notin DOMAIN texts'
                     /\ \A c \in Clients : on'[c] = on[NS] =>
                           \A k \in Own(c)' \cup {n} : ~Good(k)'
      BY <1>9, <2>1 DEF Deleting
    <3>2. ASSUME NEW c \in Clients, on'[c] = on[NS]
          PROVE  \A k \in Own(c)' \cup {op[NS].filename} : ~Good(k)'
      BY <1>3, <2>2, <2>3, <3>1, <3>2 DEF IInv, Deleting
    <3> QED BY <1>9, <3>1, <3>2 DEF IInv, Deleting
  <2>6. Renaming'
    <3>1. CASE ~(Busy(NS) /\ op[NS].do = "rename")
      BY <2>1, <3>1 DEF Renaming
    <3>2. CASE Busy(NS) /\ op[NS].do = "rename"
      <4> DEFINE b == op[NS].to
                 r == on[NS]
                 q == [rec[r] EXCEPT !.filename = b]
      <4>1. /\ b \notin DOMAIN docs' /\ r \in files'
            /\ \A s \in files' : rec'[s].filename = b => s = r
            /\ ~Working(NS)' => rec'[r].filename # b
        BY <1>9, <2>1, <3>2 DEF IInv, Renaming
      <4>2. Working(NS)' =>
                \E n \in Names :
                    /\ touch'[NS] = {n, b} /\ n # b /\ n \notin DOMAIN texts'
                    /\ ~ok'[NS] => rec'[r].filename = n
                    /\ ok'[NS] => \E k \in 0..6 :
                          /\ todo'[NS] = RenameRest(n, b, q, k)
                          /\ rec'[r].filename = IF k >= 4 THEN b ELSE n
        <5>1. SUFFICES ASSUME Working(NS)
              PROVE \E n \in Names :
                    /\ touch[NS] = {n, b} /\ n # b /\ n \notin DOMAIN texts'
                    /\ ~ok[NS] => rec[r].filename = n
                    /\ ok[NS] => \E k \in 0..6 :
                          /\ todo[NS] = RenameRest(n, b, q, k)
                          /\ rec[r].filename = IF k >= 4 THEN b ELSE n
          BY <1>9, <2>1
        <5>2. PICK n \in Names :
                    /\ touch[NS] = {n, b} /\ n # b /\ n \notin DOMAIN texts
                    /\ ~ok[NS] => rec[r].filename = n
                    /\ ok[NS] => \E k \in 0..6 :
                          /\ todo[NS] = RenameRest(n, b, q, k)
                          /\ rec[r].filename = IF k >= 4 THEN b ELSE n
          BY <3>2, <5>1 DEF IInv, Renaming
        <5> QED BY <1>9, <5>2
      <4> QED BY <1>9, <2>1, <4>1, <4>2 DEF Renaming
    <3> QED BY <3>1, <3>2
  <2> QED BY <2>4, <2>5, <2>6
<1>10. ASSUME t = NS PROVE Creating' /\ Deleting' /\ Renaming'
  BY <1>2, <1>10 DEF Creating, Deleting, Renaming
<1>11. TextsSafe'
  <2>1. SUFFICES ASSUME NEW n \in DOMAIN texts'
        PROVE  /\ Kept(n, texts[n])' \/ UndoKept(n, texts[n])'
               /\ \A u \in Threads : n \in touch'[u] => Safe(n, todo[u], texts[n])'
    BY DEF TextsSafe
  <2>2. CASE n \in DOMAIN texts /\ texts'[n] = texts[n]
    <3>1. Kept(n, texts[n])' \/ UndoKept(n, texts[n])'
      BY <2>2 DEF IInv, TextsSafe, Kept, UndoKept, Shown
    <3>2. ASSUME NEW u \in Threads, n \in touch'[u] PROVE Safe(n, todo[u], texts[n])'
      <4>1. n \in touch[u] /\ todo'[u] = todo[u]
        BY <1>1, <3>2
      <4>2. Safe(n, todo[u], texts[n])
        BY <2>2, <4>1 DEF IInv, TextsSafe
      <4> QED BY <2>2, <4>1, <4>2, SafeStays
    <3> QED BY <3>1, <3>2
  <2>3. CASE /\ n \notin lost' /\ Shown(filepath(n)) \in texts'[n]
             /\ \A u \in Threads : u # t => n \notin touch[u]
    <3>1. Kept(n, texts[n])'
      BY <2>3 DEF Kept, Shown
    <3>2. \A u \in Threads : n \notin touch'[u]
      BY <1>1, <2>3
    <3> QED BY <3>1, <3>2
  <2> QED BY <2>1, <2>2, <2>3
<1> QED BY <1>5, <1>6, <1>7, <1>8, <1>9, <1>10, <1>11 DEF IInv

\* The parts of the end of a request that do not depend on the request.
LEMMA DoneFacts ==
    ASSUME NamesApart, IInv, NEW t \in Threads, Done(t)
    PROVE  Ended(t)
<1>1. /\ Busy(t) /\ Working(t) /\ todo[t] = <<>>
      /\ on' = [on EXCEPT ![t] = NoRec] /\ op' = [op EXCEPT ![t] = NoOp]
      /\ touch' = [touch EXCEPT ![t] = {}]
      /\ files_lock' = IF op[t].do \in {"create", "delete"} THEN NoThread ELSE files_lock
      /\ file_lock' = IF op[t].do \in {"create", "delete"} THEN file_lock
                      ELSE [file_lock EXCEPT ![on[t]] = NoThread]
      /\ UNCHANGED <<disk, todo, ok, now>>
      /\ lost' = IF touch[t] \cap lost # {} THEN lost \cup touch[t] ELSE lost
  BY DEF Done, Idle, Busy, Working
<1>2. touch[t] \subseteq Seq(Token) /\ lost \subseteq Seq(Token)
  BY DEF IInv, Types
<1>3. on[t] \in Recs
  BY <1>1 DEF IInv, Handlers, Handler
<1>4. Locking(t) <=> op[t].do \notin {"create", "delete"}
  BY <1>1 DEF Locking
<1>5. \A u \in Threads : u # t =>
          /\ op'[u] = op[u] /\ on'[u] = on[u] /\ Own(u)' = Own(u)
          /\ Busy(u)' <=> Busy(u)
          /\ Locking(u)' <=> Locking(u)
          /\ Working(u)' <=> Working(u)
  BY <1>1 DEF Busy, Locking, Working, Own, IInv, Types
<1> QED BY <1>1, <1>2, <1>3, <1>4, <1>5 DEF Ended

LEMMA DoneCreateKeeps ==
    ASSUME NamesApart, IInv, NEW t \in Threads, Done(t), op[t].do = "create"
    PROVE  IInv'
<1> DEFINE n == op[NS].filename
           r == on[NS]
<1>1. Ended(t)
  BY DoneFacts
<1> USE DEF Ended
<1>2. t = NS /\ op[NS] \in Creates
  BY <1>1, NoOpApart DEF IInv, Requests, Commands, Deletes
<1>3. n \in Names /\ op[NS].owner \in Owners
  BY <1>2 DEF Creates
<1>4. ~Locking(NS) /\ ok[NS] /\ touch[NS] = {n}
  BY <1>1, <1>2 DEF Locking, IInv, Handlers, Handler
<1>5. /\ n \notin DOMAIN docs /\ \A x \in files : rec[x].filename # n
      /\ r \notin files /\ \A c \in Clients : on[c] # r
  BY <1>1, <1>2 DEF IInv, Creating
<1>6. /\ files' = files \cup {r}
      /\ rec' = [rec EXCEPT ![r] = NewRecord(n, op[NS].owner)]
      /\ docs' = WithFile(Restrict(docs, DOMAIN docs \ {n}), n, NewDoc(op[NS].owner))
      /\ texts' = IF n \in DOMAIN docs' \ lost'
                  THEN WithFile(texts, n, {Shown(filepath(n))}) ELSE texts
  BY <1>2, <1>4 DEF Done
<1> HIDE DEF n, r
<1>7. /\ r \in Recs /\ r = on[t] /\ files \subseteq Recs
      /\ rec \in [Recs -> FileRecord] /\ DOMAIN texts \subseteq DOMAIN docs
      /\ DOMAIN docs \subseteq Names
  BY <1>1, <1>2 DEF IInv, Types, r
<1>8. NewRecord(n, op[NS].owner) \in FileRecord /\ NewRecord(n, op[NS].owner).filename = n
  <2>1. n \in Seq(Token) /\ op[NS].owner \in Owners
    BY <1>3, NameTypes DEF n
  <2> QED BY <2>1 DEF NewRecord, FileRecord
<1>9. /\ rec' \in [Recs -> FileRecord] /\ files' \subseteq Recs
      /\ rec'[r].filename = n /\ \A x \in Recs : x # r => rec'[x] = rec[x]
  BY <1>6, <1>7, <1>8
<1>10. DOMAIN docs' = DOMAIN docs \cup {n} /\ DOMAIN docs' \subseteq Names
  BY <1>3, <1>6, <1>7 DEF WithFile, Restrict, n
<1>11. \/ texts' = texts
       \/ /\ n \notin lost' /\ DOMAIN texts' = DOMAIN texts \cup {n}
          /\ texts'[n] = {Shown(filepath(n))}
          /\ \A m \in DOMAIN texts : m # n => texts'[m] = texts[m]
  BY <1>6 DEF WithFile
<1>12. ASSUME NEW u \in Threads, u # t, n \in touch[u] PROVE n \in lost
  <2>1. Busy(u) /\ Working(u) /\ u # NS /\ Locking(u) /\ on[u] # r
    BY <1>2, <1>5, <1>12, NoOpApart DEF IInv, Handlers, Handler, Threads, Working
  <2>2. n \in Own(u)
    BY <1>3, <1>12 DEF Own, n
  <2>3. op[u].do # "rename"
    BY <2>1, NoOpApart DEF IInv, Requests
  <2>4. on[u] \notin files
    BY <1>5, <2>1, <2>2, <2>3 DEF IInv, Records, RecordOf
  <2>5. ~Good(n)
    BY <2>1, <2>2, <2>4 DEF IInv, Records, RecordOf
  <2> QED BY <1>3, <2>5 DEF Good, n
<1>13. \A m \in DOMAIN texts' :
          \/ m \in DOMAIN texts /\ texts'[m] = texts[m]
          \/ /\ m \notin lost' /\ Shown(filepath(m)) \in texts'[m]
             /\ \A u \in Threads : u # t => m \notin touch[u]
  BY <1>1, <1>11, <1>12
<1>14. DOMAIN texts' \subseteq DOMAIN docs'
  BY <1>7, <1>10, <1>11
<1>15. \A m : Good(m)' => Good(m)
  BY <1>1, <1>13, GoodOnlyFalls
<1>16. Records'
  <2>1. SUFFICES ASSUME NEW u \in Threads, Locking(u)'
        PROVE  RecordOf(u)'
    BY DEF Records
  <2>2. u # t
    BY <1>1, <2>1 DEF Locking, Busy, IInv, Types
  <2>3. on[u] # r /\ on[u] \in Recs /\ on'[u] = on[u] /\ Locking(u)
    BY <1>2, <1>5, <1>1, <2>1, <2>2 DEF Threads, Locking, IInv, Handlers, Handler
  <2>4. rec'[on[u]] = rec[on[u]] /\ (on[u] \in files' <=> on[u] \in files)
    BY <1>6, <1>9, <2>3
  <2> QED BY <1>15, <1>1, <2>2, <2>3, <2>4 DEF IInv, Records, RecordOf
<1>17. Unique'
  <2>1. SUFFICES ASSUME NEW x \in files', NEW y \in files', rec'[x].filename = rec'[y].filename,
                        Good(rec'[x].filename)
        PROVE  x = y
    BY <1>15 DEF Unique
  <2>2. \A z \in files : rec'[z] = rec[z] /\ rec'[z].filename # n
    BY <1>5, <1>7, <1>9
  <2>3. x \in files /\ y \in files => x = y
    BY <2>1, <2>2 DEF IInv, Unique
  <2> QED BY <1>6, <1>9, <2>1, <2>2, <2>3
<1> QED BY <1>1, <1>2, <1>9, <1>10, <1>13, <1>14, <1>16, <1>17, EndKeeps

LEMMA DoneDeleteKeeps ==
    ASSUME NamesApart, IInv, NEW t \in Threads, Done(t), op[t].do = "delete"
    PROVE  IInv'
<1> DEFINE n == op[NS].filename
           r == on[NS]
<1>1. Ended(t)
  BY DoneFacts
<1> USE DEF Ended
<1>2. t = NS
  BY <1>1, NoOpApart DEF IInv, Requests
<1>3. ~Locking(NS) /\ ok[NS]
  BY <1>1, <1>2 DEF Locking, IInv, Handlers, Handler
<1>4. /\ r \in files /\ n \notin DOMAIN texts
      /\ \A c \in Clients : on[c] = r => \A k \in Own(c) : ~Good(k)
  BY <1>1, <1>2 DEF IInv, Deleting
<1>5. /\ files' = files \ {r}
      /\ rec' = [rec EXCEPT ![r] = NewRecord(<<>>, NoUser)]
      /\ docs' = IF n \notin DOMAIN docs THEN docs ELSE Restrict(docs, DOMAIN docs \ {n})
      /\ texts' = texts
  BY <1>2, <1>3 DEF Done
<1> HIDE DEF n, r
<1>6. /\ r \in Recs /\ r = on[t] /\ files \subseteq Recs
      /\ rec \in [Recs -> FileRecord] /\ DOMAIN texts \subseteq DOMAIN docs
      /\ DOMAIN docs \subseteq Names
  BY <1>1, <1>2 DEF IInv, Types, r
<1>7. /\ NewRecord(<<>>, NoUser) \in FileRecord /\ NewRecord(<<>>, NoUser).filename = <<>>
      /\ ~NewRecord(<<>>, NoUser).undo_available
  <2>1. <<>> \in Seq(Token) /\ <<>> \in Seq([tag : Tags, filepath : CkptPath])
    OBVIOUS
  <2> QED BY <2>1 DEF NewRecord, FileRecord
<1>8. /\ rec' \in [Recs -> FileRecord] /\ files' \subseteq Recs
      /\ rec'[r].filename = <<>> /\ ~rec'[r].undo_available
      /\ \A x \in Recs : x # r => rec'[x] = rec[x]
  BY <1>5, <1>6, <1>7
<1>9. DOMAIN docs' \subseteq Names /\ DOMAIN texts' \subseteq DOMAIN docs'
  <2>1. DOMAIN docs' = DOMAIN docs \/ DOMAIN docs' = DOMAIN docs \ {n}
    BY <1>5 DEF Restrict
  <2> QED BY <1>4, <1>5, <1>6, <2>1
<1>10. \A m : Good(m)' => Good(m)
  BY <1>1, <1>5, GoodOnlyFalls
<1>11. Records'
  <2>1. SUFFICES ASSUME NEW u \in Threads, Locking(u)'
        PROVE  RecordOf(u)'
    BY DEF Records
  <2>2. u # t
    BY <1>1, <2>1 DEF Locking, Busy, IInv, Types
  <2>3. u \in Clients /\ on[u] \in Recs /\ on'[u] = on[u] /\ Locking(u)
    BY <1>2, <1>1, <2>1, <2>2 DEF Threads, Locking, IInv, Handlers, Handler
  <2>4. CASE on[u] = r
    BY <1>1, <1>2, <1>4, <1>5, <1>8, <1>10, <2>2, <2>3, <2>4 DEF RecordOf
  <2>5. CASE on[u] # r
    <3>1. rec'[on[u]] = rec[on[u]] /\ (on[u] \in files' <=> on[u] \in files)
      BY <1>5, <1>8, <2>3, <2>5
    <3> QED BY <1>10, <1>1, <2>2, <2>3, <3>1 DEF IInv, Records, RecordOf
  <2> QED BY <2>4, <2>5
<1>12. Unique'
  <2>1. \A z \in files' : z \in files /\ rec'[z] = rec[z]
    BY <1>5, <1>6, <1>8
  <2> QED BY <1>10, <2>1 DEF IInv, Unique
<1> QED BY <1>1, <1>2, <1>5, <1>8, <1>9, <1>11, <1>12, EndKeeps

\* A request that takes the record's lock leaves the list and the records alone.
LEMMA DoneLockingKeeps ==
    ASSUME NamesApart, IInv, NEW t \in Threads, Done(t), Locking(t),
           DOMAIN texts' \subseteq DOMAIN docs', DOMAIN docs' \subseteq Names,
           \A n \in DOMAIN texts' :
              \/ n \in DOMAIN texts /\ texts'[n] = texts[n]
              \/ /\ n \notin lost' /\ Shown(filepath(n)) \in texts'[n]
                 /\ \A u \in Threads : u # t => n \notin touch[u],
           t # NS => DOMAIN docs' = DOMAIN docs /\ DOMAIN texts' \subseteq DOMAIN texts
    PROVE  IInv'
<1>1. Ended(t)
  BY DoneFacts
<1> USE DEF Ended
<1>2. files' = files /\ rec' = rec
  BY DEF Done, Locking
<1>3. files \subseteq Recs /\ rec \in [Recs -> FileRecord]
  BY DEF IInv, Types
<1>4. \A m : Good(m)' => Good(m)
  BY <1>1, GoodOnlyFalls
<1>5. Records'
  <2>1. SUFFICES ASSUME NEW u \in Threads, Locking(u)'
        PROVE  RecordOf(u)'
    BY DEF Records
  <2>2. u # t
    BY <1>1, <2>1 DEF Locking, Busy, IInv, Types
  <2> QED BY <1>2, <1>4, <1>1, <2>1, <2>2 DEF IInv, Records, RecordOf
<1>6. Unique'
  BY <1>2, <1>4 DEF IInv, Unique
<1> QED BY <1>1, <1>2, <1>3, <1>5, <1>6, EndKeeps

LEMMA DoneRenameKeeps ==
    ASSUME NamesApart, IInv, NEW t \in Threads, Done(t), op[t].do = "rename"
    PROVE  IInv'
<1> DEFINE b == op[NS].to
           r == on[NS]
           new == rec[r].filename
           was == IF ok[NS] THEN CHOOSE n \in touch[NS] : n # b ELSE new
<1>1. /\ Busy(t) /\ Working(t) /\ todo[t] = <<>> /\ on[t] \in Recs /\ lost \subseteq lost'
      /\ Locking(t) /\ t = NS
  BY DoneFacts, NoOpApart DEF Ended, IInv, Requests, Locking
<1>2. /\ b \notin DOMAIN docs /\ r \in files
      /\ \A x \in files : rec[x].filename = b => x = r
  BY <1>1 DEF IInv, Renaming
<1>3. PICK n \in Names :
          /\ touch[NS] = {n, b} /\ n # b /\ n \notin DOMAIN texts
          /\ ~ok[NS] => new = n
          /\ ok[NS] => \E k \in 0..6 :
                /\ todo[NS] = RenameRest(n, b, [rec[r] EXCEPT !.filename = b], k)
                /\ new = IF k >= 4 THEN b ELSE n
  BY <1>1 DEF IInv, Renaming
<1>4. b \in Names
  BY <1>1, NoOpApart DEF IInv, Commands, Creates, Deletes
<1>5. /\ docs' = IF ~ok[NS] \/ was \notin DOMAIN docs THEN docs
                 ELSE WithFile(Restrict(docs, DOMAIN docs \ {was}), new,
                               IF was \in lost THEN docs[was] ELSE Promise(docs[was], op[NS]))
      /\ texts' = IF new \in DOMAIN docs' \ lost'
                  THEN WithFile(texts, new, {Shown(filepath(new))}) ELSE texts
  BY <1>1, SMTT(30) DEF Done
<1>6. ok[NS] => new = b
  <2>1. SUFFICES ASSUME ok[NS] PROVE new = b
    OBVIOUS
  <2> DEFINE q == [rec[r] EXCEPT !.filename = b]
  <2>2. PICK k \in 0..6 : /\ todo[NS] = RenameRest(n, b, q, k)
                          /\ new = IF k >= 4 THEN b ELSE n
    BY <1>3, <2>1
  <2>3. q \in Sidecar
    <3>1. b \in Seq(Token) /\ b # <<>> /\ rec[r] \in FileRecord
      BY <1>1, <1>4, NameTypes DEF IInv, Types
    <3> QED BY <3>1 DEF Sidecar, FileRecord
  <2> HIDE DEF q, b
  <2>4. ASSUME k \in 0..5 PROVE FALSE
    <3>1. RenameShrinks(n, b, q, k)
      BY <1>4, <2>3, <2>4, RenameShorter, Zenon
    <3>2. Len(<<>>) = 6 - k
      BY <1>1, <2>2, <3>1 DEF RenameShrinks
    <3> QED BY <2>4, <3>2
  <2> QED BY <2>2, <2>4
<1>7. was = n
  <2>1. ok[NS] => was = n
    BY <1>3
  <2> QED BY <1>3, <2>1
<1> HIDE DEF was, b, r
<1>8. /\ DOMAIN texts \subseteq DOMAIN docs /\ DOMAIN docs \subseteq Names
      /\ new \in Names
  BY <1>3, <1>4, <1>6 DEF IInv, Types
<1> HIDE DEF new
<1>9. /\ DOMAIN docs' \subseteq Names /\ DOMAIN texts \subseteq DOMAIN docs'
  <2>1. \/ DOMAIN docs' = DOMAIN docs
        \/ DOMAIN docs' = (DOMAIN docs \ {n}) \cup {new}
    BY <1>5, <1>7 DEF WithFile, Restrict
  <2> QED BY <1>3, <1>8, <2>1
<1>10. \/ texts' = texts
       \/ /\ new \notin lost' /\ new \in DOMAIN docs' /\ DOMAIN texts' = DOMAIN texts \cup {new}
          /\ texts'[new] = {Shown(filepath(new))}
          /\ \A m \in DOMAIN texts : m # new => texts'[m] = texts[m]
  BY <1>5 DEF WithFile
<1>11. ASSUME NEW u \in Threads, u # t, new \in touch[u] PROVE new \in lost
  <2>1. SUFFICES ASSUME new \notin lost PROVE FALSE
    OBVIOUS
  <2>2. Busy(u) /\ Working(u) /\ u # NS /\ Locking(u) /\ on[u] \in Recs
    BY <1>1, <1>11, NoOpApart DEF IInv, Handlers, Handler, Threads, Working
  <2>3. new \in Own(u) /\ Good(new)
    BY <1>8, <1>11, <2>1 DEF Own, Good
  <2>4. op[u].do # "rename"
    BY <2>2, NoOpApart DEF IInv, Requests
  <2>5. on[u] \in files /\ rec[on[u]].filename = new
    BY <2>2, <2>3, <2>4 DEF IInv, Records, RecordOf
  <2>6. on[u] = r
    BY <1>2, <2>3, <2>5 DEF IInv, Unique, new
  <2>7. file_lock[on[u]] = u /\ file_lock[r] = NS
    BY <1>1, <2>2 DEF IInv, Handlers, Handler, r
  <2> QED BY <2>2, <2>6, <2>7
<1>12. \A m \in DOMAIN texts' :
          \/ m \in DOMAIN texts /\ texts'[m] = texts[m]
          \/ /\ m \notin lost' /\ Shown(filepath(m)) \in texts'[m]
             /\ \A u \in Threads : u # t => m \notin touch[u]
  BY <1>1, <1>10, <1>11
<1>13. DOMAIN texts' \subseteq DOMAIN docs'
  BY <1>9, <1>10
<1> QED BY <1>1, <1>9, <1>12, <1>13, DoneLockingKeeps

LEMMA DoneKeeps ==
    ASSUME NamesApart, IInv, NEW t \in Threads, Done(t)
    PROVE  IInv'
<1>1. CASE op[t].do = "create"
  BY <1>1, DoneCreateKeeps
<1>2. CASE op[t].do = "delete"
  BY <1>2, DoneDeleteKeeps
<1>3. CASE op[t].do = "rename"
  BY <1>3, DoneRenameKeeps
<1>4. CASE op[t].do \notin {"create", "delete", "rename"}
  <2> DEFINE new == rec[on[t]].filename
  <2>1. Busy(t) /\ Locking(t)
    BY <1>4, DoneFacts DEF Ended, Locking
  <2>2. /\ docs' = IF ~ok[t] \/ new \notin DOMAIN docs THEN docs
                   ELSE WithFile(Restrict(docs, DOMAIN docs \ {new}), new,
                            IF new \in lost THEN docs[new] ELSE Promise(docs[new], op[t]))
        /\ texts' = texts
    BY <1>4 DEF Done
  <2> HIDE DEF new
  <2>3. DOMAIN docs' = DOMAIN docs
    BY <2>2 DEF WithFile, Restrict
  <2> QED BY <2>1, <2>2, <2>3, DoneLockingKeeps DEF IInv, Types
<1> QED BY <1>1, <1>2, <1>3, <1>4

-----------------------------------------------------------------------------
(* A restart *)

\* The sidecar that a document is loaded with, or gets when it has none.
LEMMA LoadedPaths ==
    ASSUME Types, NEW p \in Loaded
    PROVE  /\ p \in DOMAIN disk /\ p \in Seq(Token) /\ p # <<>> /\ p \in FlatPath
           /\ filepath(p) = p /\ metapath(p) = Append(p, ".meta")
           /\ metapath(p) \in FlatPath /\ IsMeta(metapath(p))
           /\ SubSeq(metapath(p), 1, Len(metapath(p)) - 1) = p
           /\ LoadedRecord(p) \in Sidecar
           /\ NewRecord(p, NoUser) \in Sidecar /\ NewRecord(p, NoUser).filename = p
<1>1. p \in DOMAIN disk /\ p \in FlatPath /\ p \in Seq(Token) /\ p # <<>> /\ "/" \notin Range(p)
  BY DEF Loaded, Types, Tidy, FlatPath
<1>2. filepath(p) = p /\ metapath(p) = Append(p, ".meta")
  BY <1>1, Flattened DEF filepath, metapath
<1>3. ".meta" \in Token
  BY DEF Token
<1> DEFINE s == Append(p, ".meta")
<1>4. /\ s \in Seq(Token) /\ s # <<>> /\ s[Len(s)] = ".meta"
      /\ \A y : y \in Range(s) <=> y \in Range(p) \/ y = ".meta"
      /\ SubSeq(s, 1, Len(s) - 1) = p
  BY <1>1, <1>3, Suffixed
<1> HIDE DEF s
<1>5. s \in FlatPath /\ IsMeta(s)
  BY <1>1, <1>4 DEF FlatPath, IsMeta
<1>6. NewRecord(p, NoUser) \in Sidecar /\ NewRecord(p, NoUser).filename = p
  <2>1. <<>> \in Seq([tag : Tags, filepath : CkptPath])
    OBVIOUS
  <2> QED BY <1>1, <2>1 DEF NewRecord, FileRecord, Sidecar
<1>7. LoadedRecord(p) \in Sidecar
  <2>1. CASE metapath(p) \notin DOMAIN disk \/ disk[metapath(p)] = Empty
    BY <1>6, <2>1 DEF LoadedRecord
  <2>2. CASE metapath(p) \in DOMAIN disk /\ disk[metapath(p)] # Empty
    <3>1. IsMeta(metapath(p))
      BY <1>2, <1>5 DEF s
    <3>2. disk[metapath(p)] \in Sidecar
      BY <2>2, <3>1 DEF Types, Tidy
    <3> QED BY <2>2, <3>2 DEF LoadedRecord
  <2> QED BY <2>1, <2>2
<1> QED BY <1>1, <1>2, <1>4, <1>5, <1>6, <1>7 DEF s

\* A rename that a crash interrupts leaves nothing to be trusted of its names.
LEMMA BetweenIsLost ==
    ASSUME IInv, Restart, NEW m, NEW p, Between(m, p)
    PROVE  ~Good(m)'
<1>1. Busy(NS) /\ op[NS].do = "rename" /\ Len(todo[NS]) \in 2..4 /\ m \in touch[NS]
  BY DEF Between
<1>2. todo[NS] # <<>> /\ NS \in Threads
  <2>1. Len(<<>>) \notin 2..4
    OBVIOUS
  <2>2. todo[NS] # <<>>
    BY <1>1, <2>1
  <2> QED BY <2>2 DEF Threads
<1>3. ok[NS] /\ Working(NS)
  BY <1>1, <1>2 DEF IInv, Handlers, Handler, Working
<1>4. m \notin DOMAIN texts
  <2>1. op[NS].to \notin DOMAIN texts
    BY <1>1 DEF IInv, Renaming, Types
  <2>2. \E n \in Names : touch[NS] = {n, op[NS].to} /\ n \notin DOMAIN texts
    BY <1>1, <1>3 DEF IInv, Renaming
  <2> QED BY <1>1, <2>1, <2>2
<1>5. lost' = lost \cup UNION {touch[t] : t \in {u \in Threads : ok[u]}} /\ texts' = texts
  BY DEF Restart
<1>6. m \in lost'
  BY <1>1, <1>2, <1>3, <1>5
<1> QED BY <1>4, <1>5, <1>6 DEF Good

LEMMA RestartFacts ==
    ASSUME NamesApart, IInv, Restart
    PROVE  /\ \E place \in [Loaded -> Recs] :
                 files' = Range(place) /\ \A p \in Loaded : rec'[place[p]] = LoadedRecord(p)
           /\ \A r \in files' : \E p \in Loaded : rec'[r] = LoadedRecord(p)
           /\ \A p \in Loaded : \E r \in files' : rec'[r] = LoadedRecord(p)
           /\ \A p : p \in DOMAIN disk' <=> p \in DOMAIN disk \/ \E q \in Loaded : p = metapath(q)
           /\ \A p \in DOMAIN disk : disk'[p] = disk[p]
           /\ \A q \in Loaded : metapath(q) \notin DOMAIN disk => disk'[metapath(q)] = NewRecord(q, NoUser)
           /\ \A t \in Threads : touch'[t] = {} /\ (ok[t] => touch[t] \subseteq lost')
           /\ lost \subseteq lost' /\ \A m \in lost' : m \in lost \/ \E t \in Threads : m \in touch[t]
           /\ UNCHANGED <<now, docs>>
<1> DEFINE place == CHOOSE f \in Injection(Loaded, Recs) : TRUE
<1>1. /\ files' = Range(place)
      /\ rec' = [r \in Recs |->
            IF r \in Range(place)
            THEN LoadedRecord(CHOOSE p \in Loaded : place[p] = r)
            ELSE NewRecord(<<>>, NoUser)]
      /\ disk' = [p \in DOMAIN disk \cup {metapath(q) : q \in Loaded} |->
                     IF p \in DOMAIN disk THEN disk[p]
                     ELSE NewRecord(SubSeq(p, 1, Len(p) - 1), NoUser)]
      /\ touch' = [t \in Threads |-> {}]
      /\ lost' = lost \cup UNION {touch[t] : t \in {u \in Threads : ok[u]}}
      /\ UNCHANGED <<now, docs>>
  BY DEF Restart
<1>2. place \in [Loaded -> Recs] /\ \A p, q \in Loaded : place[p] = place[q] => p = q
  <2>1. place \in Injection(Loaded, Recs)
    BY DEF Restart
  <2> HIDE DEF place
  <2> QED BY <2>1 DEF Injection, IsInjective
<1> HIDE DEF place
<1>3. ASSUME NEW p \in Loaded
      PROVE  place[p] \in files' /\ rec'[place[p]] = LoadedRecord(p)
  <2>1. place[p] \in Range(place) /\ place[p] \in Recs
    BY <1>2 DEF Range
  <2> DEFINE x == CHOOSE y \in Loaded : place[y] = place[p]
  <2>2. x \in Loaded /\ place[x] = place[p]
    OBVIOUS
  <2>3. x = p
    BY <1>2, <2>2
  <2>4. rec'[place[p]] = LoadedRecord(x)
    BY <1>1, <2>1
  <2> QED BY <1>1, <2>1, <2>3, <2>4
<1>4. \A r \in files' : \E p \in Loaded : r = place[p]
  BY <1>1, <1>2 DEF Range
<1>5. /\ \A p : p \in DOMAIN disk' <=> p \in DOMAIN disk \/ \E q \in Loaded : p = metapath(q)
      /\ \A p \in DOMAIN disk : disk'[p] = disk[p]
      /\ \A q \in Loaded : metapath(q) \notin DOMAIN disk => disk'[metapath(q)] = NewRecord(q, NoUser)
  <2>1. \A q \in Loaded : SubSeq(metapath(q), 1, Len(metapath(q)) - 1) = q
    BY LoadedPaths DEF IInv
  <2> QED BY <1>1, <2>1
<1>6. \A t \in Threads : touch'[t] = {} /\ (ok[t] => touch[t] \subseteq lost')
  BY <1>1
<1>7. lost \subseteq lost' /\ \A m \in lost' : m \in lost \/ \E t \in Threads : m \in touch[t]
  BY <1>1
<1>8. \A r \in files' : \E p \in Loaded : rec'[r] = LoadedRecord(p)
  BY <1>3, <1>4
<1>9. \A p \in Loaded : \E r \in files' : rec'[r] = LoadedRecord(p)
  BY <1>3
<1>10. UNCHANGED <<now, docs>>
  BY <1>1
<1>11. \E f \in [Loaded -> Recs] :
          files' = Range(f) /\ \A p \in Loaded : rec'[f[p]] = LoadedRecord(p)
  BY <1>1, <1>2, <1>3
<1> QED BY <1>11, <1>5, <1>6, <1>7, <1>8, <1>9, <1>10

LEMMA RestartKeeps ==
    ASSUME NamesApart, IInv, Restart
    PROVE  IInv'
<1>1. /\ rec' = [r \in Recs |-> rec'[r]]
      /\ \A r \in Recs \ files' : rec'[r] = NewRecord(<<>>, NoUser)
      /\ files_lock' = NoThread /\ file_lock' = [r \in Recs |-> NoThread]
      /\ op' = [t \in Threads |-> NoOp] /\ on' = [t \in Threads |-> NoRec]
      /\ todo' = [t \in Threads |-> <<>>] /\ ok' = [t \in Threads |-> TRUE]
      /\ touch' = [t \in Threads |-> {}]
      /\ lost' = lost \cup UNION {touch[t] : t \in {u \in Threads : ok[u]}}
      /\ UNCHANGED <<now, docs, texts>>
  BY DEF Restart
<1>2. PICK place \in [Loaded -> Recs] :
         files' = Range(place) /\ \A p \in Loaded : rec'[place[p]] = LoadedRecord(p)
  BY RestartFacts
<1>3. \A m : Good(m)' => Good(m)
  BY <1>1, GoodOnlyFalls
<1>4. \A t \in Threads : ~Busy(t)' /\ on'[t] = NoRec /\ touch'[t] = {} /\ todo'[t] = <<>>
  BY <1>1 DEF Busy
<1>5. \A r \in files' : \E p \in Loaded : rec'[r] = LoadedRecord(p)
  BY RestartFacts
<1>6. /\ \A p : p \in DOMAIN disk' <=> p \in DOMAIN disk \/ \E q \in Loaded : p = metapath(q)
      /\ \A p \in DOMAIN disk : disk'[p] = disk[p]
      /\ \A q \in Loaded : metapath(q) \notin DOMAIN disk => disk'[metapath(q)] = NewRecord(q, NoUser)
  BY RestartFacts
<1>7. Tidy(disk)'
  <2>1. SUFFICES ASSUME NEW p \in DOMAIN disk'
        PROVE  p \in FlatPath /\ disk'[p] \in IF IsMeta(p) THEN Sidecar \cup {Empty} ELSE TextFile
    BY DEF Tidy
  <2>2. CASE p \in DOMAIN disk
    BY <1>6, <2>2 DEF IInv, Types, Tidy
  <2>3. CASE p \notin DOMAIN disk
    <3>1. PICK q \in Loaded : p = metapath(q)
      BY <1>6, <2>1, <2>3
    <3>2. disk'[p] = NewRecord(q, NoUser)
      BY <1>6, <2>3, <3>1
    <3>3. p \in FlatPath /\ IsMeta(p) /\ NewRecord(q, NoUser) \in Sidecar
      BY <3>1, LoadedPaths DEF IInv
    <3> QED BY <3>2, <3>3
  <2> QED BY <2>2, <2>3
<1>8. rec' \in [Recs -> FileRecord] /\ files' \subseteq Recs
  <2>1. NewRecord(<<>>, NoUser) \in FileRecord
    BY DEF NewRecord, FileRecord
  <2>2. \A r \in files' : rec'[r] \in FileRecord
    BY <1>5, LoadedPaths DEF IInv, Sidecar
  <2>3. \A r \in Recs : rec'[r] \in FileRecord
    BY <1>1, <2>1, <2>2
  <2>4. files' \subseteq Recs
    BY <1>2 DEF Range
  <2> QED BY <1>1, <2>3, <2>4
<1>9. Types'
  <2>1. /\ DOMAIN op' = Threads /\ \A t \in Threads : op'[t] = NoOp
        /\ NS \in Threads /\ Clients \subseteq Threads
    BY <1>1 DEF Threads
  <2>2. lost' \subseteq Seq(Token)
    BY <1>1 DEF IInv, Types
  <2>3. /\ on' \in [Threads -> Recs \cup {NoRec}] /\ todo' \in [Threads -> Seq(Change)]
        /\ ok' \in [Threads -> BOOLEAN] /\ touch' \in [Threads -> SUBSET Seq(Token)]
        /\ file_lock' \in [Recs -> Threads \cup {NoThread}]
        /\ files_lock' \in Threads \cup {NoThread}
    <3>1. <<>> \in Seq(Change)
      OBVIOUS
    <3> QED BY <1>1, <3>1
  <2>4. /\ now' \in Nat /\ DOMAIN texts' \subseteq DOMAIN docs' /\ DOMAIN docs' \subseteq Names
    BY <1>1 DEF IInv, Types
  <2> QED BY <1>7, <1>8, <2>1, <2>2, <2>3, <2>4 DEF Types
<1>10. Handlers'
  BY <1>4 DEF Handlers, Handler, Working
<1>11. Records' /\ Creating' /\ Deleting' /\ Renaming'
  BY <1>4 DEF Records, RecordOf, Locking, Creating, Deleting, Renaming, Threads
<1>12. Confined'
  <2>1. Range(<<>>) = {}
    BY DEF Range
  <2> QED BY <1>4, <2>1 DEF Confined, Planned
<1>13. ASSUME NEW p \in DOMAIN disk, IsMeta(p), disk[p] # Empty, NEW m, m = disk[p].filename, Good(m)'
       PROVE  p = metapath(m)
  <2>1. p = metapath(m) \/ Between(m, p)
    BY <1>3, <1>13 DEF IInv, Sidecars
  <2> QED BY <1>13, <2>1, BetweenIsLost
<1>14. Sidecars'
  <2>1. SUFFICES ASSUME NEW p \in DOMAIN disk', IsMeta(p), disk'[p] # Empty,
                        NEW m, m = disk'[p].filename, Good(m)'
        PROVE  p = metapath(m)
    BY DEF Sidecars
  <2>2. CASE p \in DOMAIN disk
    BY <1>6, <1>13, <2>1, <2>2
  <2>3. CASE p \notin DOMAIN disk
    <3>1. PICK q \in Loaded : p = metapath(q)
      BY <1>6, <2>1, <2>3
    <3>2. disk'[p] = NewRecord(q, NoUser)
      BY <1>6, <2>3, <3>1
    <3>3. m = q
      BY <2>1, <3>2, LoadedPaths DEF IInv
    <3> QED BY <3>1, <3>3
  <2> QED BY <2>2, <2>3
<1>15. ASSUME NEW p \in Loaded, NEW m, m = LoadedRecord(p).filename, Good(m)'
       PROVE  p = filepath(m)
  <2>1. /\ filepath(p) = p /\ metapath(p) = Append(p, ".meta") /\ IsMeta(metapath(p))
        /\ p \in Seq(Token) /\ NewRecord(p, NoUser).filename = p
    BY LoadedPaths DEF IInv
  <2>2. CASE metapath(p) \notin DOMAIN disk \/ disk[metapath(p)] = Empty
    <3>1. LoadedRecord(p) = NewRecord(p, NoUser)
      BY <2>2 DEF LoadedRecord
    <3> QED BY <1>15, <2>1, <3>1
  <2>3. CASE metapath(p) \in DOMAIN disk /\ disk[metapath(p)] # Empty
    <3>1. m = disk[metapath(p)].filename
      BY <1>15, <2>3 DEF LoadedRecord
    <3>2. metapath(p) = metapath(m)
      BY <1>13, <1>15, <2>1, <2>3, <3>1
    <3>3. flatten_logical_path(m) \in Seq(Token) /\ ".meta" \in Token
      <4>1. m \in Names
        BY <1>15 DEF Good
      <4>2. m \in Seq(Token)
        BY <4>1, NameTypes
      <4> QED BY <4>2, Flattened DEF Token
    <3>4. Append(p, ".meta") = Append(flatten_logical_path(m), ".meta")
      BY <2>1, <3>2 DEF metapath
    <3> QED BY <2>1, <3>3, <3>4, Suffixed DEF filepath
  <2> QED BY <2>2, <2>3
<1>16. Unique'
  <2>1. SUFFICES ASSUME NEW r \in files', NEW s \in files',
                        rec'[r].filename = rec'[s].filename, NEW m, m = rec'[r].filename, Good(m)'
        PROVE  r = s
    BY DEF Unique
  <2>2. PICK p \in Loaded, q \in Loaded : r = place[p] /\ s = place[q]
    BY <1>2 DEF Range
  <2>3. p = filepath(m)
    BY <1>2, <1>15, <2>1, <2>2
  <2>4. q = filepath(m)
    BY <1>2, <1>15, <2>1, <2>2
  <2> QED BY <2>2, <2>3, <2>4
<1>17. TextsSafe'
  <2>1. SUFFICES ASSUME NEW n \in DOMAIN texts
        PROVE  Kept(n, texts[n])' \/ UndoKept(n, texts[n])'
    BY <1>1, <1>4 DEF TextsSafe
  <2>2. /\ ~IsMeta(filepath(n)) /\ ~IsMeta(undopath(n))
        /\ \A q \in Loaded : IsMeta(metapath(q))
    <3>1. n \in Names
      BY DEF IInv, Types
    <3> QED BY <3>1, Paths, LoadedPaths DEF IInv
  <2>3. /\ filepath(n) \in DOMAIN disk' <=> filepath(n) \in DOMAIN disk
        /\ undopath(n) \in DOMAIN disk' <=> undopath(n) \in DOMAIN disk
    BY <1>6, <2>2
  <2>4. Shown(filepath(n))' = Shown(filepath(n)) /\ Shown(undopath(n))' = Shown(undopath(n))
    BY <1>6, <2>3 DEF Shown
  <2>5. Kept(n, texts[n]) \/ UndoKept(n, texts[n])
    BY DEF IInv, TextsSafe
  <2> QED BY <1>1, <2>4, <2>5 DEF Kept, UndoKept
<1> QED BY <1>9, <1>10, <1>11, <1>12, <1>14, <1>16, <1>17 DEF IInv

-----------------------------------------------------------------------------
(* The theorems *)

LEMMA NextKeeps ==
    ASSUME NamesApart, IInv, Next
    PROVE  IInv'
<1>1. ASSUME NEW t \in Clients, NEW n \in Names, ClientRequest(t, n) PROVE IInv'
  <2>1. PICK o \in Requests : (o.do = "checkpoint" => now < Len(Clock)) /\ Find(t, n, o)
    BY <1>1 DEF ClientRequest
  <2>2. t \in Threads /\ t # NS
    BY StoreAssumption DEF Threads
  <2>3. o.do # "rename"
    BY DEF Requests
  <2>4. Sent(t, o)
    BY <2>1, <2>2, <2>3 DEF Sent
  <2> QED BY <2>1, <2>2, <2>4, FindKeeps
<1>2. ASSUME NEW n \in Names, Command(n) PROVE IInv'
  <2>1. PICK o \in Commands :
            /\ o.do = "rename" => o.to \notin DOMAIN docs /\ ss_find_file(o.to) = {}
            /\ Find(NS, n, o)
    BY <1>2 DEF Command
  <2>2. NS \in Threads /\ NS \notin Clients
    BY StoreAssumption DEF Threads
  <2>3. o.do # "checkpoint"
    BY DEF Commands
  <2>4. Sent(NS, o)
    BY <2>1, <2>2, <2>3 DEF Sent
  <2> QED BY <2>1, <2>2, <2>4, FindKeeps
<1>3. ASSUME NEW n \in Names, Delete(n) PROVE IInv'
  BY <1>3, DeleteKeeps
<1>4. ASSUME NEW n \in Names, NEW u \in Owners, Create(n, u) PROVE IInv'
  BY <1>4, CreateKeeps
<1>5. ASSUME NEW t \in Threads, Lock(t) PROVE IInv'
  BY <1>5, LockKeeps
<1>6. ASSUME NEW t \in Threads, Step(t) PROVE IInv'
  <2>1. CASE op[t].do = "rename"
    BY <1>6, <2>1, RenameStepKeeps
  <2>2. CASE op[t].do # "rename"
    BY <1>6, <2>2, OtherStepKeeps
  <2> QED BY <2>1, <2>2
<1>7. ASSUME NEW t \in Threads, Done(t) PROVE IInv'
  BY <1>7, DoneKeeps
<1>8. CASE Restart
  BY <1>8, RestartKeeps
<1> QED BY <1>1, <1>2, <1>3, <1>4, <1>5, <1>6, <1>7, <1>8 DEF Next

LEMMA StutterKeeps ==
    ASSUME IInv, UNCHANGED vars
    PROVE  IInv'
<1>1. UNCHANGED <<disk, files, rec, files_lock, file_lock, op, on, todo, ok, now, docs, touch,
                  lost, texts>>
  BY DEF vars, server, history
<1>2. Types'
  BY <1>1 DEF IInv, Types, Tidy
<1>3. /\ \A t : /\ Busy(t)' <=> Busy(t)
                /\ Locking(t)' <=> Locking(t)
                /\ Working(t)' <=> Working(t)
                /\ Own(t)' = Own(t)
      /\ \A n : Good(n)' <=> Good(n)
  BY <1>1 DEF Busy, Locking, Working, Own, Good
<1>4. Handlers'
  BY <1>1, <1>3 DEF IInv, Handlers, Handler
<1>5. Records'
  BY <1>1, <1>3 DEF IInv, Records, RecordOf
<1>6. Confined'
  BY <1>1, <1>3 DEF IInv, Confined, Planned
<1>7. Sidecars'
  <2>1. \A m, p : Between(m, p)' <=> Between(m, p)
    BY <1>1 DEF Between, Busy
  <2> QED BY <1>1, <1>3, <2>1 DEF IInv, Sidecars
<1>8. Unique' /\ Creating' /\ Deleting'
  BY <1>1, <1>3 DEF IInv, Unique, Creating, Deleting
<1>9. Renaming'
  BY <1>1, <1>3 DEF IInv, Renaming
<1>10. TextsSafe'
  BY <1>1, TextsStay DEF IInv
<1> QED BY <1>2, <1>4, <1>5, <1>6, <1>7, <1>8, <1>9, <1>10 DEF IInv

\* The invariant that the theorems rest on: at every instant, whatever the
\* handlers of ns_control_loop and of the clients have done of their work and
\* however often the server was killed and ss_load_existing_files ran.
LEMMA Invariant ==
    ASSUME NamesApart PROVE Spec => []IInv
<1>1. Init => IInv
  BY InitKeeps
<1>2. IInv /\ [Next]_vars => IInv'
  BY NextKeeps, StutterKeeps
<1> QED BY <1>1, <1>2, PTL DEF Spec

\* Sidecars hold records and the other files texts, each record is of its type,
\* and the locks are held by threads: also after restarts that read whatever
\* ss_write_metadata, RENAME and DELETE left half done.
THEOREM TypesHold == ASSUME NamesApart PROVE Spec => []Types
<1>1. IInv => Types
  BY DEF IInv
<1> QED BY <1>1, Invariant, PTL

\* Wherever ETIRW, UNDO, REVERT or SS_COPY stops, ss_write_file_content's order
\* (snapshot first, then the content) and SS_COPY's temporary file leave the old
\* text or the new one whole in the content file or in the undo file.
THEOREM TextIsKept == ASSUME NamesApart PROVE Spec => []TextSurvivesCrash
<1>1. IInv => TextSurvivesCrash
  BY DEF IInv, TextsSafe, TextSurvivesCrash, Kept, UndoKept
<1> QED BY <1>1, Invariant, PTL

THEOREM RecordsAreSingular == ASSUME NamesApart PROVE Spec => []Singular
<1>1. IInv => Singular
  BY DEF IInv, Unique, Good, Singular
<1> QED BY <1>1, Invariant, PTL

-----------------------------------------------------------------------------
(* One change brings the end nearer *)

LEMMA EndsNone ==
    ASSUME NEW d, NEW p, NEW c
    PROVE  /\ Ends(d, <<>>, p, c) <=> p \in DOMAIN d /\ d[p] = c
           /\ Removed(d, <<>>, p) <=> p \notin DOMAIN d
<1>1. DOMAIN <<>> = {} /\ Range(<<>>) = {}
  BY DEF Range
<1> QED BY <1>1 DEF Ends, Stays, Lands, Comes, Removed, LeftBy

\* What is behind the first change is in the same order in the rest.
LEMMA Shifted ==
    ASSUME NEW s \in Seq(Change), s # <<>>
    PROVE  LET v == Tail(s)
           IN  /\ \A x : LeftBy(s, x) => LeftBy(v, x) /\ Leaves(s[1], x)
               /\ \A x : LeftAfter(s, 1, x) => LeftBy(v, x)
               /\ \A x, j : j \in DOMAIN s /\ j # 1 /\ LeftAfter(s, j, x) => LeftAfter(v, j - 1, x)
               /\ \A j \in DOMAIN s : j # 1 => j - 1 \in DOMAIN v /\ v[j - 1] = s[j] /\ 1 < j
<1> DEFINE v == Tail(s)
<1>1. /\ s[1] \in Range(s)
      /\ \A y \in Range(v) : y \in Range(s)
      /\ \A i : i \in DOMAIN v <=> i \in Nat \ {0} /\ i + 1 \in DOMAIN s
      /\ \A i \in DOMAIN v : v[i] = s[i + 1]
  BY TailOf
<1>2. DOMAIN s \subseteq Nat \ {0} /\ DOMAIN v \subseteq Nat \ {0}
  OBVIOUS
<1> HIDE DEF v
<1>3. \A x : LeftBy(s, x) => LeftBy(v, x) /\ Leaves(s[1], x)
  BY <1>1 DEF LeftBy
<1>4. \A x : LeftAfter(s, 1, x) => LeftBy(v, x)
  <2> SUFFICES ASSUME NEW x, LeftAfter(s, 1, x), NEW i \in DOMAIN v
               PROVE  Leaves(v[i], x)
    BY DEF LeftBy, Range
  <2>1. i + 1 \in DOMAIN s /\ i + 1 > 1 /\ v[i] = s[i + 1]
    BY <1>1, <1>2
  <2> QED BY <2>1 DEF LeftAfter
<1>5. \A x, j : j \in DOMAIN s /\ j # 1 /\ LeftAfter(s, j, x) => LeftAfter(v, j - 1, x)
  <2> SUFFICES ASSUME NEW x, NEW j \in DOMAIN s, LeftAfter(s, j, x), NEW i \in DOMAIN v, i > j - 1
               PROVE  Leaves(v[i], x)
    BY DEF LeftAfter
  <2>1. i + 1 \in DOMAIN s /\ i + 1 > j /\ v[i] = s[i + 1]
    BY <1>1, <1>2
  <2> QED BY <2>1 DEF LeftAfter
<1>6. \A j \in DOMAIN s : j # 1 => j - 1 \in DOMAIN v /\ v[j - 1] = s[j] /\ 1 < j
  <2> SUFFICES ASSUME NEW j \in DOMAIN s, j # 1 PROVE j - 1 \in DOMAIN v /\ v[j - 1] = s[j] /\ 1 < j
    OBVIOUS
  <2>1. j - 1 \in Nat \ {0} /\ (j - 1) + 1 = j /\ 1 < j
    BY <1>2
  <2> QED BY <1>1, <2>1
<1> QED BY <1>3, <1>4, <1>5, <1>6 DEF v

LEMMA BroughtStep ==
    ASSUME NEW s \in Seq(Change), s # <<>>, disk' = AfterChange(Head(s)), NEW c,
           NEW j \in DOMAIN s, Brought(disk, s, j, c)
    PROVE  /\ j = 1 => s[j].path \in DOMAIN disk /\ disk[s[j].path] = c
           /\ j # 1 => Brought(disk', Tail(s), j - 1, c)
<1> DEFINE e == Head(s)
           v == Tail(s)
           a == s[j].path
<1>1. /\ e = s[1] /\ e \in Change /\ 1 \in DOMAIN s
      /\ \A i : i \in DOMAIN v <=> i \in Nat \ {0} /\ i + 1 \in DOMAIN s
      /\ \A i \in DOMAIN v : v[i] = s[i + 1]
  BY TailOf
<1>2. DOMAIN s \subseteq Nat \ {0} /\ DOMAIN v \subseteq Nat \ {0}
  OBVIOUS
<1>3. disk' = AfterChange(e)
  OBVIOUS
<1>4. \A i \in DOMAIN s : i # 1 => i - 1 \in DOMAIN v /\ v[i - 1] = s[i] /\ 1 < i
  BY Shifted
<1> HIDE DEF e, v
<1>5. CASE j = 1
  <2>1. \A k \in DOMAIN s : ~(k < j)
    BY <1>2, <1>5
  <2> QED BY <1>5, <2>1 DEF Brought
<1>6. CASE j # 1
  <2>1. j - 1 \in DOMAIN v /\ v[j - 1].path = a /\ 1 < j
    BY <1>4, <1>6
  <2> HIDE DEF a
  <2>2. CASE /\ a \in DOMAIN disk /\ disk[a] = c
             /\ \A i \in DOMAIN s : i < j => Leaves(s[i], a)
    <3>1. Leaves(e, a)
      BY <1>1, <2>1, <2>2
    <3>2. a \in DOMAIN disk' /\ disk'[a] = c
      BY <1>1, <1>3, <2>2, <3>1, Untouched
    <3>3. \A i \in DOMAIN v : i < j - 1 => Leaves(v[i], a)
      <4> SUFFICES ASSUME NEW i \in DOMAIN v, i < j - 1 PROVE Leaves(v[i], a)
        OBVIOUS
      <4>1. i + 1 \in DOMAIN s /\ v[i] = s[i + 1] /\ i + 1 < j
        BY <1>1, <1>2
      <4> QED BY <2>2, <4>1
    <3> QED BY <1>6, <2>1, <3>2, <3>3 DEF Brought, v
  <2>3. ASSUME NEW k \in DOMAIN s, k < j, Writes(s[k], a, c),
               \A i \in DOMAIN s : k < i /\ i < j => Leaves(s[i], a)
        PROVE  Brought(disk', v, j - 1, c)
    <3>1. \A i \in DOMAIN v : k - 1 < i /\ i < j - 1 => Leaves(v[i], a)
      <4> SUFFICES ASSUME NEW i \in DOMAIN v, k - 1 < i, i < j - 1 PROVE Leaves(v[i], a)
        OBVIOUS
      <4>1. i + 1 \in DOMAIN s /\ v[i] = s[i + 1] /\ i + 1 < j /\ k < i + 1
        <5>1. i \in Nat /\ k \in Nat /\ j \in Nat
          BY <1>2
        <5> QED BY <1>1, <5>1
      <4> QED BY <2>3, <4>1
    <3>2. CASE k = 1
      <4>1. a \in DOMAIN disk' /\ disk'[a] = c
        BY <1>1, <1>3, <2>3, <3>2, Effect DEF Writes
      <4>2. \A i \in DOMAIN v : i < j - 1 => Leaves(v[i], a)
        BY <1>2, <3>1, <3>2
      <4> QED BY <2>1, <4>1, <4>2 DEF Brought
    <3>3. CASE k # 1
      <4>1. k - 1 \in DOMAIN v /\ v[k - 1] = s[k] /\ k - 1 < j - 1
        BY <1>2, <1>4, <2>3, <3>3
      <4> QED BY <2>1, <2>3, <3>1, <4>1 DEF Brought
    <3> QED BY <3>2, <3>3
  <2>4. Brought(disk', v, j - 1, c)
    <3>1. \/ /\ a \in DOMAIN disk /\ disk[a] = c
             /\ \A i \in DOMAIN s : i < j => Leaves(s[i], a)
          \/ \E k \in DOMAIN s :
                /\ k < j /\ Writes(s[k], a, c)
                /\ \A i \in DOMAIN s : k < i /\ i < j => Leaves(s[i], a)
      BY DEF Brought, a
    <3>2. CASE /\ a \in DOMAIN disk /\ disk[a] = c
               /\ \A i \in DOMAIN s : i < j => Leaves(s[i], a)
      BY <1>6, <2>2, <3>2 DEF v
    <3> QED BY <2>3, <3>1, <3>2
  <2> QED BY <1>6, <2>4 DEF v
<1> QED BY <1>5, <1>6

LEMMA EndsStep ==
    ASSUME NEW s \in Seq(Change), s # <<>>, disk' = AfterChange(Head(s)), NEW p, NEW c,
           Ends(disk, s, p, c)
    PROVE  Ends(disk', Tail(s), p, c)
<1> DEFINE e == Head(s)
           v == Tail(s)
<1>1. e = s[1] /\ e \in Change
  BY TailOf
<1>2. /\ \A x : LeftBy(s, x) => LeftBy(v, x) /\ Leaves(s[1], x)
      /\ \A x : LeftAfter(s, 1, x) => LeftBy(v, x)
      /\ \A x, j : j \in DOMAIN s /\ j # 1 /\ LeftAfter(s, j, x) => LeftAfter(v, j - 1, x)
      /\ \A j \in DOMAIN s : j # 1 => j - 1 \in DOMAIN v /\ v[j - 1] = s[j] /\ 1 < j
  BY Shifted
<1>3. disk' = AfterChange(e)
  OBVIOUS
<1>4. \A j \in DOMAIN s : Brought(disk, s, j, c) =>
           /\ j = 1 => s[j].path \in DOMAIN disk /\ disk[s[j].path] = c
           /\ j # 1 => Brought(disk', v, j - 1, c)
  BY BroughtStep
<1> HIDE DEF e, v
<1>5. CASE Stays(disk, s, p, c)
  BY <1>1, <1>2, <1>3, <1>5, Untouched DEF Ends, Stays, v
<1>6. CASE Lands(s, p, c)
  <2>1. PICK j \in DOMAIN s : Writes(s[j], p, c) /\ LeftAfter(s, j, p)
    BY <1>6 DEF Lands
  <2>2. CASE j = 1
    <3>1. p \in DOMAIN disk' /\ disk'[p] = c
      BY <1>1, <1>3, <2>1, <2>2, Effect DEF Writes
    <3> QED BY <1>2, <2>1, <2>2, <3>1 DEF Ends, Stays, v
  <2>3. CASE j # 1
    <3>1. j - 1 \in DOMAIN v /\ Writes(v[j - 1], p, c) /\ LeftAfter(v, j - 1, p)
      BY <1>2, <2>1, <2>3
    <3> QED BY <3>1 DEF Ends, Lands, v
  <2> QED BY <2>2, <2>3
<1>7. CASE Comes(disk, s, p, c)
  <2>1. PICK j \in DOMAIN s : /\ s[j].do = "rename" /\ s[j].to = p /\ s[j].path # p
                              /\ LeftAfter(s, j, p) /\ Brought(disk, s, j, c)
    BY <1>7 DEF Comes
  <2>2. CASE j = 1
    <3>1. s[1].path \in DOMAIN disk /\ disk[s[1].path] = c
      BY <1>4, <2>1, <2>2
    <3>2. p \in DOMAIN disk' /\ disk'[p] = c
      BY <1>1, <1>3, <2>1, <2>2, <3>1, Effect
    <3> QED BY <1>2, <2>1, <2>2, <3>2 DEF Ends, Stays, v
  <2>3. CASE j # 1
    <3>1. j - 1 \in DOMAIN v /\ v[j - 1] = s[j] /\ LeftAfter(v, j - 1, p)
          /\ Brought(disk', v, j - 1, c)
      BY <1>2, <1>4, <2>1, <2>3
    <3> QED BY <2>1, <3>1 DEF Ends, Comes, v
  <2> QED BY <2>2, <2>3
<1> QED BY <1>5, <1>6, <1>7 DEF Ends

LEMMA SureStep ==
    ASSUME NEW s \in Seq(Change), s # <<>>, disk' = AfterChange(Head(s)), Sure(disk, s)
    PROVE  /\ Head(s).do = "rename" /\ Head(s).must => Head(s).path \in DOMAIN disk
           /\ Sure(disk', Tail(s))
<1> DEFINE v == Tail(s)
<1>1. /\ Head(s) = s[1] /\ 1 \in DOMAIN s
      /\ \A i : i \in DOMAIN v <=> i \in Nat \ {0} /\ i + 1 \in DOMAIN s
      /\ \A i \in DOMAIN v : v[i] = s[i + 1]
  BY TailOf
<1>2. \A c : \A j \in DOMAIN s : Brought(disk, s, j, c) =>
           /\ j = 1 => s[j].path \in DOMAIN disk /\ disk[s[j].path] = c
           /\ j # 1 => Brought(disk', v, j - 1, c)
  BY BroughtStep
<1> HIDE DEF v
<1>3. Head(s).do = "rename" /\ Head(s).must => Head(s).path \in DOMAIN disk
  BY <1>1, <1>2 DEF Sure
<1>4. ASSUME NEW i \in DOMAIN v, v[i].do = "rename", v[i].must
      PROVE  \E c \in TextFile : Brought(disk', v, i, c)
  <2>1. i + 1 \in DOMAIN s /\ s[i + 1] = v[i] /\ i + 1 # 1 /\ (i + 1) - 1 = i
    BY <1>1
  <2>2. PICK c \in TextFile : Brought(disk, s, i + 1, c)
    BY <1>4, <2>1 DEF Sure
  <2> QED BY <1>2, <2>1, <2>2
<1> QED BY <1>3, <1>4 DEF Sure, v

LEMMA RemovedStep ==
    ASSUME NEW s \in Seq(Change), s # <<>>, disk' = AfterChange(Head(s)), NEW p,
           Removed(disk, s, p)
    PROVE  Removed(disk', Tail(s), p)
<1> DEFINE e == Head(s)
           v == Tail(s)
<1>1. e = s[1] /\ e \in Change
  BY TailOf
<1>2. /\ \A x : LeftBy(s, x) => LeftBy(v, x) /\ Leaves(s[1], x)
      /\ \A x : LeftAfter(s, 1, x) => LeftBy(v, x)
      /\ \A x, j : j \in DOMAIN s /\ j # 1 /\ LeftAfter(s, j, x) => LeftAfter(v, j - 1, x)
      /\ \A j \in DOMAIN s : j # 1 => j - 1 \in DOMAIN v /\ v[j - 1] = s[j] /\ 1 < j
  BY Shifted
<1>3. disk' = AfterChange(e)
  OBVIOUS
<1> HIDE DEF e, v
<1>4. CASE p \notin DOMAIN disk /\ LeftBy(s, p)
  BY <1>1, <1>2, <1>3, <1>4, Untouched DEF Removed, v
<1>5. ASSUME NEW j \in DOMAIN s, s[j].do \in {"unlink", "rename"}, s[j].path = p,
             s[j].do = "rename" => s[j].to # p, LeftAfter(s, j, p)
      PROVE  Removed(disk', v, p)
  <2>1. CASE j = 1
    <3>1. p \notin DOMAIN disk'
      BY <1>1, <1>3, <1>5, <2>1, Effect
    <3> QED BY <1>2, <1>5, <2>1, <3>1 DEF Removed
  <2>2. CASE j # 1
    <3>1. j - 1 \in DOMAIN v /\ v[j - 1] = s[j] /\ LeftAfter(v, j - 1, p)
      BY <1>2, <1>5, <2>2
    <3> QED BY <1>5, <3>1 DEF Removed
  <2> QED BY <2>1, <2>2
<1> QED BY <1>4, <1>5 DEF Removed, v

-----------------------------------------------------------------------------
(* What is not touched ends in the same way *)

LEMMA EndsFrame ==
    ASSUME NEW d, NEW e, NEW s, NEW p, NEW c, Ends(d, s, p, c), Same(d, e, p),
           \A j \in DOMAIN s : s[j].do = "rename" => Same(d, e, s[j].path)
    PROVE  Ends(e, s, p, c)
<1>1. Stays(d, s, p, c) => Stays(e, s, p, c)
  BY DEF Stays, Same
<1>2. Comes(d, s, p, c) => Comes(e, s, p, c)
  BY DEF Comes, Brought, Same
<1> QED BY <1>1, <1>2 DEF Ends

LEMMA RemovedFrame ==
    ASSUME NEW d, NEW e, NEW s, NEW p, Removed(d, s, p), Same(d, e, p)
    PROVE  Removed(e, s, p)
BY DEF Removed, Same

LEMMA SureFrame ==
    ASSUME NEW d, NEW e, NEW s, Sure(d, s),
           \A j \in DOMAIN s : s[j].do = "rename" => Same(d, e, s[j].path)
    PROVE  Sure(e, s)
BY DEF Sure, Brought, Same

LEMMA HoldsFrame ==
    ASSUME NEW d, NEW e, NEW s, NEW N, NEW q, NEW doc, Holds(d, s, q, doc),
           q.filename \in N, HoldsOn(d, e, N, q),
           \A j \in DOMAIN s : s[j].do = "rename" => s[j].path \in FilesOf(N)
    PROVE  Holds(e, s, q, doc)
<1>1. \A j \in DOMAIN s : s[j].do = "rename" => Same(d, e, s[j].path)
  BY DEF HoldsOn
<1>2. \A p, c : Ends(d, s, p, c) /\ Same(d, e, p) => Ends(e, s, p, c)
  BY <1>1, EndsFrame
<1>3. \A p \in {metapath(q.filename), filepath(q.filename), undopath(q.filename)} : Same(d, e, p)
  BY DEF HoldsOn, FilesOf
<1>4. \A i \in DOMAIN q.checkpoints : Same(d, e, q.checkpoints[i].filepath)
  BY DEF HoldsOn, PathsOf
<1> QED BY <1>2, <1>3, <1>4 DEF Holds

LEMMA HoldsStep ==
    ASSUME NEW s \in Seq(Change), s # <<>>, disk' = AfterChange(Head(s)), NEW q, NEW doc,
           Holds(disk, s, q, doc)
    PROVE  Holds(disk', Tail(s), q, doc)
<1>1. \A p, c : Ends(disk, s, p, c) => Ends(disk', Tail(s), p, c)
  BY EndsStep
<1> QED BY <1>1 DEF Holds

LEMMA FinalStep ==
    ASSUME NEW t, todo[t] \in Seq(Change), todo[t] # <<>>, NEW q, Final(t, q),
           todo'[t] = Tail(todo[t]), on'[t] = on[t],
           rec'[on[t]] = IF Head(todo[t]).do = "memory" THEN Head(todo[t]).record ELSE rec[on[t]]
    PROVE  Final(t, q)'
<1> DEFINE s == todo[t]
           v == Tail(s)
<1>1. /\ Head(s) = s[1] /\ 1 \in DOMAIN s
      /\ \A e \in Range(v) : e \in Range(s)
      /\ \A i : i \in DOMAIN v <=> i \in Nat \ {0} /\ i + 1 \in DOMAIN s
      /\ \A i \in DOMAIN v : v[i] = s[i + 1]
  BY TailOf
<1>2. s[1] \in Range(s) /\ DOMAIN s \subseteq Nat \ {0}
  BY <1>1 DEF Range
<1>3. todo'[t] = v
  OBVIOUS
<1> HIDE DEF s, v
<1>4. CASE q = rec[on[t]] /\ \A e \in Range(s) : e.do # "memory"
  <2>1. Head(s).do # "memory" /\ \A e \in Range(v) : e.do # "memory"
    BY <1>1, <1>2, <1>4
  <2> QED BY <1>3, <1>4, <2>1 DEF Final, FinalOf, s
<1>5. ASSUME NEW j \in DOMAIN s, s[j].do = "memory", s[j].record = q,
             \A i \in DOMAIN s : i > j => s[i].do # "memory"
      PROVE  Final(t, q)'
  <2>1. CASE j = 1
    <3>1. \A e \in Range(v) : e.do # "memory"
      <4> SUFFICES ASSUME NEW i \in DOMAIN v PROVE v[i].do # "memory"
        BY DEF Range
      <4>1. i + 1 \in DOMAIN s /\ i + 1 > 1 /\ v[i] = s[i + 1]
        BY <1>1
      <4> QED BY <1>5, <2>1, <4>1
    <3>2. rec'[on[t]] = q
      BY <1>1, <1>5, <2>1 DEF s
    <3> QED BY <1>3, <3>1, <3>2 DEF Final, FinalOf
  <2>2. CASE j # 1
    <3>1. j - 1 \in Nat \ {0} /\ (j - 1) + 1 = j
      BY <1>2, <2>2
    <3>2. j - 1 \in DOMAIN v /\ v[j - 1] = s[j]
      BY <1>1, <3>1
    <3>3. \A i \in DOMAIN v : i > j - 1 => v[i].do # "memory"
      <4> SUFFICES ASSUME NEW i \in DOMAIN v, i > j - 1 PROVE v[i].do # "memory"
        OBVIOUS
      <4>1. i + 1 \in DOMAIN s /\ i + 1 > j /\ v[i] = s[i + 1]
        BY <1>1, <3>1
      <4> QED BY <1>5, <4>1
    <3> QED BY <1>3, <1>5, <3>2, <3>3 DEF Final, FinalOf
  <2> QED BY <2>1, <2>2
<1> QED BY <1>4, <1>5 DEF Final, FinalOf, s

\* The record that is left is the one that was there, or is among the changes.
LEMMA FinalDrafted ==
    ASSUME NEW s, NEW q0, NEW q, FinalOf(s, q0, q)
    PROVE  q \in {q0} \cup {e.record : e \in {x \in Range(s) : x.do = "memory"}}
<1>1. ASSUME NEW j \in DOMAIN s, s[j].do = "memory", s[j].record = q
      PROVE  q \in {e.record : e \in {x \in Range(s) : x.do = "memory"}}
  BY <1>1 DEF Range
<1> QED BY <1>1 DEF FinalOf

-----------------------------------------------------------------------------
(* Programs put together *)

LEMMA LandsCat ==
    ASSUME NEW s1 \in Seq(Change), NEW s2 \in Seq(Change), NEW p, NEW c
    PROVE  /\ Lands(s2, p, c) => Lands(s1 \o s2, p, c)
           /\ Lands(s1, p, c) /\ LeftBy(s2, p) => Lands(s1 \o s2, p, c)
           /\ LeftBy(s1, p) /\ LeftBy(s2, p) => LeftBy(s1 \o s2, p)
<1> DEFINE s == s1 \o s2
           k == Len(s1)
<1>1. /\ s \in Seq(Change) /\ Len(s) = k + Len(s2) /\ k \in Nat /\ Len(s2) \in Nat
      /\ \A i \in 1..(k + Len(s2)) : s[i] = IF i <= k THEN s1[i] ELSE s2[i - k]
  BY Joined
<1>2. DOMAIN s = 1..(k + Len(s2)) /\ DOMAIN s1 = 1..k /\ DOMAIN s2 = 1..Len(s2)
  BY <1>1
<1>3. Range(s) = Range(s1) \cup Range(s2)
  BY CatRange
<1> HIDE DEF s, k
<1>4. Lands(s2, p, c) => Lands(s, p, c)
  <2> SUFFICES ASSUME NEW j \in DOMAIN s2, Writes(s2[j], p, c), LeftAfter(s2, j, p)
               PROVE  Lands(s, p, c)
    BY DEF Lands
  <2>1. j + k \in DOMAIN s /\ s[j + k] = s2[j]
    BY <1>1, <1>2
  <2>2. ASSUME NEW i \in DOMAIN s, i > j + k PROVE Leaves(s[i], p)
    <3>1. i - k \in DOMAIN s2 /\ i - k > j /\ s[i] = s2[i - k]
      BY <1>1, <1>2, <2>2
    <3> QED BY <3>1 DEF LeftAfter
  <2> QED BY <2>1, <2>2 DEF Lands, LeftAfter
<1>5. Lands(s1, p, c) /\ LeftBy(s2, p) => Lands(s, p, c)
  <2> SUFFICES ASSUME NEW j \in DOMAIN s1, Writes(s1[j], p, c), LeftAfter(s1, j, p), LeftBy(s2, p)
               PROVE  Lands(s, p, c)
    BY DEF Lands
  <2>1. j \in DOMAIN s /\ s[j] = s1[j]
    BY <1>1, <1>2
  <2>2. ASSUME NEW i \in DOMAIN s, i > j PROVE Leaves(s[i], p)
    <3>1. CASE i <= k
      <4>1. i \in DOMAIN s1 /\ s[i] = s1[i]
        BY <1>1, <1>2, <3>1
      <4> QED BY <2>2, <4>1 DEF LeftAfter
    <3>2. CASE ~(i <= k)
      <4>1. i - k \in DOMAIN s2 /\ s[i] = s2[i - k]
        BY <1>1, <1>2, <3>2
      <4>2. s2[i - k] \in Range(s2)
        BY <4>1 DEF Range
      <4> QED BY <4>1, <4>2 DEF LeftBy
    <3> QED BY <3>1, <3>2
  <2> QED BY <2>1, <2>2 DEF Lands, LeftAfter
<1>6. LeftBy(s1, p) /\ LeftBy(s2, p) => LeftBy(s, p)
  BY <1>3 DEF LeftBy
<1> QED BY <1>4, <1>5, <1>6 DEF s

\* A file written through stdio, and the record and its sidecar.
LEMMA LandsWritten ==
    ASSUME NEW p \in Seq(Token), NEW c \in TextFile \cup Sidecar
    PROVE  /\ Lands(ss_write_file_content(p, c), p, c)
           /\ \A x : x # p => LeftBy(ss_write_file_content(p, c), x)
           /\ \A e \in Range(ss_write_file_content(p, c)) : e.do # "memory"
<1> DEFINE s == ss_write_file_content(p, c)
<1>1. s \in Seq(Change) /\ Len(s) = 2 /\ s[2] = Close(p, c) /\ Range(s) = {Open(p), Close(p, c)}
  BY Written
<1> HIDE DEF s
<1>2. Lands(s, p, c)
  <2>1. 2 \in DOMAIN s /\ \A i \in DOMAIN s : ~(i > 2)
    BY <1>1
  <2>2. Writes(s[2], p, c)
    BY <1>1 DEF Writes, Close
  <2> QED BY <2>1, <2>2 DEF Lands, LeftAfter
<1>3. \A x : x # p => LeftBy(s, x)
  BY <1>1, Leaving DEF LeftBy
<1>4. \A e \in Range(s) : e.do # "memory"
  BY <1>1 DEF Open, Close
<1> QED BY <1>2, <1>3, <1>4 DEF s

LEMMA EndsCat ==
    ASSUME NEW s1 \in Seq(Change), NEW s2 \in Seq(Change), NEW p, NEW c,
           Ends(disk, s1, p, c), LeftBy(s2, p)
    PROVE  Ends(disk, s1 \o s2, p, c)
<1> DEFINE s == s1 \o s2
           k == Len(s1)
<1>1. /\ s \in Seq(Change) /\ Len(s) = k + Len(s2) /\ k \in Nat /\ Len(s2) \in Nat
      /\ \A i \in 1..(k + Len(s2)) : s[i] = IF i <= k THEN s1[i] ELSE s2[i - k]
  BY Joined
<1>2. DOMAIN s = 1..(k + Len(s2)) /\ DOMAIN s1 = 1..k /\ DOMAIN s2 = 1..Len(s2)
  BY <1>1
<1>3. CASE Stays(disk, s1, p, c)
  BY <1>3, LandsCat DEF Stays, Ends
<1>4. CASE Lands(s1, p, c)
  BY <1>4, LandsCat DEF Ends
<1>5. CASE Comes(disk, s1, p, c)
  <2> HIDE DEF s, k
  <2>1. PICK j \in DOMAIN s1 : /\ s1[j].do = "rename" /\ s1[j].to = p /\ s1[j].path # p
                               /\ LeftAfter(s1, j, p) /\ Brought(disk, s1, j, c)
    BY <1>5 DEF Comes
  <2>2. j \in DOMAIN s /\ \A i \in DOMAIN s1 : i \in DOMAIN s /\ s[i] = s1[i]
    BY <1>1, <1>2
  <2>3. \A i \in DOMAIN s : i < j => i \in DOMAIN s1
    BY <1>1, <1>2
  <2>4. Brought(disk, s, j, c)
    BY <2>1, <2>2, <2>3 DEF Brought
  <2>5. ASSUME NEW i \in DOMAIN s, i > j PROVE Leaves(s[i], p)
    <3>1. CASE i <= k
      BY <1>1, <1>2, <2>1, <2>2, <2>5, <3>1 DEF LeftAfter
    <3>2. CASE ~(i <= k)
      <4>1. i - k \in DOMAIN s2 /\ s[i] = s2[i - k]
        BY <1>1, <1>2, <3>2
      <4>2. s2[i - k] \in Range(s2)
        BY <4>1 DEF Range
      <4> QED BY <4>1, <4>2 DEF LeftBy
    <3> QED BY <3>1, <3>2
  <2> QED BY <2>1, <2>2, <2>4, <2>5 DEF Comes, Ends, LeftAfter, s
<1> QED BY <1>3, <1>4, <1>5 DEF Ends

LEMMA RemovedCat ==
    ASSUME NEW s1 \in Seq(Change), NEW s2 \in Seq(Change), NEW p,
           Removed(disk, s1, p), LeftBy(s2, p)
    PROVE  Removed(disk, s1 \o s2, p)
<1> DEFINE s == s1 \o s2
           k == Len(s1)
<1>1. /\ s \in Seq(Change) /\ Len(s) = k + Len(s2) /\ k \in Nat /\ Len(s2) \in Nat
      /\ \A i \in 1..(k + Len(s2)) : s[i] = IF i <= k THEN s1[i] ELSE s2[i - k]
  BY Joined
<1>2. DOMAIN s = 1..(k + Len(s2)) /\ DOMAIN s1 = 1..k /\ DOMAIN s2 = 1..Len(s2)
  BY <1>1
<1>3. LeftBy(s1, p) => LeftBy(s, p)
  BY LandsCat
<1>4. \A i \in DOMAIN s2 : Leaves(s2[i], p)
  BY DEF LeftBy, Range
<1> HIDE DEF s, k
<1>5. ASSUME NEW j \in DOMAIN s1, s1[j].do \in {"unlink", "rename"}, s1[j].path = p,
             s1[j].do = "rename" => s1[j].to # p, LeftAfter(s1, j, p)
      PROVE  Removed(disk, s, p)
  <2>1. j \in DOMAIN s /\ s[j] = s1[j]
    BY <1>1, <1>2
  <2>2. ASSUME NEW i \in DOMAIN s, i > j PROVE Leaves(s[i], p)
    <3>1. CASE i <= k
      <4>1. i \in DOMAIN s1 /\ s[i] = s1[i]
        BY <1>1, <1>2, <3>1
      <4> QED BY <1>5, <2>2, <4>1 DEF LeftAfter
    <3>2. CASE ~(i <= k)
      <4>1. i - k \in DOMAIN s2 /\ s[i] = s2[i - k]
        BY <1>1, <1>2, <3>2
      <4> QED BY <1>4, <4>1
    <3> QED BY <3>1, <3>2
  <2> QED BY <1>5, <2>1, <2>2 DEF Removed, LeftAfter
<1> QED BY <1>3, <1>5 DEF Removed, s

LEMMA MetaPlan ==
    ASSUME NamesApart, NEW q \in Sidecar, q.filename \in Names, NEW s1 \in Seq(Change)
    PROVE  LET s == s1 \o ss_write_metadata(q)
           IN  /\ s \in Seq(Change)
               /\ (\A e \in Range(s1) : e.do # "memory") => FinalOf(s, q, q)
               /\ Ends(disk, s, metapath(q.filename), q)
               /\ \A x, c : ~IsMeta(x) /\ Ends(disk, s1, x, c) => Ends(disk, s, x, c)
               /\ \A x : ~IsMeta(x) /\ Removed(disk, s1, x) => Removed(disk, s, x)
<1> DEFINE m == metapath(q.filename)
           s2 == ss_write_metadata(q)
           s == s1 \o s2
<1>1. s2 \in Seq(Change) /\ Range(s2) = {Open(m), Close(m, q)}
  BY MetadataWritten
<1>2. s2 = ss_write_file_content(m, q)
  BY DEF ss_write_metadata, ss_write_file_content
<1>3. m \in Seq(Token) /\ IsMeta(m)
  BY Paths DEF FlatPath
<1>4. Lands(s2, m, q) /\ (\A x : x # m => LeftBy(s2, x)) /\ \A e \in Range(s2) : e.do # "memory"
  BY <1>2, <1>3, LandsWritten
<1> HIDE DEF s2, m
<1>5. s \in Seq(Change) /\ Range(s) = Range(s1) \cup Range(s2)
  BY <1>1, CatRange
<1>6. Lands(s, m, q)
  BY <1>1, <1>4, LandsCat
<1>7. \A x : ~IsMeta(x) => LeftBy(s2, x)
  BY <1>3, <1>4
<1>8. \A x, c : ~IsMeta(x) /\ Ends(disk, s1, x, c) => Ends(disk, s, x, c)
  BY <1>1, <1>7, EndsCat
<1>9. \A x : ~IsMeta(x) /\ Removed(disk, s1, x) => Removed(disk, s, x)
  BY <1>1, <1>7, RemovedCat
<1>10. (\A e \in Range(s1) : e.do # "memory") => FinalOf(s, q, q)
  BY <1>4, <1>5 DEF FinalOf
<1> QED BY <1>5, <1>6, <1>8, <1>9, <1>10 DEF Ends, s2, m

LEMMA SavedPlan ==
    ASSUME NamesApart, NEW q \in Sidecar, q.filename \in Names, NEW s1 \in Seq(Change), NEW q0
    PROVE  LET s == s1 \o Save(q)
           IN  /\ s \in Seq(Change)
               /\ FinalOf(s, q0, q)
               /\ Ends(disk, s, metapath(q.filename), q)
               /\ \A x, c : ~IsMeta(x) /\ Ends(disk, s1, x, c) => Ends(disk, s, x, c)
<1> DEFINE m == metapath(q.filename)
           w == ss_write_metadata(q)
           one == <<Memory(q)>>
           s2 == Save(q)
           s == s1 \o s2
<1>1. w \in Seq(Change) /\ Range(w) = {Open(m), Close(m, q)}
  BY MetadataWritten
<1>2. one \in Seq(Change) /\ Len(one) = 1 /\ one[1] = Memory(q)
  BY DEF Memory, Change
<1>3. s2 = one \o w
  BY DEF Save
<1>4. s2 \in Seq(Change) /\ Len(s2) = 1 + Len(w)
      /\ \A i \in 1..(1 + Len(w)) : s2[i] = IF i <= 1 THEN one[i] ELSE w[i - 1]
  BY <1>1, <1>2, <1>3, Joined
<1>5. \A e \in Range(w) : e.do # "memory"
  BY <1>1 DEF Open, Close
<1>6. Lands(s2, m, q)
  <2>1. IsMeta(m) /\ m \in Seq(Token)
    BY Paths DEF FlatPath
  <2>2. w = ss_write_file_content(m, q)
    BY DEF ss_write_metadata, ss_write_file_content
  <2>3. Lands(w, m, q)
    BY <2>1, <2>2, LandsWritten
  <2> QED BY <1>1, <1>2, <1>3, <2>3, LandsCat
<1>7. \A x : ~IsMeta(x) => LeftBy(s2, x)
  BY SaveQuiet DEF LeftBy
<1> HIDE DEF s2, m, one, w
<1>8. s \in Seq(Change) /\ Len(s) = Len(s1) + Len(s2)
      /\ \A i \in 1..(Len(s1) + Len(s2)) : s[i] = IF i <= Len(s1) THEN s1[i] ELSE s2[i - Len(s1)]
  BY <1>4, Joined
<1>9. Lands(s, m, q)
  BY <1>4, <1>6, LandsCat
<1>10. \A x, c : ~IsMeta(x) /\ Ends(disk, s1, x, c) => Ends(disk, s, x, c)
  BY <1>4, <1>7, EndsCat
<1>11. FinalOf(s, q0, q)
  <2> DEFINE j == Len(s1) + 1
  <2>1. Len(s1) \in Nat /\ Len(w) \in Nat /\ Len(s2) \in Nat
    BY <1>1, <1>4
  <2>2. DOMAIN s = 1..(Len(s1) + Len(s2)) /\ DOMAIN w = 1..Len(w)
    BY <1>1, <1>8
  <2>3. j \in DOMAIN s /\ s[j] = s2[1] /\ s2[1] = one[1]
    BY <1>4, <1>8, <2>1, <2>2
  <2>4. s[j].do = "memory" /\ s[j].record = q
    BY <1>2, <2>3 DEF Memory
  <2>5. ASSUME NEW i \in DOMAIN s, i > j PROVE s[i].do # "memory"
    <3>1. s[i] = s2[i - Len(s1)] /\ i - Len(s1) \in 2..Len(s2)
      BY <1>8, <2>1, <2>2, <2>5
    <3>2. s2[i - Len(s1)] = w[i - Len(s1) - 1] /\ i - Len(s1) - 1 \in DOMAIN w
      BY <1>4, <2>1, <2>2, <3>1
    <3> QED BY <1>5, <3>1, <3>2 DEF Range
  <2> QED BY <2>3, <2>4, <2>5 DEF FinalOf
<1> QED BY <1>8, <1>9, <1>10, <1>11 DEF Ends, s2, m

LEMMA Held ==
    ASSUME NamesApart, NEW q \in FileRecord, q.filename \in Names, NEW doc \in Doc,
           Holds(disk, <<>>, q, doc)
    PROVE  /\ OnDisk(q, doc) /\ q \in Sidecar
           /\ metapath(q.filename) \in DOMAIN disk /\ disk[metapath(q.filename)] = q
           /\ \A k \in Names : \A i \in DOMAIN q.checkpoints :
                 LET p == q.checkpoints[i].filepath
                 IN  p \in CkptPath /\ ~IsMeta(p)
                     /\ p # filepath(k) /\ p # undopath(k) /\ p # temp_path(k)
           /\ DOMAIN q.checkpoints = 1..Len(q.checkpoints) /\ Len(q.checkpoints) \in Nat
           /\ DOMAIN doc.checkpoints = 1..Len(q.checkpoints)
           /\ Text(doc.text) \in TextFile
           /\ q.undo_available => Text(doc.undo[1]) \in TextFile /\ doc.undo[1] \in Texts \cup {NoText}
           /\ \A i \in DOMAIN q.checkpoints :
                 /\ Text(doc.checkpoints[i][2]) \in TextFile
                 /\ doc.checkpoints[i] \in Tags \X (Texts \cup {NoText})
<1>1. OnDisk(q, doc) /\ metapath(q.filename) \in DOMAIN disk /\ disk[metapath(q.filename)] = q
  BY EndsNone DEF Holds, OnDisk
<1>2. q \in Sidecar
  BY NameTypes DEF Sidecar
<1>3. \A k \in Names : \A i \in DOMAIN q.checkpoints :
         LET p == q.checkpoints[i].filepath
         IN  p \in CkptPath /\ ~IsMeta(p)
             /\ p # filepath(k) /\ p # undopath(k) /\ p # temp_path(k)
  <2> SUFFICES ASSUME NEW k \in Names, NEW i \in DOMAIN q.checkpoints
               PROVE  LET p == q.checkpoints[i].filepath
                      IN  p \in CkptPath /\ ~IsMeta(p)
                          /\ p # filepath(k) /\ p # undopath(k) /\ p # temp_path(k)
    OBVIOUS
  <2>1. q.checkpoints[i].filepath \in CkptPath
    <3>1. q.checkpoints \in Seq([tag : Tags, filepath : CkptPath])
      BY DEF FileRecord
    <3> DEFINE S == [tag : Tags, filepath : CkptPath]
               v == q.checkpoints
    <3>2. v \in Seq(S) /\ i \in DOMAIN v
      BY <3>1
    <3>3. v[i] \in S
      <4> HIDE DEF S, v
      <4> QED BY <3>2
    <3> QED BY <3>3
  <2>2. {filepath(k), metapath(k), undopath(k), temp_path(k)} \subseteq FlatPath \ CkptPath
    BY Paths
  <2> QED BY <2>1, <2>2 DEF CkptPath
<1>4. q.checkpoints \in Seq([tag : Tags, filepath : CkptPath])
      /\ doc.checkpoints \in Seq(Tags \X (Texts \cup {NoText})) /\ doc.undo \in Seq(Texts \cup {NoText})
      /\ doc.text \in Texts \cup {NoText}
  BY DEF FileRecord, Doc
<1>5. DOMAIN q.checkpoints = 1..Len(q.checkpoints) /\ Len(q.checkpoints) \in Nat
      /\ Len(doc.checkpoints) = Len(q.checkpoints) /\ DOMAIN doc.checkpoints = 1..Len(doc.checkpoints)
  BY <1>4 DEF Holds
<1>6. q.undo_available => doc.undo[1] \in Texts \cup {NoText}
  <2> SUFFICES ASSUME q.undo_available PROVE doc.undo[1] \in Texts \cup {NoText}
    OBVIOUS
  <2>1. doc.undo # <<>>
    BY DEF Holds
  <2> QED BY <1>4, <2>1
<1>7. \A i \in DOMAIN q.checkpoints :
         doc.checkpoints[i] \in Tags \X (Texts \cup {NoText}) /\ doc.checkpoints[i][2] \in Texts \cup {NoText}
  BY <1>4, <1>5
<1>8. \A x \in Texts \cup {NoText} : Text(x) \in TextFile
  BY DEF Text, TextFile
<1> QED BY <1>1, <1>2, <1>3, <1>4, <1>5, <1>6, <1>7, <1>8

\* What a program that leaves the list of checkpoints alone has to show.
LEMMA SameCheckpoints ==
    ASSUME NamesApart, NEW q \in FileRecord, q.filename \in Names, NEW doc \in Doc,
           Holds(disk, <<>>, q, doc),
           NEW q2, NEW doc2, NEW s, NEW s1 \in Seq(Change),
           q2.filename = q.filename, q2.owner = doc2.owner, q2.acl = doc2.acl,
           q2.checkpoints = q.checkpoints, doc2.checkpoints = doc.checkpoints,
           Ends(disk, s, metapath(q.filename), q2),
           \A x, c : ~IsMeta(x) /\ Ends(disk, s1, x, c) => Ends(disk, s, x, c),
           Ends(disk, s1, filepath(q.filename), Text(doc2.text)),
           IF q2.undo_available
           THEN /\ doc2.undo # <<>> /\ doc2.undo = <<doc2.undo[1]>>
                /\ Ends(disk, s1, undopath(q.filename), Text(doc2.undo[1]))
           ELSE doc2.undo = <<>>,
           \A p : p \notin {filepath(q.filename), undopath(q.filename), temp_path(q.filename)} => LeftBy(s1, p)
    PROVE  Holds(disk, s, q2, doc2)
<1> DEFINE n == q.filename
<1>1. ~IsMeta(filepath(n)) /\ ~IsMeta(undopath(n))
  BY Paths
<1>2. Ends(disk, s, filepath(n), Text(doc2.text))
      /\ (q2.undo_available => Ends(disk, s, undopath(n), Text(doc2.undo[1])))
  BY <1>1
<1>3. ASSUME NEW i \in DOMAIN q.checkpoints
      PROVE  Ends(disk, s, q.checkpoints[i].filepath, Text(doc.checkpoints[i][2]))
  <2> DEFINE p == q.checkpoints[i].filepath
  <2>1. p \notin {filepath(n), undopath(n), temp_path(n)} /\ ~IsMeta(p)
    BY <1>3, Held
  <2>2. p \in DOMAIN disk /\ disk[p] = Text(doc.checkpoints[i][2])
    BY <1>3, Held DEF OnDisk
  <2> HIDE DEF p
  <2>3. Ends(disk, s1, p, Text(doc.checkpoints[i][2]))
    BY <2>1, <2>2 DEF Ends, Stays
  <2> QED BY <2>1, <2>3 DEF p
<1>4. /\ Len(doc.checkpoints) = Len(q.checkpoints)
      /\ \A i \in DOMAIN q.checkpoints : doc.checkpoints[i][1] = q.checkpoints[i].tag
      /\ \A i, j \in DOMAIN q.checkpoints : i # j =>
            /\ q.checkpoints[i].filepath # q.checkpoints[j].filepath
            /\ q.checkpoints[i].tag # q.checkpoints[j].tag
  BY DEF Holds
<1> QED BY <1>2, <1>3, <1>4 DEF Holds

\* ETIRW and REVERT.
LEMMA ReplaceAchieves ==
    ASSUME NamesApart, NEW q \in FileRecord, q.filename \in Names, NEW doc \in Doc,
           Holds(disk, <<>>, q, doc), NEW x \in Texts \cup {NoText}
    PROVE  LET n == q.filename
               s1 == ss_write_file_content(undopath(n), disk[filepath(n)])
                         \o ss_write_file_content(filepath(n), Text(x))
           IN  Achieves(s1 \o Save([q EXCEPT !.undo_available = TRUE]), q,
                        [doc EXCEPT !.text = x, !.undo = <<doc.text>>])
<1> DEFINE n == q.filename
           w1 == ss_write_file_content(undopath(n), disk[filepath(n)])
           w2 == ss_write_file_content(filepath(n), Text(x))
           s1 == w1 \o w2
           q2 == [q EXCEPT !.undo_available = TRUE]
           doc2 == [doc EXCEPT !.text = x, !.undo = <<doc.text>>]
           s == s1 \o Save(q2)
<1>1. q2 \in Sidecar /\ q2.filename = n /\ q2.owner = q.owner /\ q2.acl = q.acl
      /\ q2.checkpoints = q.checkpoints /\ q2.undo_available
  BY NameTypes DEF FileRecord, Sidecar
<1>2. doc2 \in Doc /\ doc2.owner = doc.owner /\ doc2.acl = doc.acl
      /\ doc2.checkpoints = doc.checkpoints /\ doc2.text = x /\ doc2.undo = <<doc.text>>
  <2>1. doc.text \in Texts \cup {NoText}
    BY DEF Doc
  <2>2. <<doc.text>> \in Seq(Texts \cup {NoText})
    BY <2>1
  <2> DEFINE v == <<doc.text>>
             X == Seq(Texts \cup {NoText})
             C == Seq(Tags \X (Texts \cup {NoText}))
  <2>3. v \in X
    BY <2>2
  <2> HIDE DEF v, X, C
  <2>4. doc2 = [doc EXCEPT !.text = x, !.undo = v] /\ doc \in [owner : Owners \cup {NoUser},
           acl : SUBSET Readers, text : Texts \cup {NoText}, undo : X, checkpoints : C]
    BY DEF Doc, v, X, C
  <2> HIDE DEF doc2
  <2>5. doc2 \in [owner : Owners \cup {NoUser},
           acl : SUBSET Readers, text : Texts \cup {NoText}, undo : X, checkpoints : C]
        /\ doc2.owner = doc.owner /\ doc2.acl = doc.acl
        /\ doc2.checkpoints = doc.checkpoints /\ doc2.text = x /\ doc2.undo = v
    BY <2>3, <2>4
  <2> QED BY <2>5 DEF Doc, X, C, v
<1>3. disk[filepath(n)] = Text(doc.text) /\ Text(doc.text) \in TextFile /\ Text(x) \in TextFile
  BY Held, ZenonT(60) DEF OnDisk, Text, TextFile
<1>4. /\ filepath(n) # undopath(n) /\ filepath(n) \in Seq(Token) /\ undopath(n) \in Seq(Token)
  BY Paths DEF FlatPath
<1>5. w1 \in Seq(Change) /\ w2 \in Seq(Change)
  BY <1>3, <1>4, Written
<1>6. /\ Lands(w1, undopath(n), Text(doc.text)) /\ \A p : p # undopath(n) => LeftBy(w1, p)
      /\ Lands(w2, filepath(n), Text(x)) /\ \A p : p # filepath(n) => LeftBy(w2, p)
  BY <1>3, <1>4, LandsWritten
<1> HIDE DEF w1, w2, q2, doc2
<1>7. s1 \in Seq(Change)
  BY <1>5, Joined
<1>8. Lands(s1, undopath(n), Text(doc.text)) /\ Lands(s1, filepath(n), Text(x))
  BY <1>4, <1>5, <1>6, LandsCat
<1>9. \A p : p \notin {filepath(n), undopath(n), temp_path(n)} => LeftBy(s1, p)
  BY <1>5, <1>6, LandsCat
<1> HIDE DEF s1
<1>10. /\ FinalOf(s, q, q2) /\ Ends(disk, s, metapath(n), q2)
       /\ \A p, c : ~IsMeta(p) /\ Ends(disk, s1, p, c) => Ends(disk, s, p, c)
  BY <1>1, <1>7, SavedPlan
<1> HIDE DEF s
<1>11. Ends(disk, s1, filepath(n), Text(doc2.text)) /\ Ends(disk, s1, undopath(n), Text(doc2.undo[1]))
       /\ doc2.undo # <<>> /\ doc2.undo = <<doc2.undo[1]>>
  BY <1>2, <1>8 DEF Ends
<1>12. q.owner = doc.owner /\ q.acl = doc.acl
  BY DEF Holds
<1>13. Holds(disk, s, q2, doc2)
  BY <1>1, <1>2, <1>7, <1>9, <1>10, <1>11, <1>12, SameCheckpoints
<1> QED BY <1>1, <1>2, <1>10, <1>13 DEF Achieves, s, s1, w1, w2, q2, doc2

LEMMA UndoAchieves ==
    ASSUME NamesApart, NEW q \in FileRecord, q.filename \in Names, NEW doc \in Doc,
           Holds(disk, <<>>, q, doc), q.undo_available
    PROVE  Achieves(undo(q), q, [doc EXCEPT !.text = doc.undo[1], !.undo = <<>>])
<1> DEFINE n == q.filename
           s1 == ss_write_file_content(filepath(n), disk[undopath(n)])
           q2 == [q EXCEPT !.undo_available = FALSE]
           doc2 == [doc EXCEPT !.text = doc.undo[1], !.undo = <<>>]
           s == s1 \o Save(q2)
<1>1. q2 \in Sidecar /\ q2.filename = n /\ q2.owner = q.owner /\ q2.acl = q.acl
      /\ q2.checkpoints = q.checkpoints /\ ~q2.undo_available
  BY NameTypes DEF FileRecord, Sidecar
<1>2. doc2 \in Doc /\ doc2.owner = doc.owner /\ doc2.acl = doc.acl
      /\ doc2.checkpoints = doc.checkpoints /\ doc2.text = doc.undo[1] /\ doc2.undo = <<>>
  <2>1. doc.undo[1] \in Texts \cup {NoText}
    BY Held
  <2>2. <<>> \in Seq(Texts \cup {NoText})
    OBVIOUS
  <2> DEFINE v == <<>>
             y == doc.undo[1]
             X == Seq(Texts \cup {NoText})
             C == Seq(Tags \X (Texts \cup {NoText}))
  <2>3. v \in X /\ y \in Texts \cup {NoText}
    BY <2>1, <2>2
  <2>4. doc2 = [doc EXCEPT !.text = y, !.undo = v] /\ doc \in [owner : Owners \cup {NoUser},
           acl : SUBSET Readers, text : Texts \cup {NoText}, undo : X, checkpoints : C]
    BY DEF Doc, v, X, C
  <2> HIDE DEF v, X, C, y, doc2
  <2>5. doc2 \in [owner : Owners \cup {NoUser},
           acl : SUBSET Readers, text : Texts \cup {NoText}, undo : X, checkpoints : C]
        /\ doc2.owner = doc.owner /\ doc2.acl = doc.acl
        /\ doc2.checkpoints = doc.checkpoints /\ doc2.text = y /\ doc2.undo = v
    BY <2>3, <2>4
  <2> QED BY <2>5 DEF Doc, X, C, v, y
<1>3. disk[undopath(n)] = Text(doc.undo[1]) /\ Text(doc.undo[1]) \in TextFile
  BY Held DEF OnDisk
<1>4. filepath(n) \in Seq(Token)
  BY Paths DEF FlatPath
<1>5. s1 \in Seq(Change)
  BY <1>3, <1>4, Written
<1>6. Lands(s1, filepath(n), Text(doc.undo[1])) /\ \A p : p # filepath(n) => LeftBy(s1, p)
  BY <1>3, <1>4, LandsWritten
<1> HIDE DEF q2, doc2, s1
<1>7. /\ FinalOf(s, q, q2) /\ Ends(disk, s, metapath(n), q2)
      /\ \A p, c : ~IsMeta(p) /\ Ends(disk, s1, p, c) => Ends(disk, s, p, c)
  BY <1>1, <1>5, SavedPlan
<1>8. undo(q) = s
  BY DEF undo, s1, q2
<1> HIDE DEF s
<1>9. Ends(disk, s1, filepath(n), Text(doc2.text))
  BY <1>2, <1>6 DEF Ends
<1>10. q.owner = doc.owner /\ q.acl = doc.acl
  BY DEF Holds
<1>11. Holds(disk, s, q2, doc2)
  BY <1>1, <1>2, <1>5, <1>6, <1>7, <1>9, <1>10, SameCheckpoints
<1> QED BY <1>1, <1>2, <1>7, <1>8, <1>11 DEF Achieves, doc2

\* The files are as they were.
LEMMA StillEnds ==
    ASSUME NamesApart, NEW q \in FileRecord, q.filename \in Names, NEW doc \in Doc,
           Holds(disk, <<>>, q, doc), NEW s1
    PROVE  /\ LeftBy(s1, filepath(q.filename)) => Ends(disk, s1, filepath(q.filename), Text(doc.text))
           /\ LeftBy(s1, undopath(q.filename)) =>
                 IF q.undo_available
                 THEN /\ doc.undo # <<>> /\ doc.undo = <<doc.undo[1]>>
                      /\ Ends(disk, s1, undopath(q.filename), Text(doc.undo[1]))
                 ELSE doc.undo = <<>>
<1>1. OnDisk(q, doc)
  BY Held
<1> QED BY <1>1 DEF Holds, OnDisk, Ends, Stays

LEMMA AccessAchieves ==
    ASSUME NamesApart, NEW q \in FileRecord, q.filename \in Names, NEW doc \in Doc,
           Holds(disk, <<>>, q, doc), NEW A \in SUBSET Readers
    PROVE  /\ Achieves(Save([q EXCEPT !.acl = A]), q, [doc EXCEPT !.acl = A])
           /\ Achieves(ss_write_metadata(q), q, doc)
<1> DEFINE n == q.filename
           s1 == <<>>
           q2 == [q EXCEPT !.acl = A]
           doc2 == [doc EXCEPT !.acl = A]
           s == s1 \o Save(q2)
           u == s1 \o ss_write_metadata(q)
<1>1. q2 \in Sidecar /\ q2.filename = n /\ q2.owner = q.owner /\ q2.acl = A
      /\ q2.checkpoints = q.checkpoints /\ q2.undo_available = q.undo_available /\ q \in Sidecar
  BY NameTypes DEF FileRecord, Sidecar
<1>2. doc2 \in Doc /\ doc2.owner = doc.owner /\ doc2.acl = A
      /\ doc2.checkpoints = doc.checkpoints /\ doc2.text = doc.text /\ doc2.undo = doc.undo
  BY DEF Doc
<1>3. s1 \in Seq(Change) /\ (\A p : LeftBy(s1, p)) /\ \A e \in Range(s1) : e.do # "memory"
  BY DEF LeftBy, Range
<1>4. Save(q2) \in Seq(Change) /\ ss_write_metadata(q) \in Seq(Change)
  BY <1>1, SaveQuiet
<1>5. s = Save(q2) /\ u = ss_write_metadata(q)
  BY <1>4, ConcatEmptySeq
<1> HIDE DEF q2, doc2, s1
<1>6. /\ FinalOf(s, q, q2) /\ Ends(disk, s, metapath(n), q2)
      /\ \A p, c : ~IsMeta(p) /\ Ends(disk, s1, p, c) => Ends(disk, s, p, c)
  BY <1>1, <1>3, SavedPlan
<1>7. /\ FinalOf(u, q, q) /\ Ends(disk, u, metapath(n), q)
      /\ \A p, c : ~IsMeta(p) /\ Ends(disk, s1, p, c) => Ends(disk, u, p, c)
  BY <1>1, <1>3, MetaPlan
<1> HIDE DEF s, u
<1>8. /\ Ends(disk, s1, filepath(n), Text(doc.text))
      /\ IF q.undo_available
         THEN /\ doc.undo # <<>> /\ doc.undo = <<doc.undo[1]>>
              /\ Ends(disk, s1, undopath(n), Text(doc.undo[1]))
         ELSE doc.undo = <<>>
  BY <1>3, StillEnds
<1>9. q.owner = doc.owner /\ q.acl = doc.acl
  BY DEF Holds
<1>10. Holds(disk, s, q2, doc2)
  <2>1. /\ Ends(disk, s1, filepath(n), Text(doc2.text))
        /\ IF q2.undo_available
           THEN /\ doc2.undo # <<>> /\ doc2.undo = <<doc2.undo[1]>>
                /\ Ends(disk, s1, undopath(n), Text(doc2.undo[1]))
           ELSE doc2.undo = <<>>
    BY <1>1, <1>2, <1>8
  <2> QED BY <1>1, <1>2, <1>3, <1>6, <1>9, <2>1, SameCheckpoints
<1>11. Holds(disk, u, q, doc)
  BY <1>3, <1>7, <1>8, <1>9, SameCheckpoints
<1>12. Achieves(s, q, doc2)
  BY <1>1, <1>2, <1>6, <1>10 DEF Achieves
<1>13. Achieves(u, q, doc)
  BY <1>7, <1>11 DEF Achieves
<1> QED BY <1>5, <1>12, <1>13 DEF q2, doc2

\* The list of checkpoints with a new one.
LEMMA Pruning ==
    ASSUME NEW S, NEW v \in Seq(S), NEW full \in BOOLEAN, full => v # <<>>, NEW x \in S
    PROVE  LET w == Append(Pruned(v, full), x)
               m == IF full THEN 1 ELSE 0
           IN  /\ w \in Seq(S) /\ DOMAIN w = 1..(Len(v) - m + 1) /\ Len(w) = Len(v) - m + 1
               /\ w[Len(v) - m + 1] = x
               /\ \A i \in 1..(Len(v) - m) : w[i] = v[i + m] /\ i + m \in DOMAIN v
<1>1. CASE full
  <2> DEFINE k == Tail(v)
             w == Append(k, x)
  <2>1. k \in Seq(S) /\ Len(k) = Len(v) - 1 /\ \A i \in 1..Len(k) : k[i] = v[i + 1]
    BY <1>1, HeadTailProperties
  <2>2. Len(v) \in Nat \ {0} /\ DOMAIN v = 1..Len(v)
    BY <1>1
  <2>3. Pruned(v, full) = k
    BY <1>1 DEF Pruned
  <2> HIDE DEF k
  <2>4. w \in Seq(S) /\ Len(w) = Len(k) + 1 /\ w[Len(k) + 1] = x /\ \A i \in 1..Len(k) : w[i] = k[i]
    BY <2>1, AppendProperties
  <2>5. DOMAIN w = 1..Len(w) /\ Len(w) = Len(v) /\ Len(v) - 1 + 1 = Len(v)
    BY <2>1, <2>2, <2>4
  <2> HIDE DEF w
  <2>6. \A i \in 1..(Len(v) - 1) : w[i] = v[i + 1] /\ i + 1 \in DOMAIN v
    BY <2>1, <2>2, <2>4
  <2>7. w[Len(v)] = x
    BY <2>1, <2>2, <2>4
  <2> QED BY <1>1, <2>3, <2>4, <2>5, <2>6, <2>7 DEF w
<1>2. CASE ~full
  <2> DEFINE w == Append(v, x)
  <2>1. Pruned(v, full) = v
    BY <1>2 DEF Pruned
  <2>2. w \in Seq(S) /\ Len(w) = Len(v) + 1 /\ w[Len(v) + 1] = x /\ \A i \in 1..Len(v) : w[i] = v[i]
    BY AppendProperties
  <2>3. Len(v) \in Nat /\ DOMAIN v = 1..Len(v)
    OBVIOUS
  <2> QED BY <1>2, <2>1, <2>2, <2>3
<1> QED BY <1>1, <1>2

LEMMA CheckpointAchieves ==
    ASSUME NamesApart, NEW q \in FileRecord, q.filename \in Names, NEW doc \in Doc,
           Holds(disk, <<>>, q, doc), NEW tag \in Tags, Slots(q, tag) = {},
           now \in Nat, now < Len(Clock), CanOpen(ckpt_path(q.filename)),
           ckpt_path(q.filename) \notin PathsOf(q)
    PROVE  Achieves(checkpoint(q, tag), q,
               [doc EXCEPT !.checkpoints = Append(
                   Pruned(@, Len(@) >= SS_MAX_CHECKPOINTS), <<tag, doc.text>>)])
<1> DEFINE n == q.filename
           p == ckpt_path(n)
           c == disk[filepath(n)]
           old == q.checkpoints
           was == doc.checkpoints
           full == Full(q)
           m == IF full THEN 1 ELSE 0
           new == [tag |-> tag, filepath |-> p]
           w == Append(Pruned(old, full), new)
           u == Append(Pruned(was, full), <<tag, doc.text>>)
           q2 == [q EXCEPT !.checkpoints = w]
           doc2 == [doc EXCEPT !.checkpoints = u]
           a == ss_write_file_content(p, c)
           b == IF full THEN <<Unlink(old[1].filepath)>> ELSE <<>>
           s1 == a \o b
           s == s1 \o Save(q2)
           R == [tag : Tags, filepath : CkptPath]
           D == Tags \X (Texts \cup {NoText})
<1>1. p \in CkptPath \cap FlatPath /\ p \in Seq(Token)
  BY CkptPaths DEF FlatPath
<1>2. old \in Seq(R) /\ was \in Seq(D) /\ Len(was) = Len(old) /\ Len(old) \in Nat
      /\ DOMAIN old = 1..Len(old) /\ DOMAIN was = 1..Len(old)
  <2>1. old \in Seq(R) /\ was \in Seq(D) /\ Len(was) = Len(old)
    BY DEF FileRecord, Doc, Holds
  <2> QED BY <2>1
<1>3. full \in BOOLEAN /\ full = (Len(was) >= SS_MAX_CHECKPOINTS)
  BY <1>2 DEF Full
<1>4. full => old # <<>> /\ was # <<>> /\ 1 \in DOMAIN old
  BY <1>2, StoreAssumption DEF Full
<1>5. new \in R /\ <<tag, doc.text>> \in D
  BY <1>1 DEF Doc
<1>6. /\ w \in Seq(R) /\ DOMAIN w = 1..(Len(old) - m + 1) /\ Len(w) = Len(old) - m + 1
      /\ w[Len(old) - m + 1] = new
      /\ \A i \in 1..(Len(old) - m) : w[i] = old[i + m] /\ i + m \in DOMAIN old
  <2>1. old \in Seq(R) /\ full \in BOOLEAN /\ (full => old # <<>>) /\ new \in R
    BY <1>2, <1>3, <1>4, <1>5
  <2> HIDE DEF old, new, R, full
  <2> QED BY <2>1, Pruning
<1>7. /\ u \in Seq(D) /\ DOMAIN u = 1..(Len(was) - m + 1) /\ Len(u) = Len(was) - m + 1
      /\ u[Len(was) - m + 1] = <<tag, doc.text>>
      /\ \A i \in 1..(Len(was) - m) : u[i] = was[i + m] /\ i + m \in DOMAIN was
  <2> DEFINE x == <<tag, doc.text>>
  <2>1. was \in Seq(D) /\ full \in BOOLEAN /\ (full => was # <<>>) /\ x \in D
    BY <1>2, <1>3, <1>4, <1>5
  <2> DEFINE y == Append(Pruned(was, full), x)
  <2>2. y = u
    OBVIOUS
  <2> HIDE DEF was, x, D, full
  <2>3. /\ y \in Seq(D) /\ DOMAIN y = 1..(Len(was) - m + 1) /\ Len(y) = Len(was) - m + 1
        /\ y[Len(was) - m + 1] = x
        /\ \A i \in 1..(Len(was) - m) : y[i] = was[i + m] /\ i + m \in DOMAIN was
    BY <2>1, Pruning
  <2> HIDE DEF y
  <2> QED BY <2>2, <2>3 DEF x
<1>8. c = Text(doc.text) /\ c \in TextFile
  BY Held DEF OnDisk
<1>9. /\ \A i \in DOMAIN old : /\ old[i].filepath \in CkptPath /\ ~IsMeta(old[i].filepath)
                               /\ old[i].filepath \in DOMAIN disk
                               /\ disk[old[i].filepath] = Text(was[i][2])
                               /\ was[i][1] = old[i].tag /\ old[i].filepath # p /\ old[i].tag # tag
      /\ \A i, j \in DOMAIN old : i # j => old[i].filepath # old[j].filepath /\ old[i].tag # old[j].tag
  <2>1. \A i \in DOMAIN old : old[i].filepath \in CkptPath /\ ~IsMeta(old[i].filepath)
    BY Held
  <2>2. \A i \in DOMAIN old : old[i].filepath \in DOMAIN disk /\ disk[old[i].filepath] = Text(was[i][2])
    BY Held DEF OnDisk
  <2>3. \A i \in DOMAIN old : old[i].filepath # p
    BY DEF PathsOf
  <2>4. \A i \in DOMAIN old : old[i].tag # tag
    BY DEF Slots
  <2> QED BY <2>1, <2>2, <2>3, <2>4 DEF Holds
<1>10. \A x : x \in {filepath(n), undopath(n)} => x \notin CkptPath /\ ~IsMeta(x)
  BY Paths
<1>11. a \in Seq(Change) /\ Lands(a, p, c) /\ \A x : x # p => LeftBy(a, x)
  <2> HIDE DEF p, c
  <2> QED BY <1>1, <1>8, LandsWritten, Written
<1>12. b \in Seq(Change) /\ \A x : ~(full /\ x = old[1].filepath) => LeftBy(b, x)
  <2>1. CASE full
    <3> DEFINE y == old[1].filepath
               e == Unlink(y)
    <3>1. y \in Seq(Token)
      BY <1>4, <1>9, <2>1 DEF CkptPath
    <3> HIDE DEF y
    <3>2. e \in Change /\ \A x : x # y => Leaves(e, x)
      BY <3>1, Leaving DEF Unlink, Change
    <3> HIDE DEF e
    <3>3. <<e>> \in Seq(Change) /\ Range(<<e>>) = {e}
      BY <3>2 DEF Range
    <3> QED BY <2>1, <3>2, <3>3 DEF LeftBy, e, y
  <2>2. CASE ~full
    BY <2>2 DEF LeftBy, Range
  <2> QED BY <2>1, <2>2
<1>13. s1 \in Seq(Change)
  BY <1>11, <1>12, Joined
<1>14. q2 \in Sidecar /\ q2.filename = n /\ q2.owner = q.owner /\ q2.acl = q.acl
       /\ q2.undo_available = q.undo_available /\ q2.checkpoints = w
  <2>1. n \in Seq(Token) /\ n # <<>>
    BY NameTypes
  <2> HIDE DEF w
  <2> QED BY <1>6, <2>1 DEF FileRecord, Sidecar
<1>15. doc2 \in Doc /\ doc2.owner = doc.owner /\ doc2.acl = doc.acl
       /\ doc2.text = doc.text /\ doc2.undo = doc.undo /\ doc2.checkpoints = u
  <2> HIDE DEF u
  <2> QED BY <1>7 DEF Doc
<1> HIDE DEF a, b
<1>16. \A x : x # p /\ ~(full /\ x = old[1].filepath) => LeftBy(s1, x)
  BY <1>11, <1>12, LandsCat
<1>17. Lands(s1, p, c)
  <2>1. ~(full /\ p = old[1].filepath)
    BY <1>4, <1>9
  <2> QED BY <1>11, <1>12, <2>1, LandsCat
<1>18. LeftBy(s1, filepath(n)) /\ LeftBy(s1, undopath(n))
  BY <1>1, <1>4, <1>9, <1>10, <1>16
<1> HIDE DEF s1
<1>19. /\ FinalOf(s, q, q2) /\ Ends(disk, s, metapath(n), q2)
       /\ \A x, y : ~IsMeta(x) /\ Ends(disk, s1, x, y) => Ends(disk, s, x, y)
  <2> HIDE DEF q2
  <2> QED BY <1>13, <1>14, SavedPlan
<1> HIDE DEF s
<1>20. /\ Ends(disk, s, filepath(n), Text(doc2.text))
       /\ IF q2.undo_available
          THEN /\ doc2.undo # <<>> /\ doc2.undo = <<doc2.undo[1]>>
               /\ Ends(disk, s, undopath(n), Text(doc2.undo[1]))
          ELSE doc2.undo = <<>>
  <2>1. /\ Ends(disk, s1, filepath(n), Text(doc.text))
        /\ IF q.undo_available
           THEN /\ doc.undo # <<>> /\ doc.undo = <<doc.undo[1]>>
                /\ Ends(disk, s1, undopath(n), Text(doc.undo[1]))
           ELSE doc.undo = <<>>
    BY <1>18, StillEnds
  <2> HIDE DEF q2, doc2
  <2> QED BY <1>10, <1>14, <1>15, <1>19, <2>1
<1>21. q.owner = doc.owner /\ q.acl = doc.acl
  BY DEF Holds
<1> DEFINE L == Len(old) - m
<1>22. m \in {0, 1} /\ L \in Nat /\ (full <=> m = 1)
  BY <1>2, <1>4
<1>23. /\ DOMAIN w = 1..(L + 1) /\ Len(w) = Len(u) /\ w[L + 1].filepath = p /\ w[L + 1].tag = tag
       /\ u[L + 1] = <<tag, doc.text>>
       /\ \A i \in 1..L : i + m \in DOMAIN old /\ w[i] = old[i + m] /\ u[i] = was[i + m]
  <2>1. Len(old) = L + m
    BY <1>2, <1>22
  <2>2. L + 1 = Len(old) - m + 1 /\ L + 1 = Len(was) - m + 1
    BY <1>2, <1>22
  <2> HIDE DEF w, u, old, was, m
  <2>3. DOMAIN w = 1..(L + 1) /\ Len(w) = L + 1 /\ w[L + 1] = new
    BY <1>6, <2>2
  <2>4. Len(u) = L + 1 /\ u[L + 1] = <<tag, doc.text>>
    BY <1>7, <2>2
  <2>5. \A i \in 1..L : i + m \in DOMAIN old /\ w[i] = old[i + m] /\ u[i] = was[i + m]
    BY <1>2, <1>6, <1>7
  <2> QED BY <2>3, <2>4, <2>5
<1> HIDE DEF w, u, old, was, q2, doc2, m, L, p, c
<1>24. ASSUME NEW i \in DOMAIN w
       PROVE  /\ u[i][1] = w[i].tag
              /\ Ends(disk, s, w[i].filepath, Text(u[i][2]))
  <2>1. CASE i = L + 1
    <3>1. Ends(disk, s1, p, c) /\ ~IsMeta(p)
      BY <1>1, <1>17 DEF Ends, CkptPath
    <3> QED BY <1>8, <1>19, <1>23, <2>1, <3>1
  <2>2. CASE i # L + 1
    <3>1. i \in 1..L
      BY <1>22, <1>23, <2>2
    <3>2. i + m \in DOMAIN old /\ w[i] = old[i + m] /\ u[i] = was[i + m] /\ (full => i + m # 1)
      <4>1. i \in Nat \ {0}
        BY <1>22, <3>1
      <4>2. full => i + m # 1
        BY <1>22, <4>1
      <4> QED BY <1>23, <3>1, <4>2
    <3> DEFINE y == old[i + m].filepath
    <3>3. y # p /\ (full => y # old[1].filepath) /\ ~IsMeta(y) /\ y \in DOMAIN disk
          /\ disk[y] = Text(was[i + m][2]) /\ was[i + m][1] = old[i + m].tag
      BY <1>4, <1>9, <3>2
    <3> HIDE DEF y
    <3>4. Ends(disk, s1, y, Text(was[i + m][2]))
      BY <1>16, <3>3 DEF Ends, Stays
    <3> QED BY <1>19, <3>2, <3>3, <3>4 DEF y
  <2> QED BY <2>1, <2>2
<1>25. ASSUME NEW i \in DOMAIN w, NEW j \in DOMAIN w, i # j
       PROVE  w[i].filepath # w[j].filepath /\ w[i].tag # w[j].tag
  <2>1. \A k \in DOMAIN w : k # L + 1 => k \in 1..L
    BY <1>22, <1>23
  <2>2. \A k \in 1..L : w[k].filepath # p /\ w[k].tag # tag
    BY <1>9, <1>23
  <2>3. i + m # j + m
    BY <1>22, <1>23, <1>25
  <2> QED BY <1>9, <1>23, <1>25, <2>1, <2>2, <2>3
<1>26. Holds(disk, s, q2, doc2)
  BY <1>14, <1>15, <1>19, <1>20, <1>21, <1>23, <1>24, <1>25 DEF Holds
<1>27. checkpoint(q, tag) = s
  BY DEF checkpoint, s, s1, a, b, q2, w, old, p, c
<1>28. doc2 = [doc EXCEPT !.checkpoints = Append(
                   Pruned(@, Len(@) >= SS_MAX_CHECKPOINTS), <<tag, doc.text>>)]
  BY <1>3 DEF doc2, u, was
<1>29. Achieves(s, q, doc2)
  BY <1>14, <1>15, <1>19, <1>26 DEF Achieves
<1> HIDE DEF doc2, s
<1> QED BY <1>27, <1>28, <1>29

LEMMA RevertAchieves ==
    ASSUME NamesApart, NEW q \in FileRecord, q.filename \in Names, NEW doc \in Doc,
           Holds(disk, <<>>, q, doc), NEW tag \in Tags, Slots(q, tag) # {}
    PROVE  LET i == CHOOSE j \in DOMAIN doc.checkpoints : doc.checkpoints[j][1] = tag
           IN  Achieves(revert(q, tag), q,
                        [doc EXCEPT !.text = doc.checkpoints[i][2], !.undo = <<doc.text>>])
<1> DEFINE n == q.filename
           k == CHOOSE j \in Slots(q, tag) : TRUE
           i == CHOOSE j \in DOMAIN doc.checkpoints : doc.checkpoints[j][1] = tag
           x == doc.checkpoints[i][2]
<1>1. k \in DOMAIN q.checkpoints /\ q.checkpoints[k].tag = tag
  BY DEF Slots
<1>2. DOMAIN doc.checkpoints = DOMAIN q.checkpoints
  BY Held
<1>3. \A j \in DOMAIN q.checkpoints : doc.checkpoints[j][1] = q.checkpoints[j].tag
  BY DEF Holds
<1>4. i \in DOMAIN doc.checkpoints /\ doc.checkpoints[i][1] = tag
  <2>1. k \in DOMAIN doc.checkpoints /\ doc.checkpoints[k][1] = tag
    BY <1>1, <1>2, <1>3
  <2> HIDE DEF k
  <2> QED BY <2>1
<1>5. i = k
  <2>1. \A a, b \in DOMAIN q.checkpoints : a # b => q.checkpoints[a].tag # q.checkpoints[b].tag
    BY DEF Holds
  <2>2. i \in DOMAIN q.checkpoints /\ q.checkpoints[i].tag = tag
    BY <1>2, <1>3, <1>4
  <2> HIDE DEF i, k
  <2> QED BY <1>1, <2>1, <2>2
<1>6. disk[SlotPath(q, tag)] = Text(x)
  <2>1. SlotPath(q, tag) = q.checkpoints[k].filepath
    BY DEF SlotPath
  <2>2. disk[q.checkpoints[k].filepath] = Text(doc.checkpoints[k][2])
    BY <1>1, Held DEF OnDisk
  <2> HIDE DEF i, k
  <2> QED BY <1>5, <2>1, <2>2
<1>7. x \in Texts \cup {NoText}
  <2>1. doc.checkpoints[k] \in Tags \X (Texts \cup {NoText})
    BY <1>1, Held
  <2> HIDE DEF i, k
  <2> QED BY <1>5, <2>1
<1> HIDE DEF k, x
<1>8. Achieves(ss_write_file_content(undopath(n), disk[filepath(n)])
                   \o ss_write_file_content(filepath(n), Text(x))
                   \o Save([q EXCEPT !.undo_available = TRUE]), q,
               [doc EXCEPT !.text = x, !.undo = <<doc.text>>])
  BY <1>7, ReplaceAchieves
<1> QED BY <1>6, <1>8 DEF revert, x

\* The temporary file of SS_COPY takes the place of the content file.
LEMMA CopyAchieves ==
    ASSUME NamesApart, NEW q \in FileRecord, q.filename \in Names, NEW x \in Texts
    PROVE  LET s == handle_ss_copy(q, x)
           IN  /\ Sure(disk, s) /\ Removed(disk, s, temp_path(q.filename))
               /\ \A doc \in Doc : Holds(disk, <<>>, q, doc) => Achieves(s, q, [doc EXCEPT !.text = x])
<1> DEFINE n == q.filename
           t == temp_path(n)
           f == filepath(n)
           c == Text(x)
           w == ss_write_metadata(q)
           s1 == <<Unlink(t)>> \o ss_write_file_content(t, c) \o <<Rename(t, f, TRUE)>>
           s == s1 \o w
<1>1. handle_ss_copy(q, x) = s
  BY DEF handle_ss_copy
<1>2. t \in Seq(Token) /\ f \in Seq(Token) /\ t # f /\ ~IsMeta(t) /\ ~IsMeta(f) /\ undopath(n) # t
      /\ f # undopath(n)
  BY Paths DEF FlatPath
<1>3. c \in TextFile
  BY DEF Text, TextFile
<1>4. q \in Sidecar
  BY NameTypes DEF Sidecar
<1> HIDE DEF t, f, c
<1>5. /\ s1 \in Seq(Change) /\ Len(s1) = 4
      /\ s1[1] = Unlink(t) /\ s1[2] = Open(t) /\ s1[3] = Close(t, c) /\ s1[4] = Rename(t, f, TRUE)
  <2> DEFINE a == <<Unlink(t)>>
             b == ss_write_file_content(t, c)
             d == <<Rename(t, f, TRUE)>>
             ab == a \o b
  <2>1. /\ a \in Seq(Change) /\ Len(a) = 1 /\ a[1] = Unlink(t)
        /\ d \in Seq(Change) /\ Len(d) = 1 /\ d[1] = Rename(t, f, TRUE)
    BY <1>2 DEF Unlink, Rename, Change
  <2>2. b \in Seq(Change) /\ Len(b) = 2 /\ b[1] = Open(t) /\ b[2] = Close(t, c)
    BY <1>2, <1>3, Written
  <2> HIDE DEF a, b, d
  <2>3. /\ ab \in Seq(Change) /\ Len(ab) = 1 + 2
        /\ \A i \in 1..(1 + 2) : ab[i] = IF i <= 1 THEN a[i] ELSE b[i - 1]
    <3>1. /\ ab \in Seq(Change) /\ Len(ab) = Len(a) + Len(b)
          /\ \A i \in 1..(Len(a) + Len(b)) : ab[i] = IF i <= Len(a) THEN a[i] ELSE b[i - Len(a)]
      BY <2>1, <2>2, Joined
    <3> HIDE DEF ab
    <3> QED BY <2>1, <2>2, <3>1
  <2>4. Len(ab) = 3 /\ ab[1] = a[1] /\ ab[2] = b[1] /\ ab[3] = b[2]
    BY <2>3
  <2>5. s1 = ab \o d
    BY DEF a, b, d
  <2> HIDE DEF ab, s1
  <2>6. /\ s1 \in Seq(Change) /\ Len(s1) = 3 + 1
        /\ \A i \in 1..(3 + 1) : s1[i] = IF i <= 3 THEN ab[i] ELSE d[i - 3]
    <3> DEFINE z == ab \o d
    <3>1. /\ z \in Seq(Change) /\ Len(z) = Len(ab) + Len(d)
          /\ \A i \in 1..(Len(ab) + Len(d)) : z[i] = IF i <= Len(ab) THEN ab[i] ELSE d[i - Len(ab)]
      BY <2>1, <2>3, Joined
    <3>2. s1 = z
      BY <2>5
    <3> HIDE DEF z
    <3> QED BY <2>1, <2>4, <3>1, <3>2
  <2>7. Len(s1) = 4 /\ s1[1] = ab[1] /\ s1[2] = ab[2] /\ s1[3] = ab[3] /\ s1[4] = d[1]
    BY <2>6
  <2> QED BY <2>1, <2>2, <2>4, <2>6, <2>7
<1> HIDE DEF s1
<1>6. s1 \in Seq(Change)
  BY <1>5
<1>7. /\ Len(s1) = 4 /\ DOMAIN s1 = 1..4
      /\ s1[1] = Unlink(t) /\ s1[2] = Open(t) /\ s1[3] = Close(t, c) /\ s1[4] = Rename(t, f, TRUE)
      /\ Range(s1) = {Unlink(t), Open(t), Close(t, c), Rename(t, f, TRUE)}
  <2>1. DOMAIN s1 = 1..4
    BY <1>5
  <2>2. \A i : i \in 1..4 <=> i = 1 \/ i = 2 \/ i = 3 \/ i = 4
    OBVIOUS
  <2> QED BY <1>5, <2>1, <2>2 DEF Range
<1>8. \A i \in DOMAIN s1 : i = 1 \/ i = 2 \/ i = 3 \/ i = 4
  BY <1>7
<1>9. w \in Seq(Change) /\ Range(w) = {Open(metapath(n)), Close(metapath(n), q)}
  BY <1>4, MetadataWritten
<1>10. /\ s \in Seq(Change) /\ Len(s) = 4 + Len(w) /\ Len(w) \in Nat
       /\ \A i \in 1..(4 + Len(w)) : s[i] = IF i <= 4 THEN s1[i] ELSE w[i - 4]
  <2> HIDE DEF w
  <2>1. /\ s \in Seq(Change) /\ Len(s) = Len(s1) + Len(w) /\ Len(w) \in Nat
        /\ \A i \in 1..(Len(s1) + Len(w)) : s[i] = IF i <= Len(s1) THEN s1[i] ELSE w[i - Len(s1)]
    BY <1>6, <1>9, Joined
  <2>2. Len(s1) = 4
    BY <1>7
  <2> QED BY <2>1, <2>2
<1> HIDE DEF w
<1>11. Writes(s1[3], t, c)
  BY <1>7 DEF Writes, Close
<1>12. Ends(disk, s1, f, c)
  <2>1. Brought(disk, s1, 4, c)
    <3>1. s1[4].path = t /\ 3 \in DOMAIN s1 /\ 3 < 4 /\ \A i \in DOMAIN s1 : ~(3 < i /\ i < 4)
      BY <1>7 DEF Rename
    <3> QED BY <1>11, <3>1 DEF Brought
  <2>2. /\ 4 \in DOMAIN s1 /\ s1[4].do = "rename" /\ s1[4].to = f /\ s1[4].path # f
        /\ \A i \in DOMAIN s1 : ~(i > 4)
    BY <1>2, <1>7 DEF Rename
  <2> QED BY <2>1, <2>2 DEF Ends, Comes, LeftAfter
<1>13. Removed(disk, s1, t)
  <2>1. /\ 4 \in DOMAIN s1 /\ s1[4].do = "rename" /\ s1[4].to # t /\ s1[4].path = t
        /\ \A i \in DOMAIN s1 : ~(i > 4)
    BY <1>2, <1>7 DEF Rename
  <2> QED BY <2>1 DEF Removed, LeftAfter
<1>14. \A p : p # t /\ p # f => LeftBy(s1, p)
  BY <1>7, Leaving DEF LeftBy
<1>15. \A e \in Range(s1) : e.do # "memory"
  BY <1>7 DEF Unlink, Open, Close, Rename
<1>16. /\ FinalOf(s, q, q) /\ Ends(disk, s, metapath(n), q)
       /\ \A p, y : ~IsMeta(p) /\ Ends(disk, s1, p, y) => Ends(disk, s, p, y)
       /\ \A p : ~IsMeta(p) /\ Removed(disk, s1, p) => Removed(disk, s, p)
  BY <1>4, <1>6, <1>15, MetaPlan DEF w
<1> HIDE DEF s
<1>17. Sure(disk, s)
  <2>1. DOMAIN s = 1..(4 + Len(w)) /\ DOMAIN w = 1..Len(w)
    BY <1>9, <1>10
  <2>2. ASSUME NEW j \in DOMAIN s, s[j].do = "rename"
        PROVE  j = 4
    <3>1. CASE j <= 4
      <4>1. j \in DOMAIN s1 /\ s[j] = s1[j]
        BY <1>7, <1>10, <2>1, <3>1
      <4> QED BY <1>7, <1>8, <2>2, <4>1 DEF Unlink, Open, Close
    <3>2. CASE ~(j <= 4)
      <4>1. s[j] = w[j - 4] /\ j - 4 \in DOMAIN w
        BY <1>10, <2>1, <3>2
      <4>2. s[j] \in Range(w)
        BY <4>1 DEF Range
      <4> QED BY <1>9, <2>2, <4>2 DEF Open, Close
    <3> QED BY <3>1, <3>2
  <2>3. s[4].path = t /\ 3 \in DOMAIN s /\ s[3] = s1[3] /\ 3 < 4
        /\ \A i \in DOMAIN s : ~(3 < i /\ i < 4)
    BY <1>7, <1>10, <2>1 DEF Rename
  <2>4. Brought(disk, s, 4, c)
    BY <1>11, <2>3 DEF Brought
  <2> QED BY <1>3, <2>2, <2>4 DEF Sure
<1>18. Removed(disk, s, t)
  BY <1>2, <1>13, <1>16
<1>19. ASSUME NEW doc \in Doc, Holds(disk, <<>>, q, doc)
       PROVE  Achieves(s, q, [doc EXCEPT !.text = x])
  <2> DEFINE doc2 == [doc EXCEPT !.text = x]
  <2>1. doc2 \in Doc /\ doc2.owner = doc.owner /\ doc2.acl = doc.acl
        /\ doc2.checkpoints = doc.checkpoints /\ doc2.text = x /\ doc2.undo = doc.undo
    BY DEF Doc
  <2> HIDE DEF doc2
  <2>2. Ends(disk, s1, f, Text(doc2.text))
    BY <1>12, <2>1 DEF c
  <2>3. IF q.undo_available
        THEN /\ doc2.undo # <<>> /\ doc2.undo = <<doc2.undo[1]>>
             /\ Ends(disk, s1, undopath(n), Text(doc2.undo[1]))
        ELSE doc2.undo = <<>>
    <3>1. LeftBy(s1, undopath(n))
      BY <1>2, <1>14
    <3>2. IF q.undo_available
          THEN /\ doc.undo # <<>> /\ doc.undo = <<doc.undo[1]>>
               /\ Ends(disk, s1, undopath(n), Text(doc.undo[1]))
          ELSE doc.undo = <<>>
      BY <1>19, <3>1, StillEnds
    <3> QED BY <2>1, <3>2
  <2>4. q.owner = doc2.owner /\ q.acl = doc2.acl
    BY <1>19, <2>1 DEF Holds
  <2>5. \A p : p \notin {f, undopath(n), t} => LeftBy(s1, p)
    BY <1>14
  <2>6. Holds(disk, s, q, doc2)
    BY <1>6, <1>16, <1>19, <2>1, <2>2, <2>3, <2>4, <2>5, SameCheckpoints DEF f, t
  <2> QED BY <1>16, <2>1, <2>6 DEF Achieves, doc2
<1> QED BY <1>1, <1>17, <1>18, <1>19 DEF t

LEMMA CopyFailedAchieves ==
    ASSUME NamesApart, NEW q \in FileRecord, q.filename \in Names
    PROVE  LET s == copy_failed(q)
           IN  /\ Sure(disk, s) /\ Removed(disk, s, temp_path(q.filename))
               /\ \A doc \in Doc : Holds(disk, <<>>, q, doc) => Achieves(s, q, doc)
<1> DEFINE n == q.filename
           t == temp_path(n)
           s == copy_failed(q)
<1>1. /\ ~IsMeta(t) /\ IsMeta(metapath(n)) /\ filepath(n) # t /\ undopath(n) # t /\ t \in Seq(Token)
  BY Paths DEF FlatPath
<1>2. s = <<Unlink(t), Open(t), Unlink(t)>>
  BY DEF copy_failed
<1> HIDE DEF s, t
<1>3. s \in Seq(Change) /\ DOMAIN s = 1..3 /\ Len(s) = 3 /\ s[3] = Unlink(t)
      /\ Range(s) = {Unlink(t), Open(t)}
  BY <1>1, <1>2 DEF Unlink, Open, Change, Range
<1>4. \A e \in Range(s) : e.do # "memory" /\ e.do # "rename" /\ \A p : p # t => Leaves(e, p)
  <2>1. \A p : p # t => Leaves(Unlink(t), p) /\ Leaves(Open(t), p)
    BY Leaving
  <2>2. Unlink(t).do = "unlink" /\ Open(t).do = "open"
    BY DEF Unlink, Open
  <2> QED BY <1>3, <2>1, <2>2
<1>5. \A p : p # t => LeftBy(s, p)
  BY <1>4 DEF LeftBy
<1>6. Sure(disk, s)
  BY <1>4 DEF Sure, Range
<1>7. Removed(disk, s, t)
  <2>1. 3 \in DOMAIN s /\ \A i \in DOMAIN s : ~(i > 3)
    BY <1>3
  <2> QED BY <1>3, <2>1 DEF Removed, LeftAfter, Unlink
<1>8. FinalOf(s, q, q)
  BY <1>4 DEF FinalOf
<1>9. ASSUME NEW doc \in Doc, Holds(disk, <<>>, q, doc)
      PROVE  Achieves(s, q, doc)
  <2>1. LeftBy(s, filepath(n)) /\ LeftBy(s, undopath(n)) /\ LeftBy(s, metapath(n))
    BY <1>1, <1>5
  <2>2. Ends(disk, s, metapath(n), q)
    <3>1. metapath(n) \in DOMAIN disk /\ disk[metapath(n)] = q
      BY <1>9, Held
    <3> QED BY <2>1, <3>1 DEF Ends, Stays
  <2>3. /\ Ends(disk, s, filepath(n), Text(doc.text))
        /\ IF q.undo_available
           THEN /\ doc.undo # <<>> /\ doc.undo = <<doc.undo[1]>>
                /\ Ends(disk, s, undopath(n), Text(doc.undo[1]))
           ELSE doc.undo = <<>>
    BY <1>9, <2>1, StillEnds
  <2>4. q.owner = doc.owner /\ q.acl = doc.acl
    BY <1>9 DEF Holds
  <2>5. \A p : p \notin {filepath(n), undopath(n), t} => LeftBy(s, p)
    BY <1>5
  <2>6. Holds(disk, s, q, doc)
    BY <1>3, <1>9, <2>2, <2>3, <2>4, <2>5, SameCheckpoints DEF t
  <2> QED BY <1>8, <2>6 DEF Achieves
<1> QED BY <1>6, <1>7, <1>9 DEF s, t

\* What a handler sets out to do is what its request promises.
LEMMA LockAchieves ==
    ASSUME NamesApart, Types, NEW t \in Threads, Locking(t), op[t].do # "rename",
           NEW q \in FileRecord, q.filename \in Names, NEW doc \in Doc, Holds(disk, <<>>, q, doc),
           Accepted(q, op[t]), op[t].do = "checkpoint" => now < Len(Clock),
           op[t].do = "checkpoint" => ckpt_path(q.filename) \notin PathsOf(q)
    PROVE  Achieves(Program(q, op[t]), q, Promise(doc, op[t]))
<1> DEFINE o == op[t]
<1>1. o \in Requests \cup Commands
  BY NoOpApart DEF Locking
<1>2. /\ o.do \in {"write", "undo", "read", "checkpoint", "revert", "access", "copy", "copy_failed"}
      /\ o.do \in {"write", "copy"} => o.text \in Texts
      /\ o.do \in {"checkpoint", "revert"} => o.tag \in Tags
      /\ o.do = "access" => o.acl \in SUBSET Readers
  BY <1>1 DEF Requests, Commands
<1> HIDE DEF o
<1>3. CASE o.do = "write"
  BY <1>2, <1>3, ReplaceAchieves DEF Program, Promise, etirw, o
<1>4. CASE o.do = "undo"
  <2>1. q.undo_available
    BY <1>4 DEF Accepted, o
  <2> QED BY <1>4, <2>1, UndoAchieves DEF Program, Promise, o
<1>5. CASE o.do = "read"
  <2>1. Achieves(ss_write_metadata(q), q, doc)
    <3>1. {} \in SUBSET Readers
      OBVIOUS
    <3> QED BY <3>1, AccessAchieves
  <2> QED BY <1>5, <2>1 DEF Program, Promise, o
<1>6. CASE o.do = "checkpoint"
  <2>1. /\ Slots(q, o.tag) = {} /\ CanOpen(ckpt_path(q.filename)) /\ now \in Nat /\ now < Len(Clock)
        /\ ckpt_path(q.filename) \notin PathsOf(q)
    BY <1>6 DEF Accepted, Types, o
  <2>2. Achieves(checkpoint(q, o.tag), q,
           [doc EXCEPT !.checkpoints = Append(
               Pruned(@, Len(@) >= SS_MAX_CHECKPOINTS), <<o.tag, doc.text>>)])
    BY <1>2, <1>6, <2>1, CheckpointAchieves
  <2> QED BY <1>6, <2>2 DEF Program, Promise, o
<1>7. CASE o.do = "revert"
  <2>1. Slots(q, o.tag) # {}
    BY <1>7 DEF Accepted, o
  <2> QED BY <1>2, <1>7, <2>1, RevertAchieves DEF Program, Promise, o
<1>8. CASE o.do = "access"
  <2>1. Achieves(Save([q EXCEPT !.acl = o.acl]), q, [doc EXCEPT !.acl = o.acl])
    BY <1>2, <1>8, AccessAchieves
  <2> QED BY <1>8, <2>1 DEF Program, Promise, o
<1>9. CASE o.do = "copy"
  BY <1>2, <1>9, CopyAchieves DEF Program, Promise, o
<1>10. CASE o.do = "copy_failed"
  BY <1>10, CopyFailedAchieves DEF Program, Promise, o
<1> QED BY <1>2, <1>3, <1>4, <1>5, <1>6, <1>7, <1>8, <1>9, <1>10

LEMMA ModestCat ==
    ASSUME NEW s1, NEW s2, NEW P, NEW B, Modest(s1, P, B), Modest(s2, P, B)
    PROVE  Modest(s1 \o s2, P, B)
<1>1. s1 \o s2 \in Seq(Change) /\ Range(s1 \o s2) = Range(s1) \cup Range(s2)
  BY CatRange DEF Modest
<1> QED BY <1>1 DEF Modest

LEMMA ModestOne ==
    ASSUME NamesApart, NEW p \in Seq(Token), ~IsMeta(p), NEW P, NEW B \in BOOLEAN,
           p \in CkptPath => p \in P, B => \A k \in Names : p # temp_path(k)
    PROVE  /\ Fine(Open(p), P, B) /\ Fine(Unlink(p), P, B)
           /\ Modest(<<Open(p)>>, P, B) /\ Modest(<<Unlink(p)>>, P, B)
           /\ \A c \in TextFile : Fine(Close(p, c), P, B) /\ Modest(ss_write_file_content(p, c), P, B)
<1>1. Fine(Open(p), P, B) /\ Fine(Unlink(p), P, B) /\ \A c : Fine(Close(p, c), P, B)
  BY Leaving DEF Fine, Cites, Open, Unlink, Close
<1>2. Modest(<<Open(p)>>, P, B) /\ Modest(<<Unlink(p)>>, P, B)
  <2>1. Open(p) \in Change /\ Unlink(p) \in Change
    BY DEF Open, Unlink, Change
  <2>2. \A e \in Change : <<e>> \in Seq(Change) /\ Range(<<e>>) = {e}
    BY DEF Range
  <2> QED BY <1>1, <2>1, <2>2 DEF Modest
<1>3. ASSUME NEW c \in TextFile PROVE Modest(ss_write_file_content(p, c), P, B)
  BY <1>1, Written DEF Modest
<1> QED BY <1>1, <1>2, <1>3

LEMMA ModestSave ==
    ASSUME NamesApart, NEW q \in Sidecar, q.filename \in Names, NEW P, NEW B \in BOOLEAN,
           PathsOf(q) \subseteq P
    PROVE  Modest(Save(q), P, B) /\ Modest(ss_write_metadata(q), P, B)
<1> DEFINE m == metapath(q.filename)
<1>1. IsMeta(m) /\ \A k \in Names : m # temp_path(k)
  BY Paths
<1>2. m \notin CkptPath
  BY <1>1 DEF CkptPath
<1> HIDE DEF m
<1>3. Fine(Open(m), P, B) /\ Fine(Close(m, q), P, B) /\ Fine(Memory(q), P, B)
  <2>1. Fine(Open(m), P, B)
    BY <1>1, <1>2, Leaving DEF Fine, Cites, Open
  <2>2. Fine(Close(m, q), P, B)
    BY <1>1, <1>2, Leaving DEF Fine, Cites, Close
  <2>3. Fine(Memory(q), P, B)
    BY MemoryLeaves DEF Fine, Cites, Memory
  <2> QED BY <2>1, <2>2, <2>3
<1>4. /\ Save(q) \in Seq(Change) /\ Range(Save(q)) = {Memory(q), Open(m), Close(m, q)}
      /\ ss_write_metadata(q) \in Seq(Change) /\ Range(ss_write_metadata(q)) = {Open(m), Close(m, q)}
  BY Saved, MetadataWritten DEF m
<1> QED BY <1>3, <1>4 DEF Modest

LEMMA LockModest ==
    ASSUME NamesApart, Types, NEW t \in Threads, Locking(t), op[t].do # "rename",
           NEW q \in Sidecar, q.filename \in Names,
           Accepted(q, op[t]), op[t].do = "checkpoint" => now < Len(Clock)
    PROVE  Modest(Program(q, op[t]),
               PathsOf(q) \cup (IF op[t].do = "checkpoint" THEN {ckpt_path(q.filename)} ELSE {}),
               ~Copier(t))
<1> DEFINE o == op[t]
           n == q.filename
           P == PathsOf(q) \cup (IF o.do = "checkpoint" THEN {ckpt_path(n)} ELSE {})
           B == ~Copier(t)
<1>1. /\ o.do \in {"write", "undo", "read", "checkpoint", "revert", "access", "copy", "copy_failed"}
      /\ o.do \in {"write", "copy"} => o.text \in Texts
      /\ o.do \in {"checkpoint", "revert"} => o.tag \in Tags
      /\ o.do = "access" => o.acl \in SUBSET Readers
  <2>1. o \in Requests \cup Commands
    BY NoOpApart DEF Locking
  <2> QED BY <2>1 DEF Requests, Commands
<1>2. B \in BOOLEAN /\ PathsOf(q) \subseteq P /\ (B <=> o.do \notin {"copy", "copy_failed"})
  BY DEF Copier
<1>3. \A p \in DOMAIN disk : ~IsMeta(p) => disk[p] \in TextFile
  BY DEF Types, Tidy
<1>4. \A p \in {filepath(n), undopath(n)} :
          p \in Seq(Token) /\ ~IsMeta(p) /\ p \notin CkptPath /\ \A k \in Names : p # temp_path(k)
  BY Paths DEF FlatPath
<1>5. temp_path(n) \in Seq(Token) /\ ~IsMeta(temp_path(n)) /\ temp_path(n) \notin CkptPath
  BY Paths DEF FlatPath
<1>6. q \in FileRecord
  BY DEF Sidecar
<1>7. /\ o.do \in {"write", "checkpoint", "revert"} => disk[filepath(n)] \in TextFile
      /\ o.do = "undo" => disk[undopath(n)] \in TextFile
      /\ o.do = "revert" => disk[SlotPath(q, o.tag)] \in TextFile
  <2>1. /\ o.do \in {"write", "checkpoint", "revert"} => filepath(n) \in DOMAIN disk
        /\ o.do = "undo" => undopath(n) \in DOMAIN disk
        /\ o.do = "revert" => Slots(q, o.tag) # {} /\ SlotPath(q, o.tag) \in DOMAIN disk
    BY DEF Accepted
  <2>2. o.do = "revert" => ~IsMeta(SlotPath(q, o.tag))
    <3> SUFFICES ASSUME o.do = "revert" PROVE ~IsMeta(SlotPath(q, o.tag))
      OBVIOUS
    <3> DEFINE i == CHOOSE j \in Slots(q, o.tag) : TRUE
               S == [tag : Tags, filepath : CkptPath]
               v == q.checkpoints
    <3>1. i \in DOMAIN v /\ SlotPath(q, o.tag) = v[i].filepath
      BY <2>1 DEF Slots, SlotPath
    <3>2. v \in Seq(S)
      BY <1>6 DEF FileRecord
    <3> HIDE DEF i, S, v
    <3>3. v[i] \in S
      BY <3>1, <3>2
    <3> QED BY <3>1, <3>3 DEF S, CkptPath
  <2> QED BY <1>3, <1>4, <2>1, <2>2
<1>8. \A c \in TextFile :
          /\ B => Modest(ss_write_file_content(filepath(n), c), P, B)
          /\ B => Modest(ss_write_file_content(undopath(n), c), P, B)
  BY <1>2, <1>4, ModestOne
<1>9. \A b \in BOOLEAN :
        /\ Modest(Save([q EXCEPT !.undo_available = b]), P, B)
        /\ PathsOf([q EXCEPT !.undo_available = b]) = PathsOf(q)
  <2> SUFFICES ASSUME NEW b \in BOOLEAN
               PROVE  /\ Modest(Save([q EXCEPT !.undo_available = b]), P, B)
                      /\ PathsOf([q EXCEPT !.undo_available = b]) = PathsOf(q)
    OBVIOUS
  <2> DEFINE q2 == [q EXCEPT !.undo_available = b]
  <2>1. q2 \in Sidecar /\ q2.filename = n /\ q2.checkpoints = q.checkpoints
    BY DEF Sidecar, FileRecord
  <2>2. PathsOf(q2) = PathsOf(q)
    BY <2>1 DEF PathsOf
  <2> HIDE DEF q2, P, B
  <2>3. Modest(Save(q2), P, B)
    BY <1>2, <2>1, <2>2, ModestSave
  <2> QED BY <2>2, <2>3 DEF q2
<1>10. Modest(ss_write_metadata(q), P, B)
  BY <1>2, ModestSave
<1> DEFINE S == Program(q, o)
<1> HIDE DEF P, B
<1>11. CASE o.do = "write"
  <2>1. Text(o.text) \in TextFile
    BY <1>1, <1>11 DEF Text, TextFile
  <2>2. Modest(etirw(q, o.text), P, B)
    BY <1>2, <1>7, <1>8, <1>9, <1>11, <2>1, ModestCat DEF etirw
  <2> QED BY <1>11, <2>2 DEF Program, P, B
<1>12. CASE o.do = "undo"
  <2>1. Modest(undo(q), P, B)
    BY <1>2, <1>7, <1>8, <1>9, <1>12, ModestCat DEF undo
  <2> QED BY <1>12, <2>1 DEF Program, P, B
<1>13. CASE o.do = "revert"
  <2>1. Modest(revert(q, o.tag), P, B)
    BY <1>2, <1>7, <1>8, <1>9, <1>13, ModestCat DEF revert
  <2> QED BY <1>13, <2>1 DEF Program, P, B
<1>14. CASE o.do = "read"
  BY <1>10, <1>14 DEF Program, P, B
<1>15. CASE o.do = "access"
  <2> DEFINE q2 == [q EXCEPT !.acl = o.acl]
  <2>1. q2 \in Sidecar /\ q2.filename = n /\ q2.checkpoints = q.checkpoints
    BY <1>1, <1>15 DEF Sidecar, FileRecord
  <2>2. PathsOf(q2) = PathsOf(q)
    BY <2>1 DEF PathsOf
  <2> HIDE DEF q2
  <2>3. Modest(Save(q2), P, B)
    BY <1>2, <2>1, <2>2, ModestSave
  <2> QED BY <1>15, <2>3 DEF Program, P, B, q2
<1>16. CASE o.do = "copy"
  <2> DEFINE t1 == temp_path(n)
             f == filepath(n)
             c == Text(o.text)
             r == Rename(t1, f, TRUE)
  <2>1. c \in TextFile
    BY <1>1, <1>16 DEF Text, TextFile
  <2>2. ~B
    BY <1>2, <1>16
  <2>3. Modest(<<Unlink(t1)>>, P, B) /\ Modest(ss_write_file_content(t1, c), P, B)
    BY <1>2, <1>5, <2>1, <2>2, ModestOne
  <2>4. r \in Change /\ Fine(r, P, B)
    BY <1>4, <1>5, <2>2 DEF Rename, Change, Fine, Cites
  <2> HIDE DEF r, c
  <2>5. Modest(<<r>>, P, B)
    BY <2>4 DEF Modest, Range
  <2>6. Modest(<<Unlink(t1)>> \o ss_write_file_content(t1, c) \o <<r>> \o ss_write_metadata(q), P, B)
    BY <1>10, <2>3, <2>5, ModestCat
  <2> QED BY <1>16, <2>6 DEF Program, P, B, handle_ss_copy, r, c
<1>17. CASE o.do = "copy_failed"
  <2> DEFINE t1 == temp_path(n)
             a == Unlink(t1)
             b == Open(t1)
  <2>1. ~B
    BY <1>2, <1>17
  <2>2. Fine(a, P, B) /\ Fine(b, P, B)
    BY <1>2, <1>5, <2>1, ModestOne
  <2>3. a \in Change /\ b \in Change
    BY <1>5 DEF Unlink, Open, Change
  <2> HIDE DEF a, b
  <2>4. Modest(<<a, b, a>>, P, B)
    <3> DEFINE v == <<a, b, a>>
    <3>1. v \in Seq(Change) /\ DOMAIN v = 1..3 /\ v[1] = a /\ v[2] = b /\ v[3] = a
      BY <2>3
    <3> HIDE DEF v
    <3>2. \A e \in Range(v) : e = a \/ e = b
      BY <3>1 DEF Range
    <3>3. Modest(v, P, B)
      BY <2>2, <3>1, <3>2 DEF Modest
    <3> QED BY <3>3 DEF v
  <2> QED BY <1>17, <2>4 DEF Program, P, B, copy_failed, a, b
<1>18. CASE o.do = "checkpoint"
  <2> DEFINE p == ckpt_path(n)
             old == q.checkpoints
             full == Full(q)
             c == disk[filepath(n)]
             new == [tag |-> o.tag, filepath |-> p]
             w == Append(Pruned(old, full), new)
             q2 == [q EXCEPT !.checkpoints = w]
             a == ss_write_file_content(p, c)
             b == IF full THEN <<Unlink(old[1].filepath)>> ELSE <<>>
             R == [tag : Tags, filepath : CkptPath]
             m == IF full THEN 1 ELSE 0
  <2>1. p \in CkptPath /\ p \in Seq(Token)
    BY <1>18, CkptPaths DEF Types, Accepted, CkptPath
  <2>2. p \in P /\ ~IsMeta(p) /\ \A k \in Names : p # temp_path(k)
    BY <1>18, <2>1, Paths DEF P, CkptPath
  <2>3. Modest(a, P, B)
    <3> HIDE DEF p, c
    <3>1. c \in TextFile
      BY <1>7, <1>18 DEF c
    <3> QED BY <1>2, <2>1, <2>2, <3>1, ModestOne
  <2>4. old \in Seq(R) /\ DOMAIN old = 1..Len(old) /\ Len(old) \in Nat
    BY <1>6 DEF FileRecord
  <2>5. full \in BOOLEAN /\ (full => old # <<>> /\ 1 \in DOMAIN old)
    BY <2>4, StoreAssumption DEF Full
  <2>6. \A i \in DOMAIN old : old[i].filepath \in CkptPath /\ old[i].filepath \in P
    <3>1. \A i \in DOMAIN old : old[i] \in R
      <4> HIDE DEF old, R
      <4> QED BY <2>4
    <3> QED BY <1>2, <3>1 DEF PathsOf
  <2>7. Modest(b, P, B)
    <3>1. CASE full
      <4> DEFINE y == old[1].filepath
      <4>1. y \in CkptPath /\ y \in P
        BY <2>5, <2>6, <3>1
      <4> HIDE DEF y
      <4>2. y \in Seq(Token) /\ ~IsMeta(y) /\ \A k \in Names : y # temp_path(k)
        BY <4>1, Paths DEF CkptPath
      <4>3. Modest(<<Unlink(y)>>, P, B)
        BY <1>2, <4>1, <4>2, ModestOne
      <4> QED BY <3>1, <4>3 DEF y
    <3>2. CASE ~full
      BY <3>2 DEF Modest, Range
    <3> QED BY <3>1, <3>2
  <2>8. new \in R
    BY <1>1, <1>18, <2>1
  <2>9. /\ w \in Seq(R) /\ DOMAIN w = 1..(Len(old) - m + 1)
        /\ w[Len(old) - m + 1] = new
        /\ \A i \in 1..(Len(old) - m) : w[i] = old[i + m] /\ i + m \in DOMAIN old
    <3> HIDE DEF old, new, R, full
    <3> QED BY <2>4, <2>5, <2>8, Pruning
  <2>10. q2 \in Sidecar /\ q2.filename = n /\ q2.checkpoints = w
    <3> HIDE DEF w
    <3> QED BY <1>6, <2>9 DEF Sidecar, FileRecord
  <2>11. PathsOf(q2) \subseteq P
    <3>1. \A i \in DOMAIN w : i = Len(old) - m + 1 \/ i \in 1..(Len(old) - m)
      <4> DEFINE z == Len(old) - m
      <4>1. z \in Int
        <5> HIDE DEF old
        <5> QED BY <2>4
      <4>2. DOMAIN w = 1..(z + 1)
        BY <2>9
      <4> HIDE DEF z, w
      <4>3. \A i \in DOMAIN w : i = z + 1 \/ i \in 1..z
        BY <4>1, <4>2
      <4> QED BY <4>3 DEF z
    <3>2. new.filepath = p
      OBVIOUS
    <3> HIDE DEF w, new, old, m, q2, p
    <3>3. \A i \in DOMAIN w : w[i].filepath \in P
      BY <2>2, <2>6, <2>9, <3>1, <3>2
    <3> QED BY <2>10, <3>3 DEF PathsOf
  <2> HIDE DEF q2, a, b
  <2>12. Modest(Save(q2), P, B)
    BY <1>2, <2>10, <2>11, ModestSave
  <2>13. Modest(a \o b \o Save(q2), P, B)
    BY <2>3, <2>7, <2>12, ModestCat
  <2> QED BY <1>18, <2>13 DEF Program, P, B, checkpoint, a, b, q2
<1> QED BY <1>1, <1>11, <1>12, <1>13, <1>14, <1>15, <1>16, <1>17, <1>18 DEF P, B

\* CREATE and DELETE.
LEMMA CreatePlan ==
    ASSUME NamesApart, NEW n \in Names, NEW owner \in Owners
    PROVE  LET s == ss_create_file(n, owner)
           IN  /\ Ends(disk, s, metapath(n), NewRecord(n, owner)) /\ Ends(disk, s, filepath(n), Empty)
               /\ Modest(s, {}, TRUE)
<1> DEFINE q == NewRecord(n, owner)
           e == Open(filepath(n))
           a == <<e>>
           s == a \o ss_write_metadata(q)
<1>1. q \in Sidecar /\ q.filename = n /\ PathsOf(q) = {}
  <2>1. n \in Seq(Token) /\ n # <<>>
    BY NameTypes
  <2>2. <<>> \in Seq([tag : Tags, filepath : CkptPath]) /\ DOMAIN <<>> = {}
    OBVIOUS
  <2> QED BY <2>1, <2>2 DEF NewRecord, FileRecord, Sidecar, PathsOf
<1> HIDE DEF q
<1>2. filepath(n) \in Seq(Token) /\ ~IsMeta(filepath(n)) /\ filepath(n) \notin CkptPath
      /\ \A k \in Names : filepath(n) # temp_path(k)
  BY Paths DEF FlatPath
<1>3. Modest(a, {}, TRUE)
  BY <1>2, ModestOne
<1>4. Modest(ss_write_metadata(q), {}, TRUE)
  BY <1>1, ModestSave
<1>5. Modest(s, {}, TRUE)
  BY <1>3, <1>4, ModestCat
<1>6. e \in Change /\ Writes(e, filepath(n), Empty)
  BY <1>2 DEF Open, Change, Writes
<1> HIDE DEF e
<1>7. Ends(disk, a, filepath(n), Empty)
  BY <1>6 DEF Ends, Lands, LeftAfter
<1>8. a \in Seq(Change)
  BY <1>6
<1>9. Ends(disk, s, metapath(n), q) /\ Ends(disk, s, filepath(n), Empty)
  BY <1>1, <1>2, <1>7, <1>8, MetaPlan
<1>10. ss_create_file(n, owner) = s
  BY DEF ss_create_file, q, e
<1> QED BY <1>5, <1>9, <1>10 DEF q

LEMMA DeletePlan ==
    ASSUME NamesApart, NEW n \in Names, NEW q \in FileRecord, q.filename = n
    PROVE  LET s == ss_delete_file(q)
           IN  /\ Removed(disk, s, filepath(n)) /\ Removed(disk, s, metapath(n))
               /\ Modest(s, PathsOf(q), TRUE)
<1> DEFINE e1 == Unlink(filepath(n))
           e2 == Unlink(metapath(n))
           e3 == Unlink(undopath(n))
           a == <<e1, e2, e3>>
           old == q.checkpoints
           d == [i \in DOMAIN old |-> Unlink(old[i].filepath)]
           s == a \o d
<1>1. ss_delete_file(q) = s
  BY DEF ss_delete_file
<1>2. s \in Seq(Change)
  BY <1>1, DeleteProgram
<1>3. /\ \A p \in {filepath(n), undopath(n), metapath(n)} :
            p \in Seq(Token) /\ p \notin CkptPath /\ \A k \in Names : p # temp_path(k)
      /\ filepath(n) # undopath(n) /\ metapath(n) # undopath(n) /\ filepath(n) # metapath(n)
  <2>1. /\ \A p \in {filepath(n), undopath(n), metapath(n)} : p \in FlatPath /\ p \notin CkptPath
        /\ IsMeta(metapath(n)) /\ ~IsMeta(filepath(n)) /\ ~IsMeta(undopath(n))
        /\ \A k \in Names : ~IsMeta(temp_path(k)) /\ filepath(n) # temp_path(k) /\ undopath(n) # temp_path(k)
        /\ filepath(n) # undopath(n)
    BY Paths
  <2> QED BY <2>1 DEF FlatPath
<1>4. \A i \in DOMAIN old : old[i].filepath \in CkptPath /\ old[i].filepath \in PathsOf(q)
                            /\ \A k \in Names : old[i].filepath # temp_path(k)
  <2> DEFINE R == [tag : Tags, filepath : CkptPath]
  <2>1. old \in Seq(R)
    BY DEF FileRecord
  <2>2. \A i \in DOMAIN old : old[i] \in R
    <3> HIDE DEF old, R
    <3> QED BY <2>1
  <2>3. \A k \in Names : temp_path(k) \notin CkptPath
    BY Paths
  <2> QED BY <2>2, <2>3 DEF PathsOf
<1>5. DOMAIN old = 1..Len(old) /\ Len(old) \in Nat
  BY DEF FileRecord
<1>6. \A p : p \notin CkptPath => \A i \in DOMAIN d : Leaves(d[i], p)
  <2> SUFFICES ASSUME NEW p, p \notin CkptPath, NEW i \in DOMAIN old
               PROVE  Leaves(Unlink(old[i].filepath), p)
    OBVIOUS
  <2> QED BY <1>4, Leaving
<1>7. a \in Seq(Change) /\ d \in Seq(Change) /\ Len(a) = 3 /\ a[1] = e1 /\ a[2] = e2 /\ a[3] = e3
      /\ DOMAIN d = 1..Len(old) /\ Len(d) = Len(old)
  <2>1. {e1, e2, e3} \subseteq Change
    BY <1>3 DEF Unlink, Change
  <2>2. \A i \in DOMAIN old : Unlink(old[i].filepath) \in Change
    BY <1>4 DEF Unlink, Change, CkptPath
  <2> DEFINE f(i) == Unlink(old[i].filepath)
  <2>3. \A i \in 1..Len(old) : f(i) \in Change
    BY <1>5, <2>2
  <2>4. a \in Seq(Change) /\ Len(a) = 3 /\ a[1] = e1 /\ a[2] = e2 /\ a[3] = e3
    <3> HIDE DEF e1, e2, e3
    <3> QED BY <2>1
  <2> HIDE DEF f, a
  <2>5. [i \in 1..Len(old) |-> f(i)] \in Seq(Change)
    BY <1>5, <2>3, IsASeq
  <2>6. d \in Seq(Change)
    BY <1>5, <2>5 DEF f
  <2> QED BY <1>5, <2>4, <2>6
<1> HIDE DEF a, d
<1>8. /\ Len(a \o d) = Len(a) + Len(d)
      /\ \A i \in 1..(Len(a) + Len(d)) : (a \o d)[i] = IF i <= Len(a) THEN a[i] ELSE d[i - Len(a)]
  <2>1. a \in Seq(Change) /\ d \in Seq(Change)
    BY <1>7
  <2> DEFINE X == Change
  <2>2. a \in Seq(X) /\ d \in Seq(X)
    BY <2>1
  <2> HIDE DEF X
  <2> QED BY <2>2, Joined
<1>9. DOMAIN s = 1..(3 + Len(old)) /\ s[1] = e1 /\ s[2] = e2 /\ s[3] = e3
      /\ \A i \in DOMAIN s : i \in {1, 2, 3} \/ (i - 3 \in DOMAIN d /\ s[i] = d[i - 3])
  BY <1>2, <1>5, <1>7, <1>8
<1> HIDE DEF s
<1>10. Removed(disk, s, filepath(n))
  <2>1. \A i \in DOMAIN s : i > 1 => Leaves(s[i], filepath(n))
    <3> SUFFICES ASSUME NEW i \in DOMAIN s, i > 1 PROVE Leaves(s[i], filepath(n))
      OBVIOUS
    <3>1. Leaves(e2, filepath(n)) /\ Leaves(e3, filepath(n))
      BY <1>3, Leaving
    <3>2. \A j \in DOMAIN d : Leaves(d[j], filepath(n))
      BY <1>3, <1>6
    <3> HIDE DEF e1, e2, e3, old
    <3>3. s[i] \in {e2, e3} \/ (i - 3 \in DOMAIN d /\ s[i] = d[i - 3])
      BY <1>9
    <3> QED BY <3>1, <3>2, <3>3
  <2>2. 1 \in DOMAIN s
    BY <1>5, <1>9
  <2> QED BY <1>9, <2>1, <2>2 DEF Removed, LeftAfter, Unlink
<1>11. Removed(disk, s, metapath(n))
  <2>1. \A i \in DOMAIN s : i > 2 => Leaves(s[i], metapath(n))
    <3> SUFFICES ASSUME NEW i \in DOMAIN s, i > 2 PROVE Leaves(s[i], metapath(n))
      OBVIOUS
    <3>1. Leaves(e3, metapath(n))
      BY <1>3, Leaving
    <3>2. \A j \in DOMAIN d : Leaves(d[j], metapath(n))
      BY <1>3, <1>6
    <3> HIDE DEF e1, e2, e3, old
    <3>3. s[i] = e3 \/ (i - 3 \in DOMAIN d /\ s[i] = d[i - 3])
      BY <1>9
    <3> QED BY <3>1, <3>2, <3>3
  <2>2. 2 \in DOMAIN s
    BY <1>5, <1>9
  <2> QED BY <1>9, <2>1, <2>2 DEF Removed, LeftAfter, Unlink
<1>12. \A i \in DOMAIN s : Fine(s[i], PathsOf(q), TRUE)
  <2>1. \A p : p \in {filepath(n), undopath(n), metapath(n)} \cup {old[i].filepath : i \in DOMAIN old} =>
           Fine(Unlink(p), PathsOf(q), TRUE)
    BY <1>3, <1>4, Leaving DEF Fine, Cites, Unlink
  <2>2. Fine(e1, PathsOf(q), TRUE) /\ Fine(e2, PathsOf(q), TRUE) /\ Fine(e3, PathsOf(q), TRUE)
    BY <2>1
  <2>3. \A i \in DOMAIN d : Fine(d[i], PathsOf(q), TRUE)
    BY <2>1 DEF d
  <2> HIDE DEF e1, e2, e3
  <2> QED BY <1>9, <2>2, <2>3
<1>13. Modest(s, PathsOf(q), TRUE)
  BY <1>2, <1>12 DEF Modest, Range
<1> QED BY <1>1, <1>10, <1>11, <1>13

-----------------------------------------------------------------------------
(* Who works on a name *)

LEMMA Renames ==
    ASSUME NamesApart, IInv, Working(NS), op[NS].do = "rename"
    PROVE  /\ ok[NS] => \E a, k : RenameAt(a, k)
           /\ ~ok[NS] => /\ on[NS] \in files
                         /\ \E a \in Names : touch[NS] = {a, op[NS].to} /\ a # op[NS].to
                                             /\ rec[on[NS]].filename = a
           /\ op[NS].to \notin DOMAIN docs
           /\ \A s \in files : rec[s].filename = op[NS].to => s = on[NS]
<1> DEFINE b == op[NS].to
           q == [rec[on[NS]] EXCEPT !.filename = b]
<1>1. NS \in Threads /\ Busy(NS)
  BY DEF Threads, IInv, Handlers, Handler, Working
<1>2. /\ b \notin DOMAIN docs /\ on[NS] \in files
      /\ \A s \in files : rec[s].filename = b => s = on[NS]
      /\ \E a \in Names :
            /\ touch[NS] = {a, b} /\ a # b
            /\ ~ok[NS] => rec[on[NS]].filename = a
            /\ ok[NS] => \E k \in 0..6 :
                  todo[NS] = RenameRest(a, b, q, k) /\ rec[on[NS]].filename = IF k >= 4 THEN b ELSE a
  BY <1>1 DEF IInv, Renaming
<1>3. b \in Names
  BY <1>1, NoOpApart DEF IInv, Commands, Creates, Deletes
<1>4. rec[on[NS]] \in FileRecord /\ b \in Seq(Token) /\ b # <<>>
  BY <1>1, <1>2, <1>3, NameTypes DEF IInv, Types
<1>5. q \in Sidecar /\ q.filename = b
  BY <1>4 DEF Sidecar, FileRecord
<1> HIDE DEF q
<1>6. ASSUME ok[NS] PROVE \E a, k : RenameAt(a, k)
  <2>1. PICK a \in Names : /\ touch[NS] = {a, b} /\ a # b
                           /\ \E k \in 0..6 : /\ todo[NS] = RenameRest(a, b, q, k)
                                              /\ rec[on[NS]].filename = IF k >= 4 THEN b ELSE a
    BY <1>2, <1>6
  <2>2. PICK k \in 0..6 : todo[NS] = RenameRest(a, b, q, k) /\ rec[on[NS]].filename = IF k >= 4 THEN b ELSE a
    BY <2>1
  <2>3. Len(todo[NS]) = 6 - k
    <3>1. CASE k \in 0..5
      <4>1. RenameShrinks(a, b, q, k)
        BY <1>3, <1>5, <3>1, RenameShorter
      <4> QED BY <2>2, <4>1 DEF RenameShrinks
    <3>2. CASE k = 6
      <4>1. RenameRest(a, b, q, 6) = <<>>
        BY <1>3, <1>5, RenameOver
      <4> QED BY <2>2, <3>2, <4>1
    <3> QED BY <3>1, <3>2
  <2>4. Own(NS) = {a, b}
    BY <1>3, <2>1 DEF Own
  <2> QED BY <1>2, <1>3, <1>5, <2>1, <2>2, <2>3, <2>4 DEF RenameAt, q
<1> QED BY <1>2, <1>6

\* A handler whose names are known and that is not a rename works on one document.
LEMMA Holder ==
    ASSUME IInv, NEW t \in Threads, Locking(t), Working(t), op[t].do # "rename",
           NEW n \in Own(t), n \notin lost
    PROVE  on[t] \in files /\ rec[on[t]].filename = n /\ Own(t) = {n} /\ file_lock[on[t]] = t
<1>1. Good(n)
  BY DEF Own, Good
<1>2. on[t] \in files
  BY <1>1 DEF IInv, Records, RecordOf
<1> QED BY <1>2 DEF IInv, Records, RecordOf, Handlers, Handler

\* What a thread is that works.
LEMMA Kinds ==
    ASSUME IInv, NEW t \in Threads, Working(t)
    PROVE  /\ Busy(t) /\ on[t] \in Recs
           /\ Locking(t) \/ (t = NS /\ op[t].do \in {"create", "delete"} /\ touch[t] = {op[t].filename}
                                    /\ op[t].filename \in Names /\ Own(t) = {op[t].filename})
           /\ op[t].do = "rename" => t = NS
           /\ Copier(t) => t = NS
<1>1. Busy(t) /\ on[t] \in Recs
  BY DEF IInv, Handlers, Handler, Working
<1>2. t # NS => op[t] \in Requests
  BY <1>1, NoOpApart DEF IInv
<1>3. op[t].do = "rename" => t = NS
  BY <1>2 DEF Requests
<1>4. Copier(t) => t = NS
  BY <1>2 DEF Requests, Copier
<1>5. ASSUME ~Locking(t)
      PROVE  /\ t = NS /\ op[t].do \in {"create", "delete"} /\ touch[t] = {op[t].filename}
             /\ op[t].filename \in Names /\ Own(t) = {op[t].filename}
  <2>1. t = NS /\ op[t].do \in {"create", "delete"}
    BY <1>1, <1>5, NoOpApart DEF IInv, Locking
  <2>2. touch[t] = {op[t].filename}
    BY <1>1, <1>5 DEF IInv, Handlers, Handler
  <2>3. op[t].filename \in Names
    <3>1. op[t] \in Commands \cup Creates \cup Deletes
      BY <1>1, <2>1, NoOpApart DEF IInv
    <3> QED BY <2>1, <3>1 DEF Commands, Creates, Deletes
  <2> QED BY <2>1, <2>2, <2>3 DEF Own
<1> QED BY <1>1, <1>3, <1>4, <1>5

\* No two handlers work on a name of which something is known.
LEMMA SoleWorker ==
    ASSUME NamesApart, IInv, NEW A, PInvOf(A), NEW t \in Threads, NEW u \in Threads,
           NEW n \in Names, n \notin lost, n \in touch[t], n \in touch[u]
    PROVE  t = u
<1>1. Working(t) /\ Working(u) /\ n \in Own(t) /\ n \in Own(u) /\ Good(n)
  BY DEF Working, Own, Good
<1>2. ASSUME NEW x \in Threads, NEW y \in Threads, x # y, n \in touch[x], n \in touch[y],
             Locking(x), Locking(y), op[x].do # "rename", op[y].do # "rename"
      PROVE  FALSE
  <2>1. Working(x) /\ Working(y) /\ n \in Own(x) /\ n \in Own(y)
    BY <1>2 DEF Working, Own
  <2>2. on[x] \in files /\ rec[on[x]].filename = n /\ file_lock[on[x]] = x
    BY <1>2, <2>1, Holder
  <2>3. on[y] \in files /\ rec[on[y]].filename = n /\ file_lock[on[y]] = y
    BY <1>2, <2>1, Holder
  <2>4. on[x] = on[y]
    BY <1>1, <2>2, <2>3 DEF IInv, Unique
  <2> QED BY <1>2, <2>2, <2>3, <2>4
<1>3. ASSUME NEW y \in Threads, y # NS, n \in touch[NS], n \in touch[y] PROVE FALSE
  <2>1. NS \in Threads /\ Working(NS) /\ Working(y) /\ n \in Own(NS) /\ n \in Own(y)
    BY <1>3 DEF Working, Own, Threads
  <2>2. Locking(y) /\ op[y].do # "rename" /\ y \in Clients
    BY <1>3, <2>1, Kinds DEF Threads
  <2>3. on[y] \in files /\ rec[on[y]].filename = n /\ file_lock[on[y]] = y
    BY <2>1, <2>2, Holder
  <2>4. CASE Locking(NS) /\ op[NS].do # "rename"
    BY <1>2, <1>3, <2>1, <2>2, <2>4
  <2>5. CASE op[NS].do = "create"
    <3>1. Busy(NS) /\ n = op[NS].filename
      BY <1>3, <2>1, <2>5, Kinds DEF Locking
    <3> QED BY <2>3, <2>5, <3>1 DEF IInv, Creating
  <2>6. CASE op[NS].do = "delete"
    <3>1. Busy(NS) /\ n = op[NS].filename
      BY <1>3, <2>1, <2>6, Kinds DEF Locking
    <3>2. on[NS] \in files /\ rec[on[NS]].filename = n
      BY <2>6, <3>1 DEF IInv, Deleting
    <3>3. on[y] = on[NS]
      BY <1>1, <2>3, <3>2 DEF IInv, Unique
    <3> QED BY <1>1, <2>2, <2>6, <3>1, <3>3 DEF IInv, Deleting
  <2>7. CASE op[NS].do = "rename"
    <3>1. file_lock[on[NS]] = NS
      BY <2>1, <2>7, Kinds DEF IInv, Handlers, Handler, Locking
    <3>2. on[y] # on[NS]
      BY <1>3, <2>3, <3>1
    <3>3. CASE n = op[NS].to
      BY <2>1, <2>3, <2>7, <3>2, <3>3, Renames
    <3>4. CASE n # op[NS].to
      <4>1. on[NS] \in files /\ (rec[on[NS]].filename = n \/ (NsAt(A, "rename") /\ Len(todo[NS]) <= 2))
        <5>1. CASE ~ok[NS]
          BY <1>3, <2>1, <2>7, <3>4, <5>1, Renames
        <5>2. CASE ok[NS]
          <6>1. PICK a, k : RenameAt(a, k)
            BY <2>1, <2>7, <5>2, Renames
          <6>2. n = a
            BY <1>3, <3>4, <6>1 DEF RenameAt
          <6>3. CASE k >= 4
            BY <2>1, <2>7, <5>2, <6>1, <6>3 DEF RenameAt, NsAt, Active, PInvOf, Begun
          <6>4. CASE ~(k >= 4)
            BY <6>1, <6>2, <6>4 DEF RenameAt
          <6> QED BY <6>3, <6>4
        <5> QED BY <5>1, <5>2
      <4>2. CASE rec[on[NS]].filename = n
        BY <1>1, <2>3, <3>2, <4>1, <4>2 DEF IInv, Unique
      <4>3. CASE NsAt(A, "rename") /\ Len(todo[NS]) <= 2
        BY <1>3, <2>3, <3>4, <4>3 DEF PInvOf, RenameKept
      <4> QED BY <4>1, <4>2, <4>3
    <3> QED BY <3>3, <3>4
  <2> QED BY <2>1, <2>4, <2>5, <2>6, <2>7, Kinds
<1>4. \A x \in Threads : Working(x) /\ x # NS => Locking(x) /\ op[x].do # "rename"
  BY Kinds
<1> QED BY <1>1, <1>2, <1>3, <1>4

\* A handler of known names shares them with no other.
LEMMA Apart ==
    ASSUME NamesApart, IInv, NEW A, PInvOf(A), NEW t \in Threads, NEW u \in Threads, t # u, Clear(u)
    PROVE  Own(t) \cap Own(u) = {}
<1> SUFFICES ASSUME NEW n \in Own(t) \cap Own(u) PROVE FALSE
  OBVIOUS
<1>1. n \in Names /\ n \in touch[t] /\ n \in touch[u] /\ n \notin lost
  BY DEF Own, Clear
<1> QED BY <1>1, SoleWorker

-----------------------------------------------------------------------------
(* What one change may reach *)

\* What is left of a rename, change by change.
LEMMA PlanLeft ==
    ASSUME NamesApart, NEW a \in Names, NEW b \in Names, NEW q \in Sidecar, NEW k \in 0..6
    PROVE  LET v == RenameRest(a, b, q, k)
           IN  /\ v \in Seq(Change) /\ DOMAIN v = 1..(6 - k)
               /\ \A i \in DOMAIN v :
                     /\ i + k = 1 => v[i] = Rename(filepath(a), filepath(b), TRUE)
                     /\ i + k = 2 => v[i] = Rename(metapath(a), metapath(b), FALSE)
                     /\ i + k = 3 => v[i] = Rename(undopath(a), undopath(b), FALSE)
                     /\ i + k = 4 => v[i] = Memory(q)
                     /\ i + k = 5 => v[i] = Open(metapath(b))
                     /\ i + k = 6 => v[i] = Close(metapath(b), q)
                     /\ i + k \in 1..6
<1> DEFINE c1 == Rename(filepath(a), filepath(b), TRUE)
           c2 == Rename(metapath(a), metapath(b), FALSE)
           c3 == Rename(undopath(a), undopath(b), FALSE)
           c4 == Memory(q)
           c5 == Open(metapath(b))
           c6 == Close(metapath(b), q)
           plan == <<c1, c2, c3, c4, c5, c6>>
           v == SubSeq(plan, k + 1, 6)
<1>1. {c1, c2, c3, c4, c5, c6} \subseteq Change
  <2>1. \A m \in Names : {filepath(m), metapath(m), undopath(m)} \subseteq Seq(Token)
    BY Paths DEF FlatPath
  <2>2. \A u, w \in Seq(Token) : \A e \in BOOLEAN :
            Rename(u, w, e) \in Change /\ Open(u) \in Change /\ Close(u, q) \in Change
    BY DEF Rename, Open, Close, Change
  <2>3. c4 \in Change
    BY DEF Memory, Change
  <2> QED BY <2>1, <2>2, <2>3
<1>2. RenameRest(a, b, q, k) = v
  BY DEF RenamePlan, RenameRest
<1> HIDE DEF c1, c2, c3, c4, c5, c6
<1>3. /\ plan \in Seq(Change) /\ Len(plan) = 6 /\ plan[1] = c1 /\ plan[2] = c2 /\ plan[3] = c3
      /\ plan[4] = c4 /\ plan[5] = c5 /\ plan[6] = c6
  BY <1>1
<1> HIDE DEF plan
<1>4. \A i \in 1..6 : plan[i] \in Change
  BY <1>3, ElementOfSeq
<1>5. v \in Seq(Change) /\ Len(v) = 6 - k /\ \A i \in 1..(6 - k) : v[i] = plan[i + k]
  <2>1. \A i \in (k + 1)..6 : plan[i] \in Change
    BY <1>4
  <2> QED BY <1>3, <2>1, SubSeqProperties
<1> HIDE DEF v
<1>6. DOMAIN v = 1..(6 - k)
  BY <1>5
<1>7. \A i \in DOMAIN v : v[i] = plan[i + k] /\ i + k \in 1..6
  <2> SUFFICES ASSUME NEW i \in 1..(6 - k) PROVE v[i] = plan[i + k] /\ i + k \in 1..6
    BY <1>6
  <2>1. i \in 1..(6 - k) /\ i + k \in 1..6
    OBVIOUS
  <2> QED BY <1>5, <2>1
<1> QED BY <1>2, <1>3, <1>5, <1>6, <1>7 DEF c1, c2, c3, c4, c5, c6

\* The files that are still to be moved.
LEMMA Sources ==
    ASSUME NamesApart, IInv, NEW t \in Threads, Working(t), ok[t],
           NEW j \in DOMAIN todo[t], todo[t][j].do = "rename"
    PROVE  /\ todo[t][j].path \in FilesOf(Own(t))
           /\ op[t].do # "rename" => \E n \in Own(t) : todo[t][j] = Rename(temp_path(n), filepath(n), TRUE)
<1>1. CASE op[t].do # "rename"
  <2>1. Proper(todo[t][j], Own(t))
    BY <1>1 DEF IInv, Confined, Planned, Range
  <2>2. PICK n \in Own(t) : todo[t][j] = Rename(temp_path(n), filepath(n), TRUE)
    BY <2>1 DEF Proper
  <2>3. todo[t][j].path = temp_path(n)
    BY <2>2 DEF Rename
  <2>4. temp_path(n) \in FilesOf(Own(t))
    BY DEF FilesOf
  <2> QED BY <2>2, <2>3, <2>4
<1>2. CASE op[t].do = "rename"
  <2>1. t = NS
    BY <1>2, Kinds
  <2>2. PICK a, k : RenameAt(a, k)
    BY <1>2, <2>1, Renames
  <2> DEFINE b == op[NS].to
             q == [rec[on[NS]] EXCEPT !.filename = b]
             v == RenameRest(a, b, q, k)
  <2>3. a \in Names /\ b \in Names /\ Own(NS) = {a, b} /\ k \in 0..6 /\ todo[NS] = v /\ q \in Sidecar
    BY <2>2 DEF RenameAt
  <2> HIDE DEF b, q
  <2>4. /\ \A i \in DOMAIN v :
            /\ i + k = 1 => v[i] = Rename(filepath(a), filepath(b), TRUE)
            /\ i + k = 2 => v[i] = Rename(metapath(a), metapath(b), FALSE)
            /\ i + k = 3 => v[i] = Rename(undopath(a), undopath(b), FALSE)
            /\ i + k = 4 => v[i] = Memory(q)
            /\ i + k = 5 => v[i] = Open(metapath(b))
            /\ i + k = 6 => v[i] = Close(metapath(b), q)
            /\ i + k \in 1..6
    BY <2>3, PlanLeft, Zenon
  <2> HIDE DEF v
  <2>5. v[j].do = "rename" => v[j].path \in {filepath(a), metapath(a), undopath(a)}
    <3>1. /\ j \in DOMAIN v /\ j + k \in 1..6
      BY <2>1, <2>3, <2>4
    <3>2. j + k = 1 \/ j + k = 2 \/ j + k = 3 \/ j + k = 4 \/ j + k = 5 \/ j + k = 6
      BY <3>1
    <3> QED BY <2>4, <3>1, <3>2 DEF Rename, Memory, Open, Close
  <2> QED BY <1>2, <2>1, <2>3, <2>5 DEF FilesOf
<1> QED BY <1>1, <1>2

LEMMA RenameHead ==
    ASSUME NamesApart, IInv, Step(NS), op[NS].do = "rename", NEW a, NEW k, RenameAt(a, k)
    PROVE  /\ k \in 0..5 /\ Working(NS) /\ ok[NS]
           /\ RenameStep(Head(todo[NS]), a, op[NS].to, [rec[on[NS]] EXCEPT !.filename = op[NS].to], k)
<1> DEFINE b == op[NS].to
           q == [rec[on[NS]] EXCEPT !.filename = b]
<1>1. todo[NS] # <<>> /\ Working(NS) /\ ok[NS]
  BY StepFacts DEF Threads
<1>2. a \in Names /\ b \in Names /\ k \in 0..6 /\ q \in Sidecar /\ q.filename = b
      /\ todo[NS] = RenameRest(a, b, q, k)
  BY DEF RenameAt
<1> HIDE DEF b, q
<1>3. k # 6
  BY <1>1, <1>2, RenameOver
<1>4. k \in 0..5
  BY <1>2, <1>3
<1>5. RenameStep(Head(RenameRest(a, b, q, k)), a, b, q, k)
  BY <1>2, <1>4, RenameChange, Zenon
<1> QED BY <1>1, <1>2, <1>4, <1>5 DEF b, q

\* Checkpoint files of a record.
LEMMA RecordPaths == ASSUME NEW q \in FileRecord PROVE PathsOf(q) \subseteq CkptPath
<1> DEFINE R == [tag : Tags, filepath : CkptPath]
           v == q.checkpoints
<1>1. v \in Seq(R)
  BY DEF FileRecord
<1> HIDE DEF R, v
<1>2. \A i \in DOMAIN v : v[i] \in R
  BY <1>1
<1> QED BY <1>2 DEF PathsOf, R, v

LEMMA NextChange ==
    ASSUME NamesApart, IInv, NEW t \in Threads, Step(t)
    PROVE  Within(Head(todo[t]), Own(t), {p \in CkptPath : Pending(t, p)})
<1> DEFINE e == Head(todo[t])
           C == {p \in CkptPath : Pending(t, p)}
<1>1. /\ e \in Change /\ e \in Range(todo[t]) /\ Working(t) /\ ok[t] /\ Own(t) \in SUBSET Names
  BY StepFacts DEF Own
<1>2. Orderly(e) /\ e.do = "close" /\ IsMeta(e.path) => PathsOf(e.content) \subseteq CkptPath
  <2> SUFFICES ASSUME e.do = "close" /\ IsMeta(e.path), Orderly(e)
               PROVE  PathsOf(e.content) \subseteq CkptPath
    OBVIOUS
  <2>1. e.content \in Sidecar
    BY DEF Orderly
  <2> QED BY <2>1, RecordPaths DEF Sidecar
<1>3. e.do = "memory" => PathsOf(e.record) \subseteq CkptPath
  <2> SUFFICES ASSUME e.do = "memory" PROVE PathsOf(e.record) \subseteq CkptPath
    OBVIOUS
  <2>1. e.record \in Sidecar
    BY <1>1 DEF Change
  <2> QED BY <2>1, RecordPaths DEF Sidecar
<1>4. /\ Orderly(e) /\ e.do = "close" /\ IsMeta(e.path) => PathsOf(e.content) \subseteq C
      /\ e.do = "memory" => PathsOf(e.record) \subseteq C
  BY <1>1, <1>2, <1>3 DEF Pending, Cites
<1>5. CASE op[t].do # "rename"
  <2>1. Proper(e, Own(t))
    BY <1>1, <1>5 DEF IInv, Confined, Planned
  <2>2. /\ Orderly(e)
        /\ \A p : p \notin FilesOf(Own(t)) \cup CkptPath => Leaves(e, p)
    BY <1>1, <2>1, ProperChange
  <2>3. ASSUME NEW p \in CkptPath, ~Leaves(e, p) PROVE p \in C
    <3>1. e.path = p \/ (e.do = "rename" /\ e.to = p)
      BY <2>3 DEF Leaves
    <3>2. ~(e.do = "rename" /\ e.to = p)
      <4> SUFFICES ASSUME e.do = "rename", e.to = p PROVE FALSE
        OBVIOUS
      <4>1. PICK n \in Own(t) : e = Rename(temp_path(n), filepath(n), TRUE)
        BY <2>1 DEF Proper
      <4>2. e.to = filepath(n) /\ filepath(n) \notin CkptPath
        BY <1>1, <4>1, Paths DEF Rename
      <4> QED BY <2>3, <4>2
    <3>3. e.do # "memory"
      BY <2>3 DEF Leaves
    <3> QED BY <1>1, <2>3, <3>1, <3>2, <3>3 DEF Pending, Cites
  <2>4. /\ e.do = "close" /\ IsMeta(e.path) => e.content.filename \in Own(t)
        /\ e.do = "memory" => e.record.filename \in Own(t)
    BY <2>1 DEF Proper
  <2> QED BY <1>4, <2>2, <2>3, <2>4 DEF Within
<1>6. CASE op[t].do = "rename"
  <2>1. t = NS
    BY <1>1, <1>6, Kinds
  <2>2. PICK a, k : RenameAt(a, k)
    BY <1>1, <1>6, <2>1, Renames
  <2> DEFINE b == op[NS].to
             q == [rec[on[NS]] EXCEPT !.filename = b]
  <2>3. a \in Names /\ b \in Names /\ Own(NS) = {a, b} /\ q.filename = b
    BY <2>2 DEF RenameAt
  <2>4. k \in 0..5 /\ RenameStep(e, a, b, q, k)
    BY <1>6, <2>1, <2>2, RenameHead
  <2> HIDE DEF b, q, e
  <2>5. \A p : p \notin FilesOf(Own(t)) => Leaves(e, p)
    BY <2>1, <2>3, <2>4 DEF RenameStep
  <2>6. \A p \in CkptPath : p \notin FilesOf(Own(t))
    BY <1>1, Paths DEF FilesOf
  <2>7. e.do = "memory" => e.record.filename \in Own(t)
    BY <2>1, <2>3, <2>4 DEF RenameStep, Memory
  <2>8. e.do = "close" => e.content.filename \in Own(t)
    <3>1. k = 0 \/ k = 1 \/ k = 2 \/ k = 3 \/ k = 4 \/ k = 5
      BY <2>4
    <3> QED BY <2>1, <2>3, <2>4, <3>1 DEF RenameStep
  <2>9. Orderly(e)
    BY <2>4 DEF RenameStep
  <2> HIDE DEF C
  <2> QED BY <1>4, <2>5, <2>6, <2>7, <2>8, <2>9 DEF Within, C, e
<1> QED BY <1>5, <1>6

LEMMA MetaApart ==
    ASSUME NamesApart, NEW N \in SUBSET Names, NEW n \in Names, n \notin N
    PROVE  metapath(n) \notin FilesOf(N) \cup CkptPath
<1>1. IsMeta(metapath(n)) /\ metapath(n) \notin CkptPath
  BY Paths
<1>2. ASSUME NEW k \in N PROVE metapath(n) \notin {filepath(k), metapath(k), undopath(k), temp_path(k)}
  <2>1. k \in Names /\ k # n
    OBVIOUS
  <2>2. ~IsMeta(filepath(k)) /\ ~IsMeta(undopath(k)) /\ ~IsMeta(temp_path(k))
    BY <2>1, Paths
  <2>3. metapath(n) # metapath(k)
    BY <2>1, Paths
  <2> QED BY <1>1, <2>2, <2>3
<1> QED BY <1>1, <1>2 DEF FilesOf

LEMMA NamesFilesApart ==
    ASSUME NamesApart, NEW N \in SUBSET Names, NEW M \in SUBSET Names, N \cap M = {}
    PROVE  \A p \in FilesOf(M) : p \notin FilesOf(N) \cup CkptPath
<1> SUFFICES ASSUME NEW m \in M, NEW p \in {filepath(m), metapath(m), undopath(m), temp_path(m)}
             PROVE  p \notin FilesOf(N) \cup CkptPath
  BY DEF FilesOf
<1>1. m \in Names /\ m \notin N
  OBVIOUS
<1> QED BY <1>1, MetaApart, FilesApart

\* A change leaves the files of such names alone.
LEMMA StepFrame ==
    ASSUME NamesApart, IInv, NEW A, PInvOf(A), NEW t \in A, Step(t), NEW M, Aside(A, M, t)
    PROVE  /\ \A p \in FilesOf(M) : Same(disk, disk', p)
           /\ \A m \in M : \A p \in CkptPath : Ref(A, m, p) => Same(disk, disk', p)
<1> DEFINE e == Head(todo[t])
           C == {p \in CkptPath : Pending(t, p)}
<1>1. t \in Threads /\ Own(t) \subseteq Names /\ Own(t) # {}
  BY DEF PInvOf, Begun, Owned, Own
<1>2. e \in Change /\ disk' = AfterChange(e)
  BY <1>1, StepFacts
<1>3. Within(e, Own(t), C)
  BY <1>1, NextChange
<1> HIDE DEF e
<1>4. \A p : Leaves(e, p) => Same(disk, disk', p)
  BY <1>2, Untouched DEF Same
<1>5. ASSUME NEW p \in FilesOf(M) PROVE Same(disk, disk', p)
  <2>1. M \subseteq Names /\ Own(t) \cap M = {}
    BY DEF Aside, Own
  <2>2. p \notin FilesOf(Own(t)) \cup CkptPath
    BY <1>1, <2>1, NamesFilesApart
  <2> QED BY <1>3, <1>4, <2>2 DEF Within
<1>6. ASSUME NEW m \in M, NEW p \in CkptPath, Ref(A, m, p) PROVE Same(disk, disk', p)
  <2>1. SUFFICES ASSUME ~Leaves(e, p) PROVE FALSE
    BY <1>4
  <2>2. Pending(t, p)
    BY <1>3, <2>1 DEF Within
  <2>3. PICK k \in Own(t) : TRUE
    BY <1>1
  <2>4. Ref(A, k, p)
    BY <2>2, <2>3 DEF Ref, Own
  <2>5. m \in Names /\ k \in Names /\ m # k /\ Clean(A, m)
    BY <1>1, <2>3 DEF Aside, Own
  <2>6. ~Together(A, m, k)
    <3> SUFFICES ASSUME NEW u \in A, m \in touch[u], k \in touch[u] PROVE FALSE
      BY DEF Together
    <3>1. Own(u) \cap Own(t) = {}
      BY DEF Aside
    <3> QED BY <2>3, <2>5, <3>1 DEF Own
  <2> QED BY <1>6, <2>4, <2>5, <2>6 DEF PInvOf, CkptsApart
<1> QED BY <1>5, <1>6

\* What a change of t leaves of a document: the record of a name that nobody
\* works on, and what another handler drafts.
LEMMA RecordFrame ==
    ASSUME NamesApart, IInv, NEW A, PInvOf(A), NEW t \in A, Step(t), NEW M, Aside(A, M, t),
           NEW q \in FileRecord, NEW m \in M, q.filename \in M, NEW s, NEW doc, Holds(disk, s, q, doc),
           \A p \in PathsOf(q) : Ref(A, m, p),
           \A j \in DOMAIN s : s[j].do = "rename" => s[j].path \in FilesOf(M)
    PROVE  Holds(disk', s, q, doc)
<1>1. PathsOf(q) \subseteq CkptPath
  BY RecordPaths
<1>2. /\ \A p \in FilesOf(M) : Same(disk, disk', p)
      /\ \A p \in CkptPath : Ref(A, m, p) => Same(disk, disk', p)
  BY StepFrame
<1>3. HoldsOn(disk, disk', M, q)
  BY <1>1, <1>2 DEF HoldsOn
<1> QED BY <1>3, HoldsFrame

-----------------------------------------------------------------------------
(* A change of a handler that has begun *)

\* The record that a handler works on has one of its names.
LEMMA OnOwn ==
    ASSUME NamesApart, IInv, NEW t \in Threads, Working(t), ok[t], Locking(t), on[t] \in files
    PROVE  rec[on[t]].filename \in Own(t)
<1>1. CASE op[t].do # "rename"
  BY <1>1 DEF IInv, Records, RecordOf
<1>2. CASE op[t].do = "rename"
  <2>1. t = NS
    BY <1>2, Kinds
  <2>2. PICK a, k : RenameAt(a, k)
    BY <1>2, <2>1, Renames
  <2> QED BY <2>1, <2>2 DEF RenameAt
<1> QED BY <1>1, <1>2

\* A handler that is to change a document it has to itself has its record.
LEMMA OnListed ==
    ASSUME NamesApart, IInv, NEW t \in Threads, Working(t), ok[t], NEW n \in touch[t],
           n \in DOMAIN docs \ lost, op[t].do # "delete"
    PROVE  Locking(t) /\ on[t] \in files /\ rec[on[t]].filename \in Own(t)
           /\ file_lock[on[t]] = t /\ n \in Own(t) /\ NewName(t, n) \in Own(t)
<1>1. n \in Own(t) /\ n \in Names
  BY DEF IInv, Types, Own
<1>2. Locking(t)
  <2> SUFFICES ASSUME ~Locking(t) PROVE FALSE
    OBVIOUS
  <2>1. Busy(NS) /\ op[NS].do = "create" /\ n = op[NS].filename
    BY <1>1, Kinds
  <2> QED BY <2>1 DEF IInv, Creating
<1>3. on[t] \in files /\ NewName(t, n) \in Own(t)
  <2>1. CASE op[t].do # "rename"
    BY <1>1, <1>2, <2>1, Holder DEF NewName
  <2>2. CASE op[t].do = "rename"
    <3>1. t = NS
      BY <2>2, Kinds
    <3>2. PICK a, k : RenameAt(a, k)
      BY <2>2, <3>1, Renames
    <3> QED BY <2>2, <3>1, <3>2 DEF RenameAt, NewName
  <2> QED BY <2>1, <2>2
<1>4. file_lock[on[t]] = t
  BY <1>2 DEF IInv, Handlers, Handler
<1> QED BY <1>1, <1>2, <1>3, <1>4, OnOwn

\* Names that a change of t does not concern.
LEMMA AsideOwn ==
    ASSUME NamesApart, IInv, NEW A, PInvOf(A), NEW t \in A, NEW u \in A, u # t, Clear(u)
    PROVE  Aside(A, Own(u), t)
<1>1. A \subseteq Threads
  BY DEF PInvOf, Begun
<1>2. Own(t) \cap Own(u) = {}
  BY <1>1, Apart
<1>3. ASSUME NEW m \in Own(u)
      PROVE  /\ m \in Names /\ Clean(A, m) /\ m \notin touch[t]
             /\ \A v \in A : m \in touch[v] => Own(v) \cap Own(t) = {}
  <2>1. m \in Names /\ m \in touch[u] /\ m \notin lost /\ m \notin Own(t)
    BY <1>2 DEF Own, Clear
  <2>2. \A v \in A : m \in touch[v] => v = u
    BY <1>1, <2>1, SoleWorker
  <2>3. Clean(A, m)
    BY <2>1, <2>2 DEF Clean
  <2> QED BY <1>2, <2>1, <2>2, <2>3 DEF Own
<1> QED BY <1>3 DEF Aside

LEMMA AsideFree ==
    ASSUME NEW A, NEW t \in A, NEW n \in Names, n \notin lost, \A u \in A : n \notin touch[u]
    PROVE  Aside(A, {n}, t)
BY DEF Aside, Clean

\* What the change of t alters in memory.
LEMMA StepMemory ==
    ASSUME NamesApart, IInv, NEW A, PInvOf(A), NEW t \in A, Step(t)
    PROVE  LET e == Head(todo[t])
           IN  /\ t \in Threads /\ Working(t) /\ ok[t] /\ on[t] \in Recs /\ A \subseteq Threads
               /\ UNCHANGED <<files, op, on, now, docs, touch, lost>>
               /\ \A u \in Threads : u # t => todo'[u] = todo[u]
               /\ \A e1 \in Range(todo'[t]) : e1 \in Range(todo[t])
               /\ \A r \in Recs : rec'[r] # rec[r] =>
                     /\ r = on[t] /\ r \in files /\ Locking(t) /\ rec[r].filename \in Own(t)
                     /\ e.do = "memory" /\ rec'[r] = e.record /\ e \in Range(todo[t])
                     /\ e.record.filename \in Own(t) /\ \A p \in PathsOf(e.record) : Pending(t, p)
               /\ on[t] \in files =>
                     rec'[on[t]] = IF e.do = "memory" THEN e.record ELSE rec[on[t]]
<1> DEFINE e == Head(todo[t])
<1>1. t \in Threads /\ A \subseteq Threads
  BY DEF PInvOf, Begun
<1>2. /\ e \in Range(todo[t])
      /\ Busy(t) /\ Working(t) /\ ok[t] /\ on[t] \in Recs
      /\ rec' = IF e.do = "memory" /\ on[t] \in files THEN [rec EXCEPT ![on[t]] = e.record] ELSE rec
      /\ \A u \in Threads : u # t => todo'[u] = todo[u]
      /\ \A e1 \in Range(todo'[t]) : e1 \in Range(todo[t])
      /\ UNCHANGED <<files, op, on, now, docs, touch, lost>>
  BY <1>1, StepFacts
<1>3. Within(e, Own(t), {p \in CkptPath : Pending(t, p)})
  BY <1>1, NextChange
<1> HIDE DEF e
<1>4. rec \in [Recs -> FileRecord]
  BY DEF IInv, Types
<1>5. CASE e.do = "memory" /\ on[t] \in files
  <2>1. Locking(t)
    BY <1>1, <1>2, <1>5 DEF IInv, Confined, Planned, Locking
  <2>2. rec[on[t]].filename \in Own(t)
    BY <1>1, <1>2, <1>5, <2>1, OnOwn
  <2>3. e.record.filename \in Own(t) /\ \A p \in PathsOf(e.record) : Pending(t, p)
    BY <1>3, <1>5 DEF Within
  <2> QED BY <1>1, <1>2, <1>4, <1>5, <2>1, <2>2, <2>3 DEF e
<1>6. CASE ~(e.do = "memory" /\ on[t] \in files)
  BY <1>1, <1>2, <1>6 DEF e
<1> QED BY <1>5, <1>6

\* The documents of the others are not concerned, and t's comes nearer to its end.
LEMMA StepDocs ==
    ASSUME NamesApart, IInv, NEW A, PInvOf(A), NEW t \in A, Step(t), todo'[t] = Tail(todo[t])
    PROVE  DocsKept(A)'
<1> DEFINE e == Head(todo[t])
<1>1. /\ t \in Threads /\ Working(t) /\ ok[t] /\ on[t] \in Recs /\ A \subseteq Threads
      /\ UNCHANGED <<files, op, on, now, docs, touch, lost>>
      /\ \A u \in Threads : u # t => todo'[u] = todo[u]
      /\ \A r \in Recs : rec'[r] # rec[r] =>
            r = on[t] /\ r \in files /\ Locking(t) /\ rec[r].filename \in Own(t)
      /\ on[t] \in files => rec'[on[t]] = IF e.do = "memory" THEN e.record ELSE rec[on[t]]
  BY StepMemory
<1>2. todo[t] \in Seq(Change) /\ todo[t] # <<>> /\ disk' = AfterChange(e)
  BY <1>1, StepFacts
<1> HIDE DEF e
<1>3. files \subseteq Recs /\ DOMAIN docs \subseteq Names /\ rec \in [Recs -> FileRecord]
  BY DEF IInv, Types
<1>4. \A u \in A : Working(u) /\ ok[u] /\ (Clear(u)' <=> Clear(u))
  BY <1>1 DEF PInvOf, Begun, Clear
<1>5. ASSUME NEW n \in DOMAIN docs \ lost, \A u \in A : n \notin touch[u]
      PROVE  Settled(n)'
  <2>1. PICK r \in files : rec[r].filename = n /\ Holds(disk, <<>>, rec[r], docs[n])
    BY <1>5 DEF PInvOf, DocsKept, Settled
  <2>2. rec'[r] = rec[r]
    BY <1>1, <1>3, <1>5, <2>1 DEF Own
  <2>3. Aside(A, {n}, t)
    BY <1>3, <1>5, AsideFree
  <2>4. \A p \in PathsOf(rec[r]) : Ref(A, n, p)
    BY <2>1 DEF Ref
  <2>5. \A j \in DOMAIN <<>> : <<>>[j].do = "rename" => <<>>[j].path \in FilesOf({n})
    OBVIOUS
  <2>6. n \in {n} /\ rec[r].filename \in {n} /\ rec[r] \in FileRecord
    BY <1>3, <2>1
  <2>7. Holds(disk', <<>>, rec[r], docs[n])
    BY <2>1, <2>3, <2>4, <2>5, <2>6, RecordFrame
  <2>8. docs[n] \in Doc
    BY <1>5 DEF PInvOf, DocsKept, Settled
  <2> QED BY <1>1, <2>1, <2>2, <2>7, <2>8 DEF Settled
<1>6. ASSUME NEW u \in A, NEW n \in DOMAIN docs \ lost, n \in touch[u], Clear(u), op[u].do # "delete"
      PROVE  Underway(u, n)'
  <2> DEFINE doc == Promise(docs[n], op[u])
  <2>1. doc \in Doc /\ \E q \in Drafts(u) :
              Final(u, q) /\ q.filename = NewName(u, n) /\ Holds(disk, todo[u], q, doc)
    BY <1>6 DEF PInvOf, DocsKept, Underway
  <2>2. PICK q \in Drafts(u) : Final(u, q) /\ q.filename = NewName(u, n) /\ Holds(disk, todo[u], q, doc)
    BY <2>1
  <2>3. Locking(u) /\ on[u] \in files /\ rec[on[u]].filename \in Own(u) /\ file_lock[on[u]] = u
        /\ n \in Own(u) /\ NewName(u, n) \in Own(u)
    BY <1>1, <1>4, <1>6, OnListed
  <2>4. doc' = doc /\ NewName(u, n)' = NewName(u, n)
    BY <1>1 DEF NewName, Promise, Pruned
  <2> HIDE DEF doc
  <2>5. CASE u = t
    <3>1. on'[t] = on[t] /\ rec'[on[t]] = IF Head(todo[t]).do = "memory" THEN Head(todo[t]).record ELSE rec[on[t]]
      BY <1>1, <2>3, <2>5 DEF e
    <3>2. Final(t, q)'
      BY <1>2, <2>2, <2>5, <3>1, FinalStep
    <3>3. Holds(disk', Tail(todo[t]), q, doc)
      BY <1>2, <2>2, <2>5, HoldsStep DEF e
    <3>4. q \in Drafts(t)'
      BY <3>2, FinalDrafted DEF Final, Drafts
    <3> QED BY <2>1, <2>2, <2>4, <2>5, <3>2, <3>3, <3>4 DEF Underway, doc
  <2>6. CASE u # t
    <3>1. Aside(A, Own(u), t)
      BY <1>6, <2>6, AsideOwn
    <3>2. rec'[on[u]] = rec[on[u]] /\ todo'[u] = todo[u]
      <4>1. todo'[u] = todo[u]
        BY <1>1, <2>6
      <4>2. on[u] # on[t] \/ ~Locking(t)
        BY <1>1, <2>3, <2>6 DEF IInv, Handlers, Handler
      <4> QED BY <1>1, <1>3, <2>3, <4>1, <4>2
    <3>3. q \in FileRecord /\ \E m \in Own(u) : \A p \in PathsOf(q) : Ref(A, m, p)
      <4>1. CASE q = rec[on[u]]
        BY <1>3, <2>3, <4>1 DEF Ref
      <4>2. ASSUME NEW x \in Range(todo[u]), x.do = "memory", q = x.record
            PROVE  q \in FileRecord /\ \A p \in PathsOf(q) : Ref(A, n, p)
        <5>1. todo[u] \in Seq(Change)
          BY <1>1 DEF IInv, Types
        <5>2. x \in Change
          BY <5>1 DEF Range
        <5>3. q \in FileRecord
          BY <4>2, <5>2 DEF Change, Sidecar
        <5>4. \A p \in PathsOf(q) : Pending(u, p)
          BY <4>2 DEF Pending, Cites
        <5> QED BY <1>6, <5>3, <5>4 DEF Ref
      <4> QED BY <2>2, <2>3, <4>1, <4>2 DEF Drafts
    <3>4. PICK m \in Own(u) : \A p \in PathsOf(q) : Ref(A, m, p)
      BY <3>3
    <3>5. \A j \in DOMAIN todo[u] : todo[u][j].do = "rename" => todo[u][j].path \in FilesOf(Own(u))
      BY <1>1, <1>4, Sources
    <3>6. Holds(disk', todo[u], q, doc)
      BY <2>2, <2>3, <3>1, <3>3, <3>4, <3>5, RecordFrame
    <3>7. Final(u, q)' /\ q \in Drafts(u)'
      BY <1>1, <2>2, <3>2 DEF Final, Drafts
    <3> QED BY <2>1, <2>2, <2>4, <3>2, <3>6, <3>7 DEF Underway, doc
  <2> QED BY <2>5, <2>6
<1>7. \A n \in DOMAIN docs \ lost :
        /\ (\A u \in A : n \notin touch[u]) => Settled(n)'
        /\ \A u \in A : n \in touch[u] /\ Clear(u) /\ op[u].do # "delete" => Underway(u, n)'
  BY <1>5, <1>6
<1> QED BY <1>1, <1>4, <1>7 DEF DocsKept

\* What a sidecar on the disk is after a change.
LEMMA MetaStep ==
    ASSUME NEW e \in Change, NEW N, NEW C, Within(e, N, C), disk' = AfterChange(e),
           NEW p \in DOMAIN disk', IsMeta(p), disk'[p] # Empty
    PROVE  \/ \E x \in DOMAIN disk : IsMeta(x) /\ disk[x] = disk'[p]
           \/ disk'[p].filename \in N /\ PathsOf(disk'[p]) \subseteq C
<1>1. e.do \in {"open", "close", "unlink", "rename", "memory"}
  BY DEF Change
<1>2. CASE Leaves(e, p)
  BY <1>2, Untouched
<1>3. CASE ~Leaves(e, p)
  <2>1. e.do # "memory" /\ (e.path = p \/ (e.do = "rename" /\ e.to = p))
    BY <1>3 DEF Leaves
  <2>2. CASE e.do = "open"
    BY <2>1, <2>2, Effect
  <2>3. CASE e.do = "close"
    BY <2>1, <2>3, Effect DEF Within
  <2>4. CASE e.do = "unlink"
    BY <2>1, <2>4, Effect
  <2>5. CASE e.do = "rename" /\ e.path \notin DOMAIN disk
    BY <2>5, Effect
  <2>6. CASE e.do = "rename" /\ e.path \in DOMAIN disk
    <3>1. CASE p = e.to
      <4>1. disk'[p] = disk[e.path]
        BY <2>6, <3>1, Effect
      <4>2. IsMeta(e.path)
        BY <2>6, <3>1 DEF Within, Orderly
      <4> QED BY <2>6, <4>1, <4>2
    <3>2. CASE p # e.to
      BY <2>1, <2>6, <3>2, Effect
    <3> QED BY <3>1, <3>2
  <2> QED BY <1>1, <2>1, <2>2, <2>3, <2>4, <2>5, <2>6
<1> QED BY <1>2, <1>3

LEMMA TempFlat ==
    ASSUME NamesApart, NEW n \in Names
    PROVE  /\ filepath(temp_path(n)) = temp_path(n) /\ temp_path(n) \notin Names
           /\ undopath(n)[Len(undopath(n))] = ".undo"
<1>1. temp_path(n) \in FlatPath /\ temp_path(n) \in Seq(Token) /\ temp_path(n) \notin Names /\ n \in Seq(Token)
  BY Paths, NameTypes
<1>2. filepath(temp_path(n)) = temp_path(n)
  BY <1>1, Flattened DEF filepath
<1>3. undopath(n)[Len(undopath(n))] = ".undo"
  <2>1. flatten_logical_path(n) \in Seq(Token) /\ ".undo" \in Token
    BY <1>1, Flattened DEF Token
  <2> QED BY <2>1, Suffixed DEF undopath
<1> QED BY <1>1, <1>2, <1>3

LEMMA StepCreate ==
    ASSUME NamesApart, IInv, NEW A, PInvOf(A), NEW t \in A, Step(t), todo'[t] = Tail(todo[t])
    PROVE  CreateKept(A)' /\ DeleteKept(A)'
<1>1. /\ t \in Threads /\ A \subseteq Threads
      /\ UNCHANGED <<files, op, on, now, docs, touch, lost>>
      /\ \A u \in Threads : u # t => todo'[u] = todo[u]
  BY StepMemory
<1>2. todo[t] \in Seq(Change) /\ todo[t] # <<>> /\ disk' = AfterChange(Head(todo[t]))
  BY <1>1, StepFacts
<1>3. SUFFICES ASSUME NS \in A, op[NS].do \in {"create", "delete"}, op[NS].filename \notin lost
      PROVE  LET n == op[NS].filename
             IN  /\ op[NS].do = "create" =>
                       /\ Ends(disk', todo'[NS], metapath(n), NewRecord(n, op[NS].owner))
                       /\ Ends(disk', todo'[NS], filepath(n), Empty)
                 /\ op[NS].do = "delete" =>
                       Removed(disk', todo'[NS], filepath(n)) /\ Removed(disk', todo'[NS], metapath(n))
  BY <1>1 DEF CreateKept, DeleteKept, NsAt
<1> DEFINE n == op[NS].filename
           q == NewRecord(n, op[NS].owner)
<1>4. /\ op[NS].do = "create" => Ends(disk, todo[NS], metapath(n), q) /\ Ends(disk, todo[NS], filepath(n), Empty)
      /\ op[NS].do = "delete" => Removed(disk, todo[NS], filepath(n)) /\ Removed(disk, todo[NS], metapath(n))
  BY <1>3 DEF PInvOf, CreateKept, DeleteKept, NsAt
<1> HIDE DEF q
<1>5. CASE t = NS
  <2>1. op[NS].do = "create" =>
            Ends(disk', todo'[NS], metapath(n), q) /\ Ends(disk', todo'[NS], filepath(n), Empty)
    BY <1>2, <1>4, <1>5, EndsStep
  <2>2. op[NS].do = "delete" =>
            Removed(disk', todo'[NS], filepath(n)) /\ Removed(disk', todo'[NS], metapath(n))
    BY <1>2, <1>4, <1>5, RemovedStep
  <2> QED BY <2>1, <2>2 DEF q
<1>6. CASE t # NS
  <2>1. Working(NS) /\ NS \in Threads
    BY <1>3 DEF PInvOf, Begun
  <2>2. touch[NS] = {n} /\ Own(NS) = {n}
    BY <1>3, <2>1, Kinds DEF Locking
  <2>3. Aside(A, Own(NS), t)
    <3>1. Clear(NS)
      BY <1>3, <2>2 DEF Clear
    <3> QED BY <1>3, <1>6, <3>1, AsideOwn
  <2>4. Same(disk, disk', filepath(n)) /\ Same(disk, disk', metapath(n))
    <3>1. filepath(n) \in FilesOf(Own(NS)) /\ metapath(n) \in FilesOf(Own(NS))
      BY <2>2 DEF FilesOf
    <3> QED BY <2>3, <3>1, StepFrame
  <2>5. op[NS].do = "create" => \A j \in DOMAIN todo[NS] : todo[NS][j].do # "rename"
    BY <2>1 DEF IInv, Confined, Planned, Range
  <2>6. op[NS].do = "create" => Ends(disk', todo[NS], metapath(n), q) /\ Ends(disk', todo[NS], filepath(n), Empty)
    BY <1>4, <2>4, <2>5, EndsFrame
  <2>7. op[NS].do = "delete" => Removed(disk', todo[NS], filepath(n)) /\ Removed(disk', todo[NS], metapath(n))
    BY <1>4, <2>4, RemovedFrame
  <2> QED BY <1>1, <1>6, <2>1, <2>6, <2>7 DEF q
<1> QED BY <1>5, <1>6

\* A rename comes nearer to its end.
LEMMA RenameNext ==
    ASSUME NamesApart, IInv, Step(NS), op[NS].do = "rename", todo'[NS] = Tail(todo[NS]),
           NEW a, NEW k, RenameAt(a, k)
    PROVE  /\ k \in 0..5 /\ Len(todo[NS]) = 6 - k /\ Len(todo'[NS]) = 5 - k
           /\ Head(todo[NS]).do = "memory" <=> k = 3
           /\ k = 3 => Head(todo[NS]).record.filename = op[NS].to
<1> DEFINE b == op[NS].to
           q == [rec[on[NS]] EXCEPT !.filename = b]
<1>1. k \in 0..5 /\ RenameStep(Head(todo[NS]), a, b, q, k)
  BY RenameHead
<1>2. a \in Names /\ b \in Names /\ q \in Sidecar /\ todo[NS] = RenameRest(a, b, q, k) /\ q.filename = b
      /\ Len(todo[NS]) = 6 - k
  BY DEF RenameAt
<1> HIDE DEF b, q
<1>3. RenameShrinks(a, b, q, k)
  BY <1>1, <1>2, RenameShorter
<1>4. Len(todo'[NS]) = 5 - k
  BY <1>2, <1>3 DEF RenameShrinks
<1>5. k = 3 => Head(todo[NS]).record = q
  BY <1>1 DEF RenameStep, Memory
<1>6. Head(todo[NS]).do = "memory" <=> k = 3
  BY <1>1 DEF RenameStep
<1> QED BY <1>1, <1>2, <1>4, <1>5, <1>6 DEF b

LEMMA StepRename ==
    ASSUME NamesApart, IInv, NEW A, PInvOf(A), NEW t \in A, Step(t), todo'[t] = Tail(todo[t])
    PROVE  RenameKept(A)'
<1>1. /\ t \in Threads /\ A \subseteq Threads /\ Working(t) /\ ok[t]
      /\ UNCHANGED <<files, op, on, now, docs, touch, lost>>
      /\ \A u \in Threads : u # t => todo'[u] = todo[u]
      /\ \A r \in Recs : rec'[r] # rec[r] =>
            r = on[t] /\ r \in files /\ Locking(t) /\ rec[r].filename \in Own(t)
            /\ rec'[r].filename \in Own(t)
  BY StepMemory
<1>2. todo[t] \in Seq(Change) /\ todo[t] # <<>> /\ disk' = AfterChange(Head(todo[t]))
  BY <1>1, StepFacts
<1>3. SUFFICES ASSUME NS \in A, op[NS].do = "rename", NEW a \in touch[NS], a # op[NS].to
      PROVE  /\ Known(a)'
             /\ Clear(NS) => Removed(disk', todo'[NS], filepath(a)) /\ Removed(disk', todo'[NS], metapath(a))
             /\ Len(todo'[NS]) <= 2 => \A s \in files : rec'[s].filename = a => a \in lost
  BY <1>1 DEF RenameKept, NsAt, Clear
<1>4. /\ Known(a)
      /\ Clear(NS) => Removed(disk, todo[NS], filepath(a)) /\ Removed(disk, todo[NS], metapath(a))
      /\ Len(todo[NS]) <= 2 => \A s \in files : rec[s].filename = a => a \in lost
  BY <1>3 DEF PInvOf, RenameKept, NsAt
<1>5. Known(a)'
  BY <1>1, <1>4 DEF Known
<1>6. Working(NS) /\ NS \in Threads /\ ok[NS] /\ files \subseteq Recs
  BY <1>3 DEF PInvOf, Begun, IInv, Types
<1>7. PICK c, k : RenameAt(c, k)
  BY <1>3, <1>6, Renames
<1>8. c = a /\ a \in Names /\ a \in Own(NS)
  BY <1>3, <1>7 DEF RenameAt
<1>9. CASE t = NS
  <2>1. Clear(NS) => Removed(disk', todo'[NS], filepath(a)) /\ Removed(disk', todo'[NS], metapath(a))
    BY <1>2, <1>4, <1>9, RemovedStep
  <2>2. ASSUME Len(todo'[NS]) <= 2, NEW s \in files, rec'[s].filename = a PROVE a \in lost
    <3>1. /\ k \in 0..5 /\ Len(todo[NS]) = 6 - k /\ Len(todo'[NS]) = 5 - k
          /\ Head(todo[NS]).do = "memory" <=> k = 3
          /\ k = 3 => Head(todo[NS]).record.filename = op[NS].to
      BY <1>3, <1>7, <1>9, RenameNext
    <3>2. k >= 3
      BY <2>2, <3>1
    <3>3. on[NS] \in files /\ rec[on[NS]].filename = IF k >= 4 THEN op[NS].to ELSE a
      BY <1>7, <1>8 DEF RenameAt
    <3>4. CASE k = 3
      <4>1. rec'[on[NS]] = Head(todo[NS]).record
        BY <1>3, <1>9, <3>1, <3>3, <3>4, StepMemory
      <4>2. s # on[NS]
        BY <1>3, <2>2, <3>1, <3>4, <4>1
      <4>3. rec[s].filename = a
        BY <1>1, <1>6, <1>9, <2>2, <4>2
      <4>4. ~Good(a)
        BY <3>3, <3>4, <4>2, <4>3 DEF IInv, Unique
      <4> QED BY <1>8, <4>4 DEF Good
    <3>5. CASE k >= 4
      <4>1. Head(todo[NS]).do # "memory" /\ Len(todo[NS]) <= 2
        BY <3>1, <3>5
      <4>2. rec'[s] = rec[s]
        BY <1>6, <1>9, <4>1, StepMemory
      <4> QED BY <1>4, <2>2, <4>1, <4>2
    <3> QED BY <3>1, <3>2, <3>4, <3>5
  <2> QED BY <1>5, <2>1, <2>2
<1>10. CASE t # NS
  <2>1. todo'[NS] = todo[NS]
    BY <1>1, <1>6, <1>10
  <2>2. ASSUME Clear(NS) PROVE Removed(disk', todo'[NS], filepath(a)) /\ Removed(disk', todo'[NS], metapath(a))
    <3>1. Aside(A, Own(NS), t)
      BY <1>3, <1>10, <2>2, AsideOwn
    <3>2. filepath(a) \in FilesOf(Own(NS)) /\ metapath(a) \in FilesOf(Own(NS))
      BY <1>8 DEF FilesOf
    <3>3. Same(disk, disk', filepath(a)) /\ Same(disk, disk', metapath(a))
      BY <3>1, <3>2, StepFrame
    <3> QED BY <1>4, <2>1, <2>2, <3>3, RemovedFrame
  <2>3. \A s \in files : rec'[s].filename = rec[s].filename
    <3> SUFFICES ASSUME NEW s \in files, rec'[s] # rec[s] PROVE rec'[s].filename = rec[s].filename
      OBVIOUS
    <3>1. s = on[t] /\ Locking(t) /\ rec[s].filename \in Own(t) /\ rec'[s].filename \in Own(t)
      BY <1>1, <1>6
    <3>2. op[t].do # "rename"
      BY <1>1, <1>10, Kinds
    <3>3. Own(t) = {rec[s].filename}
      BY <1>1, <3>1, <3>2 DEF IInv, Records, RecordOf
    <3> QED BY <3>1, <3>3
  <2> QED BY <1>4, <1>5, <2>1, <2>2, <2>3
<1> QED BY <1>9, <1>10

LEMMA StepCopy ==
    ASSUME NamesApart, IInv, NEW A, PInvOf(A), NEW t \in A, Step(t), todo'[t] = Tail(todo[t])
    PROVE  CopyKept(A)'
<1>1. /\ t \in Threads /\ A \subseteq Threads /\ Working(t) /\ ok[t]
      /\ UNCHANGED <<files, op, on, now, docs, touch, lost>>
      /\ \A u \in Threads : u # t => todo'[u] = todo[u]
      /\ \A e \in Range(todo'[t]) : e \in Range(todo[t])
  BY StepMemory
<1>2. todo[t] \in Seq(Change) /\ todo[t] # <<>> /\ Head(todo[t]) \in Change /\ Head(todo[t]) \in Range(todo[t])
      /\ disk' = AfterChange(Head(todo[t]))
  BY <1>1, StepFacts
<1>3. \A u \in A : ~Copier(u) => \A e \in Range(todo[u]), n \in Names : Leaves(e, temp_path(n))
  BY DEF PInvOf, CopyKept
<1>4. \A u \in A : ~Copier(u)' => \A e \in Range(todo'[u]), n \in Names : Leaves(e, temp_path(n))
  BY <1>1, <1>3 DEF Copier
<1>5. ASSUME NS \in A, Copier(NS)
      PROVE  /\ Sure(disk', todo'[NS])
             /\ \A n \in Own(NS) : Removed(disk', todo'[NS], temp_path(n))
  <2>1. Sure(disk, todo[NS]) /\ \A n \in Own(NS) : Removed(disk, todo[NS], temp_path(n))
    BY <1>5 DEF PInvOf, CopyKept
  <2>2. CASE t = NS
    <3>1. Sure(disk', todo'[NS])
      BY <1>2, <2>1, <2>2, SureStep
    <3>2. \A n \in Own(NS) : Removed(disk', todo'[NS], temp_path(n))
      BY <1>2, <2>1, <2>2, RemovedStep
    <3> QED BY <3>1, <3>2
  <2>3. CASE t # NS
    <3>1. ~Copier(t) /\ todo'[NS] = todo[NS]
      BY <1>1, <1>5, <2>3, Kinds
    <3>2. \A n \in Names : Same(disk, disk', temp_path(n))
      BY <1>2, <1>3, <3>1, Untouched DEF Same
    <3>3. \A n \in Own(NS) : Removed(disk', todo[NS], temp_path(n))
      BY <2>1, <3>2, RemovedFrame DEF Own
    <3>4. Sure(disk', todo[NS])
      <4>1. Working(NS) /\ ok[NS] /\ NS \in Threads /\ op[NS].do # "rename"
        BY <1>5 DEF PInvOf, Begun, Copier
      <4>2. ASSUME NEW j \in DOMAIN todo[NS], todo[NS][j].do = "rename"
            PROVE  Same(disk, disk', todo[NS][j].path)
        <5>1. PICK n \in Own(NS) : todo[NS][j] = Rename(temp_path(n), filepath(n), TRUE)
          BY <4>1, <4>2, Sources
        <5>2. todo[NS][j].path = temp_path(n) /\ n \in Names
          BY <5>1 DEF Rename, Own
        <5> QED BY <3>2, <5>2
      <4> QED BY <2>1, <4>2, SureFrame
    <3> QED BY <3>1, <3>3, <3>4
  <2> QED BY <2>2, <2>3
<1>6. Own(NS)' = Own(NS) /\ (Copier(NS)' <=> Copier(NS))
  BY <1>1 DEF Own, Copier
<1> QED BY <1>4, <1>5, <1>6 DEF CopyKept

\* What the checkpoint files are known by does not grow.
LEMMA StepRefs ==
    ASSUME NamesApart, IInv, NEW A, PInvOf(A), NEW t \in A, Step(t),
           NEW m, NEW p, Ref(A, m, p)', m \in Names
    PROVE  Ref(A, m, p)
<1>1. /\ t \in Threads /\ A \subseteq Threads
      /\ UNCHANGED <<files, op, on, now, docs, touch, lost>>
      /\ \A u \in Threads : u # t => todo'[u] = todo[u]
      /\ \A e \in Range(todo'[t]) : e \in Range(todo[t])
      /\ \A r \in Recs : rec'[r] # rec[r] =>
            rec'[r].filename \in Own(t) /\ \A y \in PathsOf(rec'[r]) : Pending(t, y)
  BY StepMemory
<1>0. files \subseteq Recs
  BY DEF IInv, Types
<1>2. CASE \E r \in files' : rec'[r].filename = m /\ p \in PathsOf(rec'[r])
  <2>1. PICK r \in files : rec'[r].filename = m /\ p \in PathsOf(rec'[r])
    BY <1>1, <1>2
  <2>2. CASE rec'[r] = rec[r]
    BY <2>1, <2>2 DEF Ref
  <2>3. CASE rec'[r] # rec[r]
    BY <1>0, <1>1, <2>1, <2>3 DEF Ref, Own
  <2> QED BY <2>2, <2>3
<1>3. CASE \E x \in DOMAIN disk' :
              IsMeta(x) /\ disk'[x] # Empty /\ disk'[x].filename = m /\ p \in PathsOf(disk'[x])
  <2>1. PICK x \in DOMAIN disk' :
              IsMeta(x) /\ disk'[x] # Empty /\ disk'[x].filename = m /\ p \in PathsOf(disk'[x])
    BY <1>3
  <2>2. /\ Head(todo[t]) \in Change /\ disk' = AfterChange(Head(todo[t]))
        /\ Within(Head(todo[t]), Own(t), {y \in CkptPath : Pending(t, y)})
    BY <1>1, StepFacts, NextChange
  <2>3. \/ \E y \in DOMAIN disk : IsMeta(y) /\ disk[y] = disk'[x]
        \/ disk'[x].filename \in Own(t) /\ PathsOf(disk'[x]) \subseteq {y \in CkptPath : Pending(t, y)}
    BY <2>1, <2>2, MetaStep
  <2> QED BY <2>1, <2>3 DEF Ref, Own
<1>4. CASE \E u \in A : m \in touch'[u] /\ Pending(u, p)'
  <2>1. PICK u \in A : m \in touch'[u] /\ Pending(u, p)'
    BY <1>4
  <2>2. \A e \in Range(todo'[u]) : e \in Range(todo[u])
    BY <1>1
  <2>3. Pending(u, p)
    BY <2>1, <2>2 DEF Pending
  <2> QED BY <1>1, <2>1, <2>3 DEF Ref
<1> QED BY <1>2, <1>3, <1>4 DEF Ref

LEMMA StepLists ==
    ASSUME NamesApart, IInv, NEW A, PInvOf(A), NEW t \in A, Step(t), todo'[t] = Tail(todo[t])
    PROVE  RecListed(A)' /\ SideListed(A)' /\ FileListed(A)'
<1>1. /\ t \in Threads /\ A \subseteq Threads /\ Working(t) /\ ok[t]
      /\ UNCHANGED <<files, op, on, now, docs, touch, lost>>
      /\ \A u \in Threads : u # t => todo'[u] = todo[u]
      /\ \A r \in Recs : rec'[r] # rec[r] =>
            /\ r = on[t] /\ r \in files /\ Locking(t) /\ rec[r].filename \in Own(t)
            /\ Head(todo[t]).do = "memory" /\ rec'[r] = Head(todo[t]).record
            /\ rec'[r].filename \in Own(t)
      /\ files \subseteq Recs
  BY StepMemory DEF IInv, Types
<1>2. /\ Head(todo[t]) \in Change /\ Head(todo[t]) \in Range(todo[t]) /\ disk' = AfterChange(Head(todo[t]))
      /\ todo[t] # <<>> /\ todo[t] \in Seq(Change)
      /\ Within(Head(todo[t]), Own(t), {y \in CkptPath : Pending(t, y)})
  BY <1>1, StepFacts, NextChange
<1>3. \A m : Known(m)' <=> Known(m)
  BY <1>1 DEF Known
<1>4. ASSUME NEW r \in files PROVE Known(rec'[r].filename) \/ Renamed(A, r)'
  <2>1. Known(rec[r].filename) \/ Renamed(A, r)
    BY DEF PInvOf, RecListed
  <2>2. CASE rec'[r] = rec[r]
    <3>1. Len(todo[NS]) <= 2 => Len(todo'[NS]) <= 2
      <4>1. CASE t = NS
        <5>1. Len(Tail(todo[t])) = Len(todo[t]) - 1 /\ Len(todo[t]) \in Nat
          BY <1>2, HeadTailProperties
        <5>2. Len(todo'[NS]) = Len(todo[NS]) - 1 /\ Len(todo[NS]) \in Nat
          BY <4>1, <5>1
        <5> QED BY <5>2
      <4>2. CASE t # NS
        BY <1>1, <4>2 DEF Threads
      <4> QED BY <4>1, <4>2
    <3> QED BY <1>1, <2>1, <2>2, <3>1 DEF Renamed, NsAt
  <2>3. CASE rec'[r] # rec[r]
    <3>1. /\ r = on[t] /\ Locking(t) /\ rec[r].filename \in Own(t) /\ rec'[r].filename \in Own(t)
          /\ Head(todo[t]).do = "memory" /\ rec'[r] = Head(todo[t]).record
      BY <1>1, <2>3
    <3>2. CASE op[t].do # "rename"
      <4>1. rec'[r].filename = rec[r].filename
        BY <1>1, <3>1, <3>2 DEF IInv, Records, RecordOf
      <4>2. ~Renamed(A, r)
        <5> SUFFICES ASSUME Renamed(A, r) PROVE FALSE
          OBVIOUS
        <5>1. NS \in A /\ op[NS].do = "rename" /\ on[NS] = r
          BY DEF Renamed, NsAt
        <5>2. Working(NS) /\ NS \in Threads
          BY <5>1 DEF PInvOf, Begun
        <5>3. Locking(NS)
          BY <5>1, <5>2, Kinds
        <5>4. file_lock[r] = NS /\ file_lock[r] = t
          BY <1>1, <3>1, <5>1, <5>2, <5>3 DEF IInv, Handlers, Handler
        <5> QED BY <3>2, <5>1, <5>4
      <4> QED BY <2>1, <4>1, <4>2
    <3>3. CASE op[t].do = "rename"
      <4>1. t = NS
        BY <1>1, <3>3, Kinds
      <4>2. PICK a, k : RenameAt(a, k)
        BY <1>1, <3>3, <4>1, Renames
      <4>3. /\ Len(todo'[NS]) = 5 - k /\ k = 3
            /\ Head(todo[NS]).record.filename = op[NS].to
        BY <3>1, <3>3, <4>1, <4>2, RenameNext
      <4>4. NsAt(A, "rename")' /\ Len(todo'[NS]) <= 2 /\ on'[NS] = r /\ rec'[r].filename = op'[NS].to
        BY <1>1, <3>1, <3>3, <4>1, <4>3 DEF NsAt
      <4> QED BY <4>4 DEF Renamed
    <3> QED BY <3>2, <3>3
  <2> QED BY <2>2, <2>3
<1>5. RecListed(A)'
  BY <1>1, <1>3, <1>4 DEF RecListed
<1>6. SideListed(A)'
  <2>1. ASSUME NEW p \in DOMAIN disk', IsMeta(p), disk'[p] # Empty
        PROVE  Known(disk'[p].filename) \/ \E u \in A : disk'[p].filename \in Own(u)
    <3>1. \/ \E x \in DOMAIN disk : IsMeta(x) /\ disk[x] = disk'[p]
          \/ disk'[p].filename \in Own(t)
      BY <1>2, <2>1, MetaStep
    <3> QED BY <2>1, <3>1 DEF PInvOf, SideListed
  <2> QED BY <1>1, <2>1 DEF SideListed, Known, Own
<1>7. FileListed(A)'
  <2> SUFFICES ASSUME NEW p \in DOMAIN disk', p[Len(p)] \notin {".meta", ".undo"}, ".ckpt_" \notin Range(p)
               PROVE  \/ \E n \in DOMAIN docs \cup lost : filepath(n) = p
                      \/ \E u \in A : \E n \in touch[u] : filepath(n) = p
    BY <1>1 DEF FileListed, Loaded
  <2>1. CASE p \in DOMAIN disk
    BY <2>1 DEF PInvOf, FileListed, Loaded
  <2>2. CASE p \notin DOMAIN disk
    <3>1. ~Leaves(Head(todo[t]), p)
      BY <1>2, <2>2, Untouched
    <3>2. p \in FilesOf(Own(t)) \cup CkptPath
      BY <1>2, <3>1 DEF Within
    <3>3. PICK k \in Own(t) : p \in {filepath(k), metapath(k), undopath(k), temp_path(k)}
      BY <3>2 DEF CkptPath, FilesOf
    <3>4. k \in Names /\ k \in touch[t]
      BY DEF Own
    <3>5. p # metapath(k) /\ p # undopath(k)
      BY <3>4, Paths, TempFlat DEF IsMeta
    <3>6. CASE p = filepath(k)
      BY <3>4, <3>6
    <3>7. CASE p = temp_path(k)
      <4>1. Copier(t)
        BY <1>2, <3>1, <3>4, <3>7 DEF PInvOf, CopyKept
      <4>2. temp_path(k) \in touch[t]
        BY <4>1 DEF PInvOf, Owned
      <4> QED BY <3>4, <3>7, <4>2, TempFlat
    <3> QED BY <3>3, <3>5, <3>6, <3>7
  <2> QED BY <2>1, <2>2
<1> QED BY <1>5, <1>6, <1>7

\* A handler that has begun makes its next change.
LEMMA BegunStep ==
    ASSUME NamesApart, IInv, NEW A, PInvOf(A), NEW t \in A, Step(t), todo'[t] = Tail(todo[t]), ok' = ok
    PROVE  PInvOf(A)'
<1>1. /\ t \in Threads /\ A \subseteq Threads
      /\ UNCHANGED <<files, op, on, now, docs, touch, lost>>
      /\ \A u \in Threads : u # t => todo'[u] = todo[u]
  BY StepMemory
<1>2. Begun(A)'
  <2>1. \A u \in Threads : Active(u)' => u \in A
    <3> SUFFICES ASSUME NEW u \in Threads, Active(u)', u # t PROVE Active(u)
      BY DEF PInvOf, Begun
    <3> QED BY <1>1 DEF Active, Working
  <2> QED BY <1>1, <2>1 DEF PInvOf, Begun, Working
<1>3. Touched' /\ Owned(A)'
  <2>1. \A u : Own(u)' = Own(u) /\ (Copier(u)' <=> Copier(u))
    BY <1>1 DEF Own, Copier
  <2> QED BY <1>1, <2>1 DEF PInvOf, Touched, Owned
<1>4. CkptsApart(A)' /\ CkptsDated(A)'
  <2>1. \A m, k : /\ Clean(A, m)' <=> Clean(A, m)
                  /\ Together(A, m, k)' <=> Together(A, m, k)
    BY <1>1 DEF Clean, Together, Clear
  <2>2. \A p : Dated(p)' <=> Dated(p)
    BY <1>1 DEF Dated
  <2>3. \A m \in Names : \A p : Ref(A, m, p)' => Ref(A, m, p)
    BY StepRefs
  <2> QED BY <2>1, <2>2, <2>3 DEF PInvOf, CkptsApart, CkptsDated
<1> QED BY <1>2, <1>3, <1>4, StepDocs, StepCreate, StepRename, StepCopy, StepLists DEF PInvOf

\* The handlers that have begun are those in A again.
LEMMA Renewed ==
    ASSUME NEW A, PInvOf(A)', Actives' = A
    PROVE  PInv'
<1>1. Begun(A)' /\ DocsKept(A)' /\ CreateKept(A)' /\ DeleteKept(A)' /\ RenameKept(A)' /\ CopyKept(A)'
      /\ RecListed(A)' /\ SideListed(A)' /\ FileListed(A)' /\ Touched' /\ Owned(A)'
      /\ CkptsApart(A)' /\ CkptsDated(A)'
  BY DEF PInvOf
<1>2. Begun(Actives)'
  BY <1>1 DEF Begun
<1>3. DocsKept(Actives)'
  BY <1>1 DEF DocsKept
<1>4. CreateKept(Actives)' /\ DeleteKept(Actives)' /\ RenameKept(Actives)'
  BY <1>1 DEF CreateKept, DeleteKept, RenameKept, NsAt
<1>5. CopyKept(Actives)' /\ Owned(Actives)'
  BY <1>1 DEF CopyKept, Owned
<1>6. RecListed(Actives)'
  BY <1>1 DEF RecListed, Renamed, NsAt
<1>7. SideListed(Actives)' /\ FileListed(Actives)'
  BY <1>1 DEF SideListed, FileListed
<1>8. CkptsApart(Actives)' /\ CkptsDated(Actives)'
  BY <1>1 DEF CkptsApart, CkptsDated, Clean, Together, Ref
<1> QED BY <1>1, <1>2, <1>3, <1>4, <1>5, <1>6, <1>7, <1>8 DEF PInv, PInvOf

-----------------------------------------------------------------------------
(* A handler that begins *)

\* The thread u changes nothing of the server but its own state.
LEMMA Grow ==
    ASSUME NamesApart, IInv, NEW A, PInvOf(A), NEW u \in Threads, u \notin A,
           NEW B, B = A \/ B = A \cup {u}, Begun(B)', Touched',
           UNCHANGED <<disk, files, rec, docs>>, lost \subseteq lost',
           \A v \in Threads : v # u =>
              op'[v] = op[v] /\ on'[v] = on[v] /\ todo'[v] = todo[v] /\ touch'[v] = touch[v],
           \A p : Dated(p) => Dated(p)',
           u \in B => Beginning(u)',
           u \in B => \A p : Pending(u, p)' =>
              \A m \in Own(u)' : Ref(A, m, p) \/ (~Dated(p) /\ Dated(p)')
    PROVE  PInvOf(B)'
<1>1. /\ A \subseteq Threads /\ A \subseteq B /\ \A v \in B : v \in A \/ v = u
      /\ \A v \in A : v # u /\ v \in Threads
  BY DEF PInvOf, Begun
<1>2. \A v \in A : /\ Own(v)' = Own(v) /\ (Copier(v)' <=> Copier(v)) /\ (Clear(v)' => Clear(v))
                   /\ op'[v] = op[v] /\ on'[v] = on[v] /\ todo'[v] = todo[v] /\ touch'[v] = touch[v]
  BY <1>1 DEF Own, Copier, Clear
<1>3. NS \in B /\ u # NS => NS \in A
  BY <1>1
<1>4. DocsKept(B)'
  <2>1. ASSUME NEW n \in DOMAIN docs \ lost', \A t \in B : n \notin touch'[t]
        PROVE  Settled(n)'
    <3>1. n \notin lost /\ \A t \in A : n \notin touch[t]
      BY <1>1, <1>2, <2>1
    <3>2. Settled(n)
      BY <3>1 DEF PInvOf, DocsKept
    <3> QED BY <3>2 DEF Settled
  <2>2. ASSUME NEW n \in DOMAIN docs \ lost', NEW t \in B, n \in touch'[t], Clear(t)', op'[t].do # "delete"
        PROVE  Underway(t, n)'
    <3>1. CASE t = u
      BY <2>2, <3>1 DEF Beginning
    <3>2. CASE t \in A
      <4>1. n \notin lost /\ n \in touch[t] /\ Clear(t) /\ op[t].do # "delete"
        BY <1>2, <2>2, <3>2
      <4>2. Underway(t, n)
        BY <3>2, <4>1 DEF PInvOf, DocsKept
      <4> QED BY <1>2, <3>2, <4>2 DEF Underway, Drafts, Final, NewName
    <3> QED BY <1>1, <3>1, <3>2
  <2> QED BY <2>1, <2>2 DEF DocsKept
<1>5. CreateKept(B)' /\ DeleteKept(B)'
  <2>1. CASE u = NS /\ u \in B
    BY <2>1 DEF Beginning, CreateKept, DeleteKept, NsAt
  <2>2. CASE ~(u = NS /\ u \in B)
    <3>1. NS \in B => NS \in A /\ op'[NS] = op[NS] /\ todo'[NS] = todo[NS]
      BY <1>1, <1>2, <2>2
    <3> QED BY <3>1 DEF PInvOf, CreateKept, DeleteKept, NsAt
  <2> QED BY <2>1, <2>2
<1>6. RenameKept(B)'
  <2>1. NsAt(B, "rename")' => NsAt(A, "rename")
    BY <1>1, <1>2 DEF Beginning, NsAt
  <2>2. NS \in A => op'[NS] = op[NS] /\ todo'[NS] = todo[NS] /\ touch'[NS] = touch[NS] /\ (Clear(NS)' => Clear(NS))
    BY <1>2
  <2>3. \A m : Known(m) => Known(m)'
    BY DEF Known
  <2> QED BY <2>1, <2>2, <2>3 DEF PInvOf, RenameKept, NsAt
<1>7. CopyKept(B)'
  <2>1. \A v \in B : ~Copier(v)' => \A e \in Range(todo'[v]), n \in Names : Leaves(e, temp_path(n))
    <3>1. \A v \in A : ~Copier(v)' => \A e \in Range(todo'[v]), n \in Names : Leaves(e, temp_path(n))
      BY <1>2 DEF PInvOf, CopyKept
    <3> QED BY <1>1, <3>1 DEF Beginning
  <2>2. NS \in B /\ Copier(NS)' =>
          /\ Sure(disk', todo'[NS])
          /\ \A n \in Own(NS)' : Removed(disk', todo'[NS], temp_path(n))
    <3>1. CASE u = NS
      BY <3>1 DEF Beginning
    <3>2. CASE u # NS
      BY <1>2, <1>3, <3>2 DEF PInvOf, CopyKept
    <3> QED BY <3>1, <3>2
  <2> QED BY <2>1, <2>2 DEF CopyKept
<1>8. RecListed(B)' /\ SideListed(B)' /\ FileListed(B)'
  <2>1. \A r : Renamed(A, r) => Renamed(B, r)'
    BY <1>1, <1>2 DEF Renamed, NsAt
  <2>2. RecListed(B)'
    BY <2>1 DEF PInvOf, RecListed, Known
  <2>3. SideListed(B)'
    BY <1>1, <1>2 DEF PInvOf, SideListed, Known, Own
  <2>4. FileListed(B)'
    BY <1>1, <1>2 DEF PInvOf, FileListed, Loaded
  <2> QED BY <2>2, <2>3, <2>4
<1>9. Owned(B)'
  BY <1>1, <1>2 DEF PInvOf, Owned, Beginning
<1>10. \A m, p : Ref(B, m, p)' => Ref(A, m, p) \/ (u \in B /\ m \in touch'[u] /\ Pending(u, p)')
  BY <1>1, <1>2 DEF Ref, Pending
<1>11. \A m \in Names : \A p : Ref(B, m, p)' =>
          Ref(A, m, p) \/ (~Dated(p) /\ Dated(p)' /\ u \in B /\ m \in Own(u)')
  BY <1>10 DEF Own
<1>12. CkptsDated(B)'
  BY <1>11 DEF PInvOf, CkptsDated
<1>13. CkptsApart(B)'
  <2> SUFFICES ASSUME NEW m \in Names, NEW k \in Names, m # k, Clean(B, m)', ~Together(B, m, k)',
                      NEW p, Ref(B, m, p)', Ref(B, k, p)'
               PROVE  FALSE
    BY DEF CkptsApart
  <2>1. Clean(A, m) /\ ~Together(A, m, k)
    BY <1>1, <1>2 DEF Clean, Together
  <2>2. ~(Ref(A, m, p) /\ Ref(A, k, p))
    BY <2>1 DEF PInvOf, CkptsApart
  <2>3. ~Dated(p) => ~Ref(A, m, p) /\ ~Ref(A, k, p)
    BY DEF PInvOf, CkptsDated
  <2>4. u \in B => \A x, y \in Own(u)' : x = y
    BY DEF Beginning
  <2> QED BY <1>11, <2>2, <2>3, <2>4
<1> QED BY <1>4, <1>5, <1>6, <1>7, <1>8, <1>9, <1>12, <1>13 DEF PInvOf

\* A thread that has begun nothing, nor does it now.
LEMMA Unbegun ==
    ASSUME NamesApart, IInv, PInv, NEW u \in Threads, ~Active(u), ~Active(u)', Touched',
           UNCHANGED <<disk, files, rec, docs>>, lost \subseteq lost',
           \A v \in Threads : v # u =>
              op'[v] = op[v] /\ on'[v] = on[v] /\ todo'[v] = todo[v] /\ touch'[v] = touch[v] /\ ok'[v] = ok[v],
           \A p : Dated(p) => Dated(p)'
    PROVE  PInv'
<1> SUFFICES ASSUME NEW A, A = Actives PROVE PInv'
  OBVIOUS
<1>1. PInvOf(A)
  BY DEF PInv
<1>2. \A v \in Threads : v # u => (Active(v)' <=> Active(v)) /\ (Working(v)' <=> Working(v))
  BY DEF Active, Working
<1>3. Actives' = A /\ u \notin A
  BY <1>2 DEF Actives
<1>4. Begun(A)'
  BY <1>2, <1>3 DEF Begun, Actives, Active
<1>5. PInvOf(A)'
  BY <1>1, <1>3, <1>4, Grow
<1> QED BY <1>3, <1>5, Renewed

LEMMA Begins ==
    ASSUME NamesApart, IInv, PInv, NEW u \in Threads, ~Active(u), Active(u)', Touched',
           UNCHANGED <<disk, files, rec, docs>>, lost \subseteq lost',
           \A v \in Threads : v # u =>
              op'[v] = op[v] /\ on'[v] = on[v] /\ todo'[v] = todo[v] /\ touch'[v] = touch[v] /\ ok'[v] = ok[v],
           \A p : Dated(p) => Dated(p)',
           Beginning(u)',
           \A p : Pending(u, p)' =>
              \A m \in Own(u)' : (\A B : Ref(B, m, p)) \/ (~Dated(p) /\ Dated(p)')
    PROVE  PInv'
<1> SUFFICES ASSUME NEW A, A = Actives PROVE PInv'
  OBVIOUS
<1> DEFINE B == A \cup {u}
<1>1. PInvOf(A)
  BY DEF PInv
<1>2. \A v \in Threads : v # u => (Active(v)' <=> Active(v)) /\ (Working(v)' <=> Working(v))
  BY DEF Active, Working
<1>3. Actives' = B /\ u \notin A
  BY <1>2 DEF Actives
<1>4. Begun(B)'
  BY <1>2, <1>3 DEF Begun, Actives, Active
<1>5. PInvOf(B)'
  <2>1. B = A \cup {u}
    OBVIOUS
  <2> HIDE DEF B
  <2> QED BY <1>1, <1>3, <1>4, <2>1, Grow
<1> QED BY <1>3, <1>5, Renewed

-----------------------------------------------------------------------------
(* Requests that begin *)

LEMMA DatedStays == ASSUME IInv, now' = now \/ now' = now + 1 PROVE \A p : Dated(p) => Dated(p)'
<1>1. now \in Nat
  BY DEF IInv, Types
<1>2. \A i \in 1..now : i \in 1..now'
  BY <1>1
<1> QED BY <1>2 DEF Dated

LEMMA FindBegins ==
    ASSUME NamesApart, IInv, PInv, NEW t \in Threads, NEW n \in Names, NEW o, Find(t, n, o)
    PROVE  PInv'
<1>1. /\ op[t] = NoOp /\ UNCHANGED <<disk, files, rec, todo, ok, now, docs, touch>>
      /\ lost \subseteq lost' /\ lost' \subseteq lost \cup {n}
  BY DEF Find, Begin, Idle
<1>2. touch[t] = {}
  BY <1>1 DEF IInv, Handlers, Handler, Busy
<1>3. \A v \in Threads : v # t => op'[v] = op[v] /\ on'[v] = on[v]
  <2>1. op' = [op EXCEPT ![t] = o] /\ \E r : on' = [on EXCEPT ![t] = r]
    BY DEF Find
  <2> QED BY <2>1 DEF IInv, Types
<1>4. ~Active(t) /\ ~Active(t)'
  BY <1>1, <1>2 DEF Active, Working
<1>5. Touched'
  BY <1>1 DEF PInv, PInvOf, Touched
<1>6. \A p : Dated(p) => Dated(p)'
  BY <1>1, DatedStays
<1> QED BY <1>1, <1>3, <1>4, <1>5, <1>6, Unbegun

LEMMA CreateBegins ==
    ASSUME NamesApart, IInv, PInv, NEW n \in Names, NEW owner \in Owners, Create(n, owner)
    PROVE  PInv'
<1> DEFINE o == [do |-> "create", filename |-> n, owner |-> owner]
           s == ss_create_file(n, owner)
<1>1. /\ ~Busy(NS) /\ n \notin DOMAIN docs
      /\ op' = [op EXCEPT ![NS] = o] /\ \E r : on' = [on EXCEPT ![NS] = r]
      /\ todo' = [todo EXCEPT ![NS] = s] /\ ok' = [ok EXCEPT ![NS] = TRUE]
      /\ touch' = [touch EXCEPT ![NS] = {n}]
      /\ UNCHANGED <<disk, files, rec, now, docs, lost>>
  BY DEF Create, Begin, Idle, Busy
<1>2. o.do = "create" /\ o.filename = n /\ o.owner = owner
  OBVIOUS
<1>3. /\ Ends(disk, s, metapath(n), NewRecord(n, owner)) /\ Ends(disk, s, filepath(n), Empty)
      /\ Modest(s, {}, TRUE)
  BY CreatePlan
<1> HIDE DEF o, s
<1>4. NS \in Threads /\ touch[NS] = {}
  BY <1>1 DEF IInv, Handlers, Handler, Threads
<1>5. /\ op'[NS] = o /\ todo'[NS] = s /\ ok'[NS] = TRUE /\ touch'[NS] = {n}
      /\ \A v \in Threads : v # NS =>
          op'[v] = op[v] /\ on'[v] = on[v] /\ todo'[v] = todo[v] /\ touch'[v] = touch[v] /\ ok'[v] = ok[v]
  BY <1>1, <1>4 DEF IInv, Types
<1>6. ~Active(NS) /\ Active(NS)'
  BY <1>2, <1>4, <1>5 DEF Active, Working
<1>7. Touched'
  BY <1>1, <1>5 DEF PInv, PInvOf, Touched
<1>8. \A p : Dated(p) => Dated(p)'
  BY <1>1, DatedStays
<1>9. Own(NS)' = {n} /\ (Copier(NS)' <=> FALSE)
  BY <1>2, <1>5 DEF Own, Copier
<1>10. Beginning(NS)'
  <2>1. Owned({NS})'
    BY <1>5, <1>9 DEF Owned
  <2>2. CreateKept({NS})' /\ DeleteKept({NS})'
    BY <1>1, <1>2, <1>3, <1>5 DEF CreateKept, DeleteKept, NsAt
  <2>3. \A e \in Range(s), k \in Names : Leaves(e, temp_path(k))
    BY <1>3 DEF Modest, Fine
  <2> QED BY <1>1, <1>2, <1>5, <1>9, <2>1, <2>2, <2>3 DEF Beginning
<1>11. \A p : ~Pending(NS, p)'
  BY <1>3, <1>5 DEF Pending, Modest, Fine
<1> QED BY <1>1, <1>4, <1>5, <1>6, <1>7, <1>8, <1>10, <1>11, Begins

LEMMA DeleteBegins ==
    ASSUME NamesApart, IInv, PInv, NEW n \in Names, Delete(n)
    PROVE  PInv'
<1>1. PICK r \in ss_find_file(n) :
        LET others == {t \in Threads : on[t] = r}
            names == {n} \cup UNION {touch[t] : t \in others}
        IN  /\ on' = [on EXCEPT ![NS] = r]
            /\ todo' = [todo EXCEPT ![NS] = ss_delete_file(rec[r])]
            /\ lost' = IF others = {} THEN lost ELSE lost \cup names
  BY DEF Delete
<1> DEFINE o == [do |-> "delete", filename |-> n]
           s == ss_delete_file(rec[r])
<1>2. /\ ~Busy(NS)
      /\ op' = [op EXCEPT ![NS] = o] /\ on' = [on EXCEPT ![NS] = r]
      /\ todo' = [todo EXCEPT ![NS] = s] /\ ok' = [ok EXCEPT ![NS] = TRUE]
      /\ touch' = [touch EXCEPT ![NS] = {n}]
      /\ UNCHANGED <<disk, files, rec, now, docs>>
  BY <1>1 DEF Delete, Begin, Idle, Busy
<1>3. r \in files /\ rec[r].filename = n /\ rec[r] \in FileRecord
  BY DEF ss_find_file, IInv, Types
<1>4. Touched
  BY DEF PInv, PInvOf
<1>5. lost \subseteq lost' /\ lost' \subseteq Names \cup Temps \cup {<<>>}
  BY <1>1, <1>4 DEF Touched
<1>6. o.do = "delete" /\ o.filename = n
  OBVIOUS
<1>7. /\ Removed(disk, s, filepath(n)) /\ Removed(disk, s, metapath(n))
      /\ Modest(s, PathsOf(rec[r]), TRUE)
  BY <1>3, DeletePlan
<1> HIDE DEF o, s
<1>8. NS \in Threads /\ touch[NS] = {}
  BY <1>2 DEF IInv, Handlers, Handler, Threads
<1>9. /\ op'[NS] = o /\ todo'[NS] = s /\ ok'[NS] = TRUE /\ touch'[NS] = {n}
      /\ \A v \in Threads : v # NS =>
          op'[v] = op[v] /\ on'[v] = on[v] /\ todo'[v] = todo[v] /\ touch'[v] = touch[v] /\ ok'[v] = ok[v]
  BY <1>2, <1>8 DEF IInv, Types
<1>10. ~Active(NS) /\ Active(NS)'
  BY <1>6, <1>8, <1>9 DEF Active, Working
<1>11. Touched'
  BY <1>4, <1>5, <1>9 DEF Touched
<1>12. \A p : Dated(p) => Dated(p)'
  BY <1>2, DatedStays
<1>13. Own(NS)' = {n} /\ (Copier(NS)' <=> FALSE)
  BY <1>6, <1>9 DEF Own, Copier
<1>14. Beginning(NS)'
  <2>1. Owned({NS})'
    BY <1>9, <1>13 DEF Owned
  <2>2. CreateKept({NS})' /\ DeleteKept({NS})'
    BY <1>2, <1>6, <1>7, <1>9 DEF CreateKept, DeleteKept, NsAt
  <2>3. \A e \in Range(s), k \in Names : Leaves(e, temp_path(k))
    BY <1>7 DEF Modest, Fine
  <2> QED BY <1>6, <1>9, <1>13, <2>1, <2>2, <2>3 DEF Beginning
<1>15. ASSUME NEW p, Pending(NS, p)', NEW m \in Own(NS)', NEW B PROVE Ref(B, m, p)
  <2>1. p \in PathsOf(rec[r])
    BY <1>7, <1>9, <1>15 DEF Pending, Modest, Fine
  <2> QED BY <1>3, <1>13, <1>15, <2>1 DEF Ref
<1> QED BY <1>2, <1>5, <1>8, <1>9, <1>10, <1>11, <1>12, <1>14, <1>15, Begins

\* Nobody works on a document whose record is free.
LEMMA LockFree ==
    ASSUME NamesApart, IInv, NEW A, PInvOf(A), NEW u \in Threads, Busy(u), ~Working(u),
           on[u] \in files, file_lock[on[u]] = NoThread,
           rec[on[u]].filename \in DOMAIN docs \ lost, NEW t \in A
    PROVE  rec[on[u]].filename \notin touch[t]
<1> DEFINE r == on[u]
           n == rec[r].filename
<1> SUFFICES ASSUME n \in touch[t] PROVE FALSE
  OBVIOUS
<1>1. t \in Threads /\ Working(t) /\ ok[t] /\ t # u
  BY DEF PInvOf, Begun
<1>2. n \in Names /\ n \in DOMAIN docs /\ n \notin lost
  BY DEF IInv, Types
<1>3. Good(n) /\ n \in Own(t) /\ r \in files /\ NoThread \notin Threads
  BY <1>2, StoreAssumption DEF Good, Own
<1> HIDE DEF n
<1>4. \A s \in files : rec[s].filename = n => s = r
  BY <1>3 DEF IInv, Unique, n
<1>5. ASSUME Locking(t) PROVE file_lock[on[t]] = t
  BY <1>1, <1>5 DEF IInv, Handlers, Handler
<1>6. CASE Locking(t) /\ op[t].do # "rename"
  <2>1. on[t] \in files /\ rec[on[t]].filename = n
    BY <1>1, <1>2, <1>3, <1>6, Holder
  <2> QED BY <1>1, <1>3, <1>4, <1>5, <1>6, <2>1
<1>7. CASE Locking(t) /\ op[t].do = "rename"
  <2>1. t = NS /\ NS \in Threads
    BY <1>1, <1>7, Kinds
  <2>2. PICK a, k : RenameAt(a, k)
    BY <1>1, <1>7, <2>1, Renames
  <2>3. op[NS].to \notin DOMAIN docs
    BY <1>1, <1>7, <2>1, Renames
  <2>4. n = a /\ a # op[NS].to
    BY <1>2, <1>3, <2>1, <2>2, <2>3 DEF RenameAt, Own
  <2>5. on[NS] # r
    BY <1>1, <1>3, <1>5, <1>7, <2>1
  <2>6. CASE k >= 4
    <3>1. Len(todo[NS]) <= 2
      BY <2>2, <2>6 DEF RenameAt
    <3>2. NsAt(A, "rename") /\ a \in touch[NS] \ {op[NS].to}
      BY <1>7, <2>1, <2>2, <2>4 DEF NsAt, RenameAt
    <3>3. \A s \in files : rec[s].filename = a => a \in lost
      BY <3>1, <3>2 DEF PInvOf, RenameKept
    <3> QED BY <1>2, <1>3, <2>4, <3>3 DEF n
  <2>7. CASE ~(k >= 4)
    <3>1. on[NS] \in files /\ rec[on[NS]].filename = n
      BY <2>2, <2>4, <2>7 DEF RenameAt
    <3> QED BY <1>4, <2>5, <3>1
  <2> QED BY <2>6, <2>7
<1>8. CASE ~Locking(t)
  <2>1. /\ Busy(t) /\ t = NS /\ op[t].do \in {"create", "delete"} /\ touch[t] = {op[t].filename}
    BY <1>1, <1>8, Kinds
  <2>2. n = op[NS].filename
    BY <2>1
  <2>3. CASE op[NS].do = "create"
    BY <1>2, <2>1, <2>2, <2>3 DEF IInv, Creating
  <2>4. CASE op[NS].do = "delete"
    <3>1. on[NS] = r
      BY <1>4, <2>1, <2>2, <2>4 DEF IInv, Deleting
    <3>2. u \in Clients
      BY <1>1, <2>1 DEF Threads
    <3> QED BY <1>3, <2>1, <2>2, <2>4, <3>1, <3>2 DEF IInv, Deleting
  <2> QED BY <2>1, <2>3, <2>4
<1> QED BY <1>6, <1>7, <1>8

\* A request that is refused, or is a rename, has begun nothing when it has its lock.
LEMMA LockQuiet ==
    ASSUME NamesApart, IInv, PInv, NEW t \in Threads, Lock(t),
           op[t].do = "rename" \/ ~Accepted(rec[on[t]], op[t])
    PROVE  PInv'
<1> DEFINE r == on[t]
           q == rec[r]
           o == op[t]
           acc == Accepted(q, o)
           C == Changed(q, o)
<1>1. /\ Busy(t) /\ Locking(t) /\ ~Working(t) /\ r \in Recs /\ touch[t] = {}
      /\ ok' = [ok EXCEPT ![t] = acc]
      /\ todo' = [todo EXCEPT ![t] = IF acc THEN Program(q, o) ELSE <<>>]
      /\ touch' = [touch EXCEPT ![t] = C]
      /\ now' = now \/ now' = now + 1
      /\ UNCHANGED <<disk, files, rec, op, on, docs, lost>>
  BY DEF Lock, Idle, Waiting, Busy, Locking, Working, IInv, Handlers, Handler
<1>2. /\ todo'[t] = IF acc THEN Program(q, o) ELSE <<>>
      /\ touch'[t] = C /\ ok'[t] = acc
      /\ \A u \in Threads : u # t => todo'[u] = todo[u] /\ touch'[u] = touch[u] /\ ok'[u] = ok[u]
  BY <1>1 DEF IInv, Types
<1>3. ~Active(t) /\ ~Active(t)'
  <2>1. CASE ~acc
    BY <1>1, <1>2, <2>1 DEF Active
  <2>2. CASE acc /\ o.do = "rename"
    <3>1. todo'[t] = ss_handle_rename(q, o.to) /\ q.filename \in Names /\ q \in FileRecord /\ o.to \in Names
      <4>1. r \in files /\ q \in FileRecord /\ q.filename \in Names
        BY <1>1, <2>2, Lockable DEF IInv
      <4>2. o.to \in Names
        BY <1>1, <2>2, Changing
      <4> QED BY <1>2, <2>2, <4>1, <4>2 DEF Program
    <3> HIDE DEF q, o
    <3>2. ss_handle_rename(q, o.to) = RenamePlan(q.filename, o.to, [q EXCEPT !.filename = o.to])
      BY <3>1, RenameProgram
    <3>3. Len(todo'[t]) = 6
      BY <3>1, <3>2 DEF RenamePlan
    <3>4. ~(Len(todo'[t]) < 6)
      BY <3>3
    <3>5. op'[t].do = "rename"
      BY <1>1, <2>2 DEF o
    <3> QED BY <1>1, <3>4, <3>5 DEF Active
  <2> QED BY <2>1, <2>2
<1>4. Touched'
  <2>1. C \subseteq Names \cup Temps \cup {<<>>}
    <3>1. q.filename \in Names \/ (t # NS /\ q.filename = <<>>)
      BY <1>1 DEF IInv, Records, RecordOf
    <3>2. o.do = "rename" => o.to \in Names
      BY <1>1, Changing
    <3>3. o.do \in {"copy", "copy_failed"} => t = NS
      BY <1>1, NoOpApart DEF IInv, Locking, Requests
    <3> QED BY <3>1, <3>2, <3>3 DEF Changed, Temps
  <2> QED BY <1>1, <1>2, <2>1 DEF PInv, PInvOf, Touched
<1>5. \A p : Dated(p) => Dated(p)'
  BY <1>1, DatedStays
<1> QED BY <1>1, <1>2, <1>3, <1>4, <1>5, Unbegun

\* A checkpoint file is named after the time.
LEMMA CkptLast ==
    ASSUME NEW n \in Names
    PROVE  LET p == ckpt_path(n) IN p[Len(p)] = Clock[now + 1]
<1> DEFINE p == ckpt_path(n)
           s == <<".ckpt_", Clock[now + 1]>>
           S == STRING \cup {".ckpt_", Clock[now + 1]}
<1>1. s \in Seq(S) /\ n \in Seq(S) /\ Len(s) = 2 /\ s[2] = Clock[now + 1]
  <2>1. n \in Seq(STRING)
    BY StoreAssumption
  <2>2. \A i \in 1..Len(n) : n[i] \in S
    BY <2>1
  <2>3. n = [i \in 1..Len(n) |-> n[i]] /\ Len(n) \in Nat
    BY <2>1
  <2>4. n \in Seq(S)
    BY <2>2, <2>3, IsASeq
  <2> QED BY <2>4
<1>2. p = n \o s
  BY DEF ckpt_path
<1> HIDE DEF s, S, p
<1>3. /\ Len(p) = Len(n) + Len(s)
      /\ \A i \in 1..(Len(n) + Len(s)) :
            p[i] = IF i <= Len(n) THEN n[i] ELSE s[i - Len(n)]
  BY <1>1, <1>2, Joined
<1>4. Len(n) \in Nat
  BY <1>1
<1>5. Len(p) = Len(n) + 2 /\ Len(n) + 2 \in 1..(Len(n) + Len(s)) /\ ~(Len(n) + 2 <= Len(n))
      /\ (Len(n) + 2) - Len(n) = 2
  BY <1>1, <1>3, <1>4
<1>6. p[Len(n) + 2] = s[(Len(n) + 2) - Len(n)]
  BY <1>3, <1>5
<1> QED BY <1>1, <1>5, <1>6 DEF p

\* The file of a new checkpoint is known to nobody.
LEMMA FreshCkpt ==
    ASSUME TimesApart, IInv, now < Len(Clock), NEW n \in Names
    PROVE  ~Dated(ckpt_path(n))
<1> SUFFICES ASSUME Dated(ckpt_path(n)) PROVE FALSE
  OBVIOUS
<1> DEFINE p == ckpt_path(n)
<1>1. now \in Nat /\ Clock \in Seq(STRING) /\ now + 1 \in DOMAIN Clock
  BY StoreAssumption DEF IInv, Types
<1>2. p[Len(p)] = Clock[now + 1]
  BY CkptLast
<1>3. PICK i \in 1..now : p[Len(p)] = Clock[i]
  BY DEF Dated
<1>4. i \in DOMAIN Clock /\ i # now + 1
  BY <1>1
<1> QED BY <1>1, <1>2, <1>3, <1>4 DEF TimesApart

\* A handler that has its lock and whose tests pass begins.
LEMMA LockBegins ==
    ASSUME NamesApart, TimesApart, IInv, PInv, NEW t \in Threads, Lock(t),
           op[t].do # "rename", Accepted(rec[on[t]], op[t])
    PROVE  PInv'
<1> DEFINE r == on[t]
           q == rec[r]
           n == q.filename
           o == op[t]
           C == Changed(q, o)
           s == Program(q, o)
           c == ckpt_path(n)
<1>1. /\ Busy(t) /\ Locking(t) /\ ~Working(t) /\ r \in Recs /\ touch[t] = {}
      /\ o.do = "checkpoint" => now < Len(Clock)
      /\ file_lock[r] = NoThread
      /\ ok' = [ok EXCEPT ![t] = TRUE]
      /\ todo' = [todo EXCEPT ![t] = s]
      /\ touch' = [touch EXCEPT ![t] = C]
      /\ now' = IF o.do = "checkpoint" THEN now + 1 ELSE now
      /\ UNCHANGED <<disk, files, rec, op, on, docs, lost>>
  BY DEF Lock, Idle, Waiting, Busy, Locking, Working, IInv, Handlers, Handler
<1>2. /\ todo'[t] = s /\ touch'[t] = C /\ ok'[t] = TRUE
      /\ \A u \in Threads : u # t => todo'[u] = todo[u] /\ touch'[u] = touch[u] /\ ok'[u] = ok[u]
  BY <1>1 DEF IInv, Types
<1>3. /\ r \in files /\ q \in FileRecord /\ q \in Sidecar /\ n \in Names /\ n \in Seq(Token)
  BY <1>1, Lockable DEF IInv, FileRecord
<1>4. C = {n} \cup (IF Copier(t) THEN {temp_path(n)} ELSE {})
  BY DEF Changed, Copier
<1>5. temp_path(n) \notin Names
  BY <1>3, NameTypes
<1>6. PInvOf(Actives)
  BY DEF PInv
<1>7. o.do = "checkpoint" => ~Dated(c)
  BY <1>1, <1>3, FreshCkpt
<1>8. c \notin PathsOf(q) \/ o.do # "checkpoint"
  <2>1. CkptsDated(Actives)
    BY <1>6 DEF PInvOf
  <2> SUFFICES ASSUME c \in PathsOf(q), o.do = "checkpoint" PROVE FALSE
    OBVIOUS
  <2>2. Ref(Actives, n, c)
    BY <1>3 DEF Ref
  <2> HIDE DEF c
  <2> QED BY <1>3, <1>7, <2>1, <2>2 DEF CkptsDated
<1>9. Modest(s, PathsOf(q) \cup (IF o.do = "checkpoint" THEN {c} ELSE {}), ~Copier(t))
  BY <1>1, <1>3, LockModest DEF IInv
<1>10. Copier(t) => Sure(disk, s) /\ Removed(disk, s, temp_path(n))
  <2>1. o.do = "copy" => o.text \in Texts
    BY <1>1, NoOpApart DEF IInv, Locking, Requests, Commands
  <2>2. CASE o.do = "copy"
    BY <1>3, <2>1, <2>2, CopyAchieves DEF Program
  <2>3. CASE o.do = "copy_failed"
    BY <1>3, <2>3, CopyFailedAchieves DEF Program
  <2> QED BY <2>2, <2>3 DEF Copier
<1>11. ASSUME n \in DOMAIN docs \ lost
       PROVE  Achieves(s, q, Promise(docs[n], o))
  <2>1. \A u \in Actives : n \notin touch[u]
    BY <1>1, <1>3, <1>6, <1>11, LockFree
  <2>2. Settled(n)
    BY <1>6, <1>11, <2>1 DEF PInvOf, DocsKept
  <2>3. Holds(disk, <<>>, q, docs[n]) /\ docs[n] \in Doc
    <3>1. PICK x \in files : rec[x].filename = n /\ Holds(disk, <<>>, rec[x], docs[n])
      BY <2>2 DEF Settled
    <3>2. x = r
      BY <1>3, <1>11, <3>1 DEF IInv, Unique, Good
    <3> QED BY <2>2, <3>1, <3>2 DEF Settled
  <2>4. o.do = "checkpoint" => now < Len(Clock) /\ ckpt_path(q.filename) \notin PathsOf(q)
    BY <1>1, <1>8
  <2> HIDE DEF q, n
  <2> QED BY <1>1, <1>3, <2>3, <2>4, LockAchieves DEF IInv, q, n
<1> HIDE DEF s, C, c, q
<1>12. Own(t)' = {n} /\ (Copier(t)' <=> Copier(t)) /\ touch'[t] = C /\ n \in C
  BY <1>1, <1>2, <1>3, <1>4, <1>5 DEF Own, Copier
<1>13. ~Active(t) /\ Active(t)'
  BY <1>1, <1>2, <1>12 DEF Active, Working
<1>14. Touched'
  <2>1. C \subseteq Names \cup Temps \cup {<<>>}
    BY <1>3, <1>4 DEF Temps
  <2> QED BY <1>1, <1>2, <1>6, <2>1 DEF PInvOf, Touched
<1>15. \A p : Dated(p) => Dated(p)'
  BY <1>1, DatedStays
<1>16. Beginning(t)'
  <2>1. Owned({t})' /\ \A m, k \in Own(t)' : m = k
    BY <1>2, <1>4, <1>12 DEF Owned
  <2>2. CreateKept({t})' /\ DeleteKept({t})' /\ op'[t].do # "rename"
    BY <1>1 DEF CreateKept, DeleteKept, NsAt, Locking
  <2>3. ~Copier(t)' => \A e \in Range(todo'[t]), k \in Names : Leaves(e, temp_path(k))
    BY <1>2, <1>9, <1>12 DEF Modest, Fine
  <2>4. t = NS /\ Copier(NS)' =>
          /\ Sure(disk', todo'[NS])
          /\ \A k \in Own(NS)' : Removed(disk', todo'[NS], temp_path(k))
    BY <1>1, <1>2, <1>10, <1>12
  <2>5. ASSUME NEW k \in DOMAIN docs' \ lost', k \in touch'[t]
        PROVE  Underway(t, k)'
    <3>1. k = n /\ k \in DOMAIN docs \ lost
      <4>1. k \in Names
        BY <1>1, <2>5 DEF IInv, Types
      <4> QED BY <1>1, <1>2, <1>4, <1>5, <2>5, <4>1, NameTypes, <1>12 DEF Own
    <3> DEFINE doc == Promise(docs[n], o)
    <3>2. Achieves(s, q, doc)
      BY <1>11, <3>1
    <3> HIDE DEF doc
    <3>3. doc \in Doc
      BY <3>2 DEF Achieves
    <3>4. PICK q2 : FinalOf(s, q, q2) /\ q2.filename = n /\ Holds(disk, s, q2, doc)
      BY <3>2 DEF Achieves
    <3>5. q2 \in {q} \cup {e.record : e \in {x \in Range(s) : x.do = "memory"}}
      BY <3>4, FinalDrafted
    <3>6. rec'[on'[t]] = q /\ todo'[t] = s /\ disk' = disk /\ op'[t] = o /\ docs'[k] = docs[n]
      BY <1>1, <1>2, <3>1 DEF q
    <3>7. Promise(docs'[k], op'[t]) = doc
      BY <3>6 DEF doc
    <3>8. q2 \in Drafts(t)' /\ Final(t, q2)'
      BY <3>4, <3>5, <3>6 DEF Drafts, Final
    <3>9. NewName(t, k)' = n
      BY <2>2, <3>1 DEF NewName
    <3>10. Holds(disk', todo'[t], q2, doc)
      BY <3>4, <3>6
    <3> QED BY <3>3, <3>4, <3>7, <3>8, <3>9, <3>10 DEF Underway
  <2> QED BY <2>1, <2>2, <2>3, <2>4, <2>5 DEF Beginning
<1>17. ASSUME NEW p, Pending(t, p)', NEW m \in Own(t)'
       PROVE  (\A B : Ref(B, m, p)) \/ (~Dated(p) /\ Dated(p)')
  <2>1. p \in PathsOf(q) \/ (o.do = "checkpoint" /\ p = c)
    BY <1>2, <1>9, <1>17 DEF Pending, Modest, Fine
  <2>2. CASE p \in PathsOf(q)
    BY <1>3, <1>12, <1>17, <2>2 DEF Ref, q
  <2>3. CASE o.do = "checkpoint" /\ p = c
    <3>1. ~Dated(p)
      BY <1>7, <2>3
    <3>2. Dated(p)'
      <4>1. p[Len(p)] = Clock[now + 1]
        BY <1>3, <2>3, CkptLast DEF c, q
      <4>2. now + 1 \in 1..now'
        BY <1>1, <2>3 DEF IInv, Types
      <4> QED BY <4>1, <4>2 DEF Dated
    <3> QED BY <3>1, <3>2
  <2> QED BY <2>1, <2>2, <2>3
<1> QED BY <1>1, <1>2, <1>13, <1>14, <1>15, <1>16, <1>17, Begins

-----------------------------------------------------------------------------
(* A rename whose first change does not fail *)

LEMMA RenameAchieves ==
    ASSUME NamesApart, NEW a \in Names, NEW b \in Names, a # b, NEW q \in FileRecord, q.filename = a
    PROVE  LET q2 == [q EXCEPT !.filename = b]
               s == RenameRest(a, b, q2, 0)
           IN  /\ Removed(disk, s, filepath(a)) /\ Removed(disk, s, metapath(a))
               /\ FinalOf(s, q, q2) /\ q2 \in {e.record : e \in {x \in Range(s) : x.do = "memory"}}
               /\ \A doc \in Doc : Holds(disk, <<>>, q, doc) => Holds(disk, s, q2, doc)
               /\ Modest(s, PathsOf(q), TRUE)
<1> DEFINE q2 == [q EXCEPT !.filename = b]
           s == RenameRest(a, b, q2, 0)
<1>1. /\ q2 \in Sidecar /\ q2.filename = b /\ q2.owner = q.owner /\ q2.acl = q.acl
      /\ q2.undo_available = q.undo_available /\ q2.checkpoints = q.checkpoints
  <2>1. q2 \in Sidecar /\ q2.filename = b
    BY RenameProgram
  <2> QED BY <2>1 DEF FileRecord
<1> HIDE DEF q2
<1>2. /\ s \in Seq(Change) /\ DOMAIN s = 1..6
      /\ s[1] = Rename(filepath(a), filepath(b), TRUE)
      /\ s[2] = Rename(metapath(a), metapath(b), FALSE)
      /\ s[3] = Rename(undopath(a), undopath(b), FALSE)
      /\ s[4] = Memory(q2) /\ s[5] = Open(metapath(b)) /\ s[6] = Close(metapath(b), q2)
  <2>1. PICK k \in 0..6 : k = 0
    OBVIOUS
  <2> DEFINE v == RenameRest(a, b, q2, k)
  <2>2. /\ v \in Seq(Change) /\ DOMAIN v = 1..(6 - k)
        /\ \A i \in DOMAIN v :
              /\ i + k = 1 => v[i] = Rename(filepath(a), filepath(b), TRUE)
              /\ i + k = 2 => v[i] = Rename(metapath(a), metapath(b), FALSE)
              /\ i + k = 3 => v[i] = Rename(undopath(a), undopath(b), FALSE)
              /\ i + k = 4 => v[i] = Memory(q2)
              /\ i + k = 5 => v[i] = Open(metapath(b))
              /\ i + k = 6 => v[i] = Close(metapath(b), q2)
              /\ i + k \in 1..6
    BY <1>1, PlanLeft, ZenonT(60)
  <2>3. v = s
    BY <2>1
  <2> HIDE DEF s, v
  <2>4. \A i \in 1..6 : i + k = i
    BY <2>1
  <2>5. DOMAIN v = 1..6
    BY <2>1, <2>2
  <2>6. 1 \in 1..6 /\ 2 \in 1..6 /\ 3 \in 1..6 /\ 4 \in 1..6 /\ 5 \in 1..6 /\ 6 \in 1..6
    OBVIOUS
  <2> QED BY <2>2, <2>3, <2>4, <2>5, <2>6
<1> HIDE DEF s
<1>3. /\ ~IsMeta(filepath(a)) /\ ~IsMeta(filepath(b)) /\ ~IsMeta(undopath(a)) /\ ~IsMeta(undopath(b))
      /\ IsMeta(metapath(a)) /\ IsMeta(metapath(b))
      /\ filepath(a) # filepath(b) /\ metapath(a) # metapath(b) /\ undopath(a) # undopath(b)
      /\ filepath(a) # undopath(a) /\ filepath(a) # undopath(b)
      /\ filepath(b) # undopath(a) /\ filepath(b) # undopath(b)
      /\ \A p \in {filepath(a), filepath(b), metapath(a), metapath(b), undopath(a), undopath(b)} :
            p \notin CkptPath /\ \A k \in Names : p # temp_path(k)
  <2>1. \A n, k \in Names :
            /\ filepath(n) # undopath(k) /\ filepath(n) # temp_path(k) /\ undopath(n) # temp_path(k)
            /\ n # k => filepath(n) # filepath(k) /\ metapath(n) # metapath(k) /\ undopath(n) # undopath(k)
    BY Paths
  <2>2. \A n \in Names : /\ {filepath(n), metapath(n), undopath(n), temp_path(n)} \subseteq FlatPath \ CkptPath
                         /\ IsMeta(metapath(n)) /\ ~IsMeta(filepath(n)) /\ ~IsMeta(undopath(n)) /\ ~IsMeta(temp_path(n))
    BY Paths
  <2> QED BY <2>1, <2>2
<1>4. \A x : /\ x \notin {filepath(a), filepath(b)} => Leaves(s[1], x)
             /\ x \notin {metapath(a), metapath(b)} => Leaves(s[2], x)
             /\ x \notin {undopath(a), undopath(b)} => Leaves(s[3], x)
             /\ Leaves(s[4], x)
             /\ x # metapath(b) => Leaves(s[5], x) /\ Leaves(s[6], x)
  BY <1>2 DEF Leaves, Rename, Memory, Open, Close
<1>5. \A i \in DOMAIN s : i \in {1, 2, 3, 4, 5, 6}
  BY <1>2
<1>6. \A x : /\ x \notin {metapath(a), metapath(b), undopath(a), undopath(b)} => LeftAfter(s, 1, x)
             /\ x \notin {metapath(b), undopath(a), undopath(b)} => LeftAfter(s, 2, x)
             /\ x # metapath(b) => LeftAfter(s, 3, x)
             /\ LeftAfter(s, 6, x)
  BY <1>4, <1>5 DEF LeftAfter
<1>7. Removed(disk, s, filepath(a)) /\ Removed(disk, s, metapath(a))
  <2>1. Removed(disk, s, filepath(a))
    <3>1. 1 \in DOMAIN s /\ s[1].do = "rename" /\ s[1].path = filepath(a) /\ s[1].to = filepath(b)
      BY <1>2 DEF Rename
    <3>2. LeftAfter(s, 1, filepath(a))
      BY <1>3, <1>6
    <3> QED BY <1>3, <3>1, <3>2 DEF Removed
  <2>2. Removed(disk, s, metapath(a))
    <3>1. 2 \in DOMAIN s /\ s[2].do = "rename" /\ s[2].path = metapath(a) /\ s[2].to = metapath(b)
      BY <1>2 DEF Rename
    <3>2. LeftAfter(s, 2, metapath(a))
      BY <1>3, <1>6
    <3> QED BY <1>3, <3>1, <3>2 DEF Removed
  <2> QED BY <2>1, <2>2
<1>8. FinalOf(s, q, q2) /\ q2 \in {e.record : e \in {x \in Range(s) : x.do = "memory"}}
  <2>1. 4 \in DOMAIN s /\ s[4].do = "memory" /\ s[4].record = q2 /\ s[4] \in Range(s)
    BY <1>2 DEF Memory, Range
  <2>2. s[5].do # "memory" /\ s[6].do # "memory"
    BY <1>2 DEF Open, Close
  <2>3. \A i \in DOMAIN s : i > 4 => s[i].do # "memory"
    BY <1>5, <2>2
  <2> QED BY <2>1, <2>3 DEF FinalOf
<1>9. ASSUME NEW doc \in Doc, Holds(disk, <<>>, q, doc) PROVE Holds(disk, s, q2, doc)
  <2>1. /\ OnDisk(q, doc)
        /\ \A i \in DOMAIN q.checkpoints :
              LET p == q.checkpoints[i].filepath
              IN  /\ p \in CkptPath /\ ~IsMeta(p)
                  /\ \A k \in Names : p # filepath(k) /\ p # undopath(k) /\ p # temp_path(k)
    BY <1>9, Held
  <2>2. Ends(disk, s, metapath(b), q2)
    <3>1. 6 \in DOMAIN s /\ Writes(s[6], metapath(b), q2) /\ LeftAfter(s, 6, metapath(b))
      BY <1>2, <1>6 DEF Writes, Close
    <3> QED BY <3>1 DEF Ends, Lands
  <2>3. Ends(disk, s, filepath(b), Text(doc.text))
    <3>1. 1 \in DOMAIN s /\ s[1].do = "rename" /\ s[1].path = filepath(a) /\ s[1].to = filepath(b)
      BY <1>2 DEF Rename
    <3>2. LeftAfter(s, 1, filepath(b))
      BY <1>3, <1>6
    <3>3. filepath(a) \in DOMAIN disk /\ disk[filepath(a)] = Text(doc.text)
      BY <2>1 DEF OnDisk
    <3>4. \A i \in DOMAIN s : ~(i < 1)
      BY <1>5
    <3>5. Brought(disk, s, 1, Text(doc.text))
      BY <3>1, <3>3, <3>4 DEF Brought
    <3> QED BY <1>3, <3>1, <3>2, <3>5 DEF Ends, Comes
  <2>4. q.undo_available => Ends(disk, s, undopath(b), Text(doc.undo[1]))
    <3> SUFFICES ASSUME q.undo_available PROVE Ends(disk, s, undopath(b), Text(doc.undo[1]))
      OBVIOUS
    <3>1. 3 \in DOMAIN s /\ s[3].do = "rename" /\ s[3].path = undopath(a) /\ s[3].to = undopath(b)
      BY <1>2 DEF Rename
    <3>2. LeftAfter(s, 3, undopath(b))
      BY <1>3, <1>6
    <3>3. undopath(a) \in DOMAIN disk /\ disk[undopath(a)] = Text(doc.undo[1])
      BY <2>1 DEF OnDisk
    <3>4. \A i \in DOMAIN s : i < 3 => Leaves(s[i], undopath(a))
      BY <1>3, <1>4, <1>5
    <3>5. Brought(disk, s, 3, Text(doc.undo[1]))
      BY <3>1, <3>3, <3>4 DEF Brought
    <3> QED BY <1>3, <3>1, <3>2, <3>5 DEF Ends, Comes
  <2>5. ASSUME NEW i \in DOMAIN q.checkpoints
        PROVE  Ends(disk, s, q.checkpoints[i].filepath, Text(doc.checkpoints[i][2]))
    <3> DEFINE p == q.checkpoints[i].filepath
    <3>1. /\ p \notin {filepath(a), filepath(b), metapath(a), metapath(b), undopath(a), undopath(b)}
          /\ p \in DOMAIN disk /\ disk[p] = Text(doc.checkpoints[i][2])
      BY <1>3, <2>1 DEF OnDisk
    <3> HIDE DEF p
    <3>2. \A j \in DOMAIN s : Leaves(s[j], p)
      BY <1>4, <1>5, <3>1
    <3>3. LeftBy(s, p)
      BY <3>2 DEF LeftBy, Range
    <3> QED BY <3>1, <3>3 DEF Ends, Stays, p
  <2> QED BY <1>1, <1>9, <2>2, <2>3, <2>4, <2>5 DEF Holds
<1>10. Modest(s, PathsOf(q), TRUE)
  <2>1. PathsOf(q2) = PathsOf(q)
    BY <1>1 DEF PathsOf
  <2>2. \A i \in DOMAIN s : \A p : Cites(s[i], p) => p \in PathsOf(q)
    <3>1. \A i \in {1, 2, 3} : \A p : ~Cites(s[i], p)
      BY <1>2, <1>3 DEF Cites, Rename
    <3>2. \A p : Cites(s[4], p) => p \in PathsOf(q)
      BY <1>2, <2>1 DEF Cites, Memory
    <3>3. \A p : ~Cites(s[5], p)
      BY <1>2, <1>3 DEF Cites, Open
    <3>4. \A p : Cites(s[6], p) => p \in PathsOf(q)
      BY <1>2, <1>3, <2>1 DEF Cites, Close
    <3> QED BY <1>5, <3>1, <3>2, <3>3, <3>4
  <2>3. \A i \in DOMAIN s : \A k \in Names : Leaves(s[i], temp_path(k))
    BY <1>3, <1>4, <1>5
  <2>4. \A e \in Range(s) : \E i \in DOMAIN s : e = s[i]
    BY DEF Range
  <2> QED BY <1>2, <2>2, <2>3, <2>4 DEF Modest, Fine
<1> QED BY <1>7, <1>8, <1>9, <1>10 DEF s, q2

\* A rename that will not fail may be taken for one that has begun.
LEMMA Enlist ==
    ASSUME NamesApart, IInv, NEW A, PInvOf(A), NS \notin A, Working(NS), ok[NS], op[NS].do = "rename",
           NEW a, RenameAt(a, 0), filepath(a) \in DOMAIN disk
    PROVE  PInvOf(A \cup {NS})
<1> DEFINE b == op[NS].to
           r == on[NS]
           q == rec[r]
           q2 == [q EXCEPT !.filename = b]
           s == todo[NS]
           B == A \cup {NS}
<1>1. /\ a \in Names /\ b \in Names /\ a # b /\ touch[NS] = {a, b} /\ Own(NS) = {a, b}
      /\ s = RenameRest(a, b, q2, 0) /\ Len(s) = 6 /\ r \in files /\ q.filename = a
  BY DEF RenameAt
<1>2. NS \in Threads /\ b \notin DOMAIN docs /\ q \in FileRecord
  <2>1. b \notin DOMAIN docs
    BY Renames
  <2> QED BY <1>1, <2>1 DEF Threads, IInv, Types
<1>3. ~Copier(NS)
  BY DEF Copier
<1>4. /\ Removed(disk, s, filepath(a)) /\ Removed(disk, s, metapath(a))
      /\ FinalOf(s, q, q2) /\ q2 \in {e.record : e \in {x \in Range(s) : x.do = "memory"}}
      /\ \A doc \in Doc : Holds(disk, <<>>, q, doc) => Holds(disk, s, q2, doc)
      /\ Modest(s, PathsOf(q), TRUE)
  <2> HIDE DEF s, q, b
  <2> QED BY <1>1, <1>2, RenameAchieves
<1>5. q2.filename = b
  BY <1>2 DEF FileRecord
<1>6. \A u \in A : u \in Threads /\ u # NS
  BY DEF PInvOf, Begun
<1>7. ASSUME NEW n \in {a, b}, n \notin lost, NEW u \in A PROVE n \notin touch[u]
  BY <1>1, <1>2, <1>6, <1>7, SoleWorker
<1> HIDE DEF s, q2, q, b
<1>8. Begun(B)
  BY <1>2 DEF PInvOf, Begun
<1>9. DocsKept(B)
  <2>1. ASSUME NEW n \in DOMAIN docs \ lost, n \in touch[NS], Clear(NS) PROVE Underway(NS, n)
    <3>1. n = a
      BY <1>1, <1>2, <2>1
    <3>2. \A u \in A : a \notin touch[u]
      BY <1>7, <2>1, <3>1
    <3>3. Settled(a)
      BY <2>1, <3>1, <3>2 DEF PInvOf, DocsKept
    <3>4. docs[a] \in Doc /\ Holds(disk, <<>>, q, docs[a])
      <4>1. PICK x \in files : rec[x].filename = a /\ Holds(disk, <<>>, rec[x], docs[a])
        BY <3>3 DEF Settled
      <4>2. x = r
        BY <1>1, <2>1, <3>1, <4>1 DEF IInv, Unique, Good, q
      <4> QED BY <3>3, <4>1, <4>2 DEF Settled, q
    <3>5. Promise(docs[a], op[NS]) = docs[a]
      BY DEF Promise
    <3>6. Holds(disk, s, q2, docs[a])
      BY <1>4, <3>4
    <3>7. q2 \in Drafts(NS) /\ Final(NS, q2)
      BY <1>4 DEF Drafts, Final, s, q
    <3>8. q2.filename = NewName(NS, n)
      BY <1>5 DEF NewName, b
    <3> QED BY <3>1, <3>4, <3>5, <3>6, <3>7, <3>8 DEF Underway, s
  <2> QED BY <2>1 DEF PInvOf, DocsKept
<1>10. CreateKept(B) /\ DeleteKept(B)
  BY DEF CreateKept, DeleteKept, NsAt
<1>11. RenameKept(B)
  <2>1. Known(a)
    <3>1. ~Renamed(A, r)
      BY DEF Renamed, NsAt
    <3> QED BY <1>1, <3>1 DEF PInvOf, RecListed, q
  <2>2. ~(Len(todo[NS]) <= 2)
    <3>1. Len(todo[NS]) = 6
      BY <1>1 DEF s
    <3> QED BY <3>1
  <2>3. \A x \in touch[NS] \ {op[NS].to} : x = a
    BY <1>1 DEF b
  <2> QED BY <1>4, <2>1, <2>2, <2>3 DEF RenameKept, s
<1>12. CopyKept(B)
  <2>1. \A e \in Range(todo[NS]), n \in Names : Leaves(e, temp_path(n))
    BY <1>4 DEF Modest, Fine, s
  <2> QED BY <1>3, <2>1 DEF PInvOf, CopyKept
<1>13. RecListed(B) /\ SideListed(B) /\ FileListed(B)
  <2>1. \A x : ~Renamed(A, x)
    BY DEF Renamed, NsAt
  <2> QED BY <2>1 DEF PInvOf, RecListed, SideListed, FileListed
<1>14. Owned(B)
  BY <1>1, <1>3 DEF PInvOf, Owned
<1>15. ASSUME NEW m, NEW p, Ref(B, m, p)
       PROVE  Ref(A, m, p) \/ (m \in {a, b} /\ Ref(A, a, p))
  <2>1. Pending(NS, p) => Ref(A, a, p)
    <3> SUFFICES ASSUME Pending(NS, p) PROVE Ref(A, a, p)
      OBVIOUS
    <3>1. p \in PathsOf(q)
      BY <1>4 DEF Pending, Modest, Fine, s
    <3> QED BY <1>1, <3>1 DEF Ref, q
  <2>2. Ref(A, m, p) \/ (m \in touch[NS] /\ Pending(NS, p))
    BY <1>15 DEF Ref
  <2> QED BY <1>1, <2>1, <2>2
<1>16. CkptsDated(B)
  BY <1>1, <1>15 DEF PInvOf, CkptsDated
<1>17. CkptsApart(B)
  <2> SUFFICES ASSUME NEW m \in Names, NEW k \in Names, m # k, Clean(B, m), ~Together(B, m, k),
                      NEW p, Ref(B, m, p), Ref(B, k, p)
               PROVE  FALSE
    BY DEF CkptsApart
  <2>1. Clean(A, m) /\ ~Together(A, m, k) /\ ~(m \in {a, b} /\ k \in {a, b})
        /\ (m \in {a, b} => Clear(NS))
    BY <1>1 DEF Clean, Together
  <2>2. ~(Ref(A, m, p) /\ Ref(A, k, p))
    BY <2>1 DEF PInvOf, CkptsApart
  <2>3. /\ Ref(A, m, p) \/ (m \in {a, b} /\ Ref(A, a, p))
        /\ Ref(A, k, p) \/ (k \in {a, b} /\ Ref(A, a, p))
    BY <1>15
  <2>4. CASE m \in {a, b}
    <3>1. a \notin lost /\ \A u \in A : a \notin touch[u]
      BY <1>1, <1>7, <2>1, <2>4 DEF Clear
    <3>2. Clean(A, a) /\ ~Together(A, a, k)
      BY <3>1 DEF Clean, Together
    <3>3. a # k /\ Ref(A, k, p)
      BY <2>1, <2>3, <2>4
    <3>4. ~Ref(A, a, p)
      BY <1>1, <3>2, <3>3 DEF PInvOf, CkptsApart
    <3> QED BY <2>2, <2>3, <3>3, <3>4
  <2>5. CASE k \in {a, b}
    <3>1. m # a /\ Ref(A, m, p) /\ Ref(A, a, p)
      BY <2>1, <2>2, <2>3, <2>5
    <3>2. ~Together(A, m, a)
      <4> SUFFICES ASSUME NEW u \in A, {m, a} \subseteq touch[u] PROVE FALSE
        BY DEF Together
      <4>1. u \in Threads /\ u # NS /\ Working(u) /\ m \in Own(u) /\ a \in Own(u) /\ m \notin lost
        BY <1>1, <1>6, <2>1 DEF Working, Own, Clean
      <4>2. Locking(u) /\ op[u].do # "rename"
        BY <4>1, Kinds
      <4>3. Own(u) = {m}
        BY <4>1, <4>2, Holder
      <4> QED BY <3>1, <4>1, <4>3
    <3> QED BY <1>1, <2>1, <3>1, <3>2 DEF PInvOf, CkptsApart
  <2> QED BY <2>2, <2>3, <2>4, <2>5
<1> QED BY <1>8, <1>9, <1>10, <1>11, <1>12, <1>13, <1>14, <1>16, <1>17 DEF PInvOf

LEMMA StepKept ==
    ASSUME NamesApart, IInv, PInv, NEW t \in Threads, Step(t)
    PROVE  PInv'
<1> DEFINE e == Head(todo[t])
<1> SUFFICES ASSUME NEW A, A = Actives PROVE PInv'
  OBVIOUS
<1>1. PInvOf(A)
  BY DEF PInv
<1>2. /\ todo[t] \in Seq(Change) /\ todo[t] # <<>> /\ Busy(t) /\ Working(t) /\ ok[t]
      /\ disk' = AfterChange(e)
      /\ rec' = IF e.do = "memory" /\ on[t] \in files
                THEN [rec EXCEPT ![on[t]] = e.record] ELSE rec
      /\ \/ todo'[t] = Tail(todo[t]) /\ ok' = ok
         \/ /\ todo'[t] = <<>> /\ ok' = [ok EXCEPT ![t] = FALSE]
            /\ e.do = "rename" /\ e.must /\ e.path \notin DOMAIN disk
      /\ \A u \in Threads : u # t => todo'[u] = todo[u] /\ ok'[u] = ok[u]
      /\ UNCHANGED <<files, op, on, now, docs, touch, lost>>
  BY StepFacts
<1>3. DOMAIN ok = Threads
  BY DEF IInv, Types
<1> HIDE DEF e
<1>4. ASSUME todo'[t] = Tail(todo[t]), ok' = ok,
             NEW B, PInvOf(B), t \in B, B = A \cup {t}
      PROVE  PInv'
  <2>1. PInvOf(B)'
    BY <1>4, BegunStep
  <2>2. Actives' = B
    <3>1. \A u \in Threads : u # t => (Active(u)' <=> Active(u))
      BY <1>2 DEF Active, Working
    <3>2. Active(t)'
      <4>1. op[t].do = "rename" => Len(todo[t]) <= 6
        <5> SUFFICES ASSUME op[t].do = "rename" PROVE Len(todo[t]) <= 6
          OBVIOUS
        <5>1. t = NS
          BY <1>2, Kinds
        <5>2. PICK a, k : RenameAt(a, k)
          BY <1>2, <5>1, Renames
        <5> QED BY <5>1, <5>2 DEF RenameAt
      <4>2. Len(todo'[t]) = Len(todo[t]) - 1 /\ Len(todo[t]) \in Nat
        <5>1. Len(Tail(todo[t])) = Len(todo[t]) - 1 /\ Len(todo[t]) \in Nat
          BY <1>2, HeadTailProperties
        <5> QED BY <1>4, <5>1
      <4>3. op[t].do = "rename" => Len(todo'[t]) < 6
        BY <4>1, <4>2
      <4> QED BY <1>2, <1>4, <4>3 DEF Active, Working
    <3> QED BY <1>4, <3>1, <3>2 DEF Actives
  <2> QED BY <2>1, <2>2, Renewed
<1>5. CASE t \in A
  <2>1. ~(e.do = "rename" /\ e.must /\ e.path \notin DOMAIN disk)
    <3> SUFFICES ASSUME e.do = "rename", e.must, e.path \notin DOMAIN disk PROVE FALSE
      OBVIOUS
    <3>1. CASE op[t].do = "rename"
      <4>1. t = NS
        BY <1>2, <3>1, Kinds
      <4>2. PICK a, k : RenameAt(a, k)
        BY <1>2, <3>1, <4>1, Renames
      <4>3. k \in 0..5 /\ RenameStep(e, a, op[NS].to, [rec[on[NS]] EXCEPT !.filename = op[NS].to], k)
        BY <3>1, <4>1, <4>2, RenameHead DEF e
      <4>4. k # 0
        <5>1. Len(todo[t]) < 6 /\ Len(todo[NS]) = 6 - k
          BY <1>5, <3>1, <4>2 DEF Actives, Active, RenameAt
        <5> QED BY <4>1, <4>3, <5>1
      <4>5. k \in {1, 2, 3, 4, 5}
        BY <4>3, <4>4
      <4> QED BY <4>3, <4>5 DEF RenameStep
    <3>2. CASE op[t].do # "rename"
      <4>1. 1 \in DOMAIN todo[t] /\ e = todo[t][1] /\ e \in Range(todo[t])
        BY <1>2, TailOf DEF e
      <4>2. PICK n \in Own(t) : e = Rename(temp_path(n), filepath(n), TRUE)
        BY <1>2, <3>2, <4>1, Sources
      <4>3. ~Leaves(e, temp_path(n)) /\ n \in Names
        BY <4>2 DEF Leaves, Rename, Own
      <4>4. Copier(t)
        BY <1>1, <1>5, <4>1, <4>3 DEF PInvOf, CopyKept
      <4>5. t = NS
        BY <1>2, <4>4, Kinds
      <4>6. Sure(disk, todo[NS])
        BY <1>1, <1>5, <4>4, <4>5 DEF PInvOf, CopyKept
      <4> QED BY <1>2, <4>5, <4>6, SureStep DEF e
    <3> QED BY <3>1, <3>2
  <2>2. A = A \cup {t}
    BY <1>5
  <2> QED BY <1>1, <1>2, <1>4, <1>5, <2>1, <2>2
<1>6. CASE t \notin A
  <2>1. op[t].do = "rename" /\ ~(Len(todo[t]) < 6) /\ ~Active(t)
    BY <1>2, <1>6 DEF Actives, Active
  <2>2. t = NS
    BY <1>2, <2>1, Kinds
  <2>3. PICK a, k : RenameAt(a, k)
    BY <1>2, <2>1, <2>2, Renames
  <2>4. k = 0
    BY <2>1, <2>2, <2>3 DEF RenameAt
  <2>5. RenameAt(a, 0)
    BY <2>3, <2>4
  <2>6. e.do = "rename" /\ e.path = filepath(a) /\ e.must
    <3> DEFINE b == op[NS].to
               q2 == [rec[on[NS]] EXCEPT !.filename = b]
    <3>1. a \in Names /\ b \in Names /\ q2 \in Sidecar /\ todo[t] = RenameRest(a, b, q2, 0)
      BY <2>2, <2>5 DEF RenameAt
    <3> HIDE DEF b, q2
    <3>2. Head(RenameRest(a, b, q2, 0)) = Rename(filepath(a), filepath(b), TRUE)
      <4>1. 0 \in 0..6 /\ 0 < 6
        OBVIOUS
      <4> QED BY <3>1, <4>1, RenameLeft
    <3>3. e = Rename(filepath(a), filepath(b), TRUE)
      BY <3>1, <3>2 DEF e
    <3> QED BY <3>3 DEF Rename
  <2>7. CASE todo'[t] = Tail(todo[t]) /\ ok' = ok /\ e.path \in DOMAIN disk
    <3>1. PInvOf(A \cup {NS})
      BY <1>1, <1>2, <1>6, <2>1, <2>2, <2>5, <2>6, <2>7, Enlist
    <3> QED BY <1>4, <2>2, <2>7, <3>1
  <2>8. CASE ok' = [ok EXCEPT ![t] = FALSE] /\ e.path \notin DOMAIN disk
    <3>1. disk' = disk /\ rec' = rec
      BY <1>2, <2>6, <2>8, Effect
    <3>2. ~Active(t)'
      BY <1>3, <2>8 DEF Active
    <3>3. Touched'
      BY <1>1, <1>2 DEF PInvOf, Touched
    <3>4. \A p : Dated(p) => Dated(p)'
      BY <1>2, DatedStays
    <3> QED BY <1>2, <2>1, <3>1, <3>2, <3>3, <3>4, Unbegun
  <2>9. ok' = ok => e.path \in DOMAIN disk
    <3> SUFFICES ASSUME ok' = ok, e.path \notin DOMAIN disk PROVE FALSE
      OBVIOUS
    <3>1. ok' = [ok EXCEPT ![t] = FALSE]
      BY <2>6 DEF Step, e
    <3> QED BY <1>2, <1>3, <3>1
  <2> QED BY <1>2, <2>7, <2>8, <2>9
<1> QED BY <1>5, <1>6

-----------------------------------------------------------------------------
(* A request that is done *)

\* What nothing is left of.
LEMMA GoneIsGone ==
    ASSUME NamesApart, IInv, NEW A, PInvOf(A), NEW t \in A, todo[t] = <<>>, NEW G, Concluded(t, G), NEW g \in G
    PROVE  /\ \A p \in DOMAIN disk : IsMeta(p) /\ disk[p] # Empty => disk[p].filename # g
           /\ \A u \in A : g \in touch[u] => u = t
           /\ \A p : ~Ref(A \ {t}, g, p)'
<1>1. g \in Names /\ g \in touch[t] /\ g \notin lost /\ t \in Threads /\ A \subseteq Threads
      /\ metapath(g) \notin DOMAIN disk
  BY DEF Concluded, Own, PInvOf, Begun
<1>2. \A u \in A : g \in touch[u] => u = t
  BY <1>1, SoleWorker
<1>3. ASSUME NEW p \in DOMAIN disk, IsMeta(p), disk[p] # Empty, disk[p].filename = g PROVE FALSE
  <2>1. p = metapath(g) \/ Between(g, p)
    BY <1>1, <1>3 DEF IInv, Sidecars, Good
  <2>2. ~Between(g, p)
    <3> SUFFICES ASSUME Between(g, p) PROVE FALSE
      OBVIOUS
    <3>1. NS \in Threads /\ g \in touch[NS] /\ Len(todo[NS]) \in 2..4
      BY DEF Between, Threads
    <3>2. NS = t
      BY <1>1, <3>1, SoleWorker
    <3>3. Len(todo[NS]) = 0
      BY <3>2
    <3> QED BY <3>1, <3>3
  <2> QED BY <1>1, <1>3, <2>1, <2>2
<1>4. ASSUME NEW p, Ref(A \ {t}, g, p)' PROVE FALSE
  <2>1. \A r \in files' : rec'[r].filename # g
    BY DEF Concluded
  <2>2. disk' = disk /\ \A u \in A \ {t} : touch'[u] = touch[u]
    BY <1>1 DEF Concluded
  <2> QED BY <1>2, <1>3, <1>4, <2>1, <2>2 DEF Ref
<1> QED BY <1>2, <1>3, <1>4

LEMMA ConcludeFacts ==
    ASSUME NamesApart, IInv, NEW A, PInvOf(A), NEW t \in A, todo[t] = <<>>, NEW G, Concluded(t, G)
    PROVE  /\ t \in Threads /\ A \subseteq Threads /\ Working(t) /\ ok[t]
           /\ op'[t] = NoOp /\ touch'[t] = {} /\ lost \subseteq lost'
           /\ \A u \in Threads : u # t =>
                 /\ op'[u] = op[u] /\ on'[u] = on[u] /\ touch'[u] = touch[u] /\ todo'[u] = todo[u]
                 /\ Own(u)' = Own(u) /\ (Copier(u)' <=> Copier(u)) /\ (Clear(u)' => Clear(u))
           /\ \A m : Known(m) /\ m \notin G => Known(m)'
           /\ \A n \in touch[t] : n \notin lost' => Clear(t)
<1>1. t \in Threads /\ A \subseteq Threads /\ Working(t) /\ ok[t]
  BY DEF PInvOf, Begun
<1>2. DOMAIN op = Threads /\ DOMAIN on = Threads /\ DOMAIN touch = Threads
  BY DEF IInv, Types
<1>3. lost \subseteq lost' /\ \A n \in touch[t] : n \notin lost' => Clear(t)
  BY DEF Concluded
<1>4. op'[t] = NoOp /\ touch'[t] = {}
      /\ \A u \in Threads : u # t =>
            op'[u] = op[u] /\ on'[u] = on[u] /\ touch'[u] = touch[u] /\ todo'[u] = todo[u]
  BY <1>1, <1>2 DEF Concluded
<1>5. \A u \in Threads : u # t =>
          Own(u)' = Own(u) /\ (Copier(u)' <=> Copier(u)) /\ (Clear(u)' => Clear(u))
  BY <1>3, <1>4 DEF Own, Copier, Clear
<1>6. ASSUME NEW m, Known(m), m \notin G PROVE Known(m)'
  <2>1. DOMAIN docs \subseteq DOMAIN docs' \cup lost' \cup G
    BY DEF Concluded
  <2> QED BY <1>3, <1>6, <2>1 DEF Known
<1> QED BY <1>1, <1>3, <1>4, <1>5, <1>6

LEMMA ConcludeDocs ==
    ASSUME NamesApart, IInv, NEW A, PInvOf(A), NEW t \in A, todo[t] = <<>>, NEW G, Concluded(t, G)
    PROVE  DocsKept(A \ {t})'
<1>1. /\ t \in Threads /\ A \subseteq Threads /\ lost \subseteq lost'
      /\ \A u \in Threads : u # t =>
            /\ op'[u] = op[u] /\ on'[u] = on[u] /\ touch'[u] = touch[u] /\ todo'[u] = todo[u]
            /\ (Clear(u)' => Clear(u))
  BY ConcludeFacts
<1>2. /\ disk' = disk
      /\ \A n \in DOMAIN docs' \ touch[t] : n \in DOMAIN docs /\ docs'[n] = docs[n]
      /\ \A r \in files : rec[r].filename \notin Own(t) => r \in files' /\ rec'[r] = rec[r]
      /\ \A n \in DOMAIN docs' \ lost' : n \in touch[t] => Settled(n)'
  BY DEF Concluded
<1>3. ASSUME NEW n \in DOMAIN docs' \ lost', \A u \in A \ {t} : n \notin touch'[u]
      PROVE  Settled(n)'
  <2>1. CASE n \in touch[t]
    BY <1>2, <1>3, <2>1
  <2>2. CASE n \notin touch[t]
    <3>1. n \in DOMAIN docs /\ docs'[n] = docs[n] /\ n \notin lost
      BY <1>1, <1>2, <1>3, <2>2
    <3>2. \A u \in A : n \notin touch[u]
      BY <1>1, <1>3, <2>2
    <3>3. Settled(n)
      BY <3>1, <3>2 DEF PInvOf, DocsKept
    <3>4. PICK r \in files : rec[r].filename = n /\ Holds(disk, <<>>, rec[r], docs[n])
      BY <3>3 DEF Settled
    <3>5. r \in files' /\ rec'[r] = rec[r]
      BY <1>2, <2>2, <3>4 DEF Own
    <3> QED BY <1>2, <3>1, <3>3, <3>4, <3>5 DEF Settled
  <2> QED BY <2>1, <2>2
<1>4. ASSUME NEW n \in DOMAIN docs' \ lost', NEW u \in A \ {t}, n \in touch'[u], Clear(u)', op'[u].do # "delete"
      PROVE  Underway(u, n)'
  <2>1. /\ u \in Threads /\ u # t /\ n \in touch[u] /\ Clear(u) /\ op[u].do # "delete" /\ n \notin lost
        /\ Working(u) /\ ok[u]
    BY <1>1, <1>4 DEF PInvOf, Begun
  <2>2. Own(t) \cap Own(u) = {}
    BY <1>1, <2>1, Apart
  <2>3. n \notin touch[t]
    <3> SUFFICES ASSUME n \in touch[t] PROVE FALSE
      OBVIOUS
    <3>1. n \in Names
      BY <1>1, <1>4 DEF Concluded
    <3> QED BY <2>1, <2>2, <3>1 DEF Own
  <2>4. n \in DOMAIN docs \ lost /\ docs'[n] = docs[n]
    BY <1>2, <1>4, <2>1, <2>3
  <2>5. Underway(u, n)
    BY <1>4, <2>1, <2>4 DEF PInvOf, DocsKept
  <2>6. on[u] \in files /\ rec[on[u]].filename \in Own(u)
    BY <2>1, <2>4, OnListed
  <2>7. rec'[on'[u]] = rec[on[u]]
    BY <1>1, <1>2, <2>1, <2>2, <2>6
  <2> QED BY <1>1, <1>2, <2>1, <2>4, <2>5, <2>7 DEF Underway, Drafts, Final, NewName
<1> QED BY <1>3, <1>4 DEF DocsKept

LEMMA ConcludePlans ==
    ASSUME NamesApart, IInv, NEW A, PInvOf(A), NEW t \in A, todo[t] = <<>>, NEW G, Concluded(t, G)
    PROVE  /\ CreateKept(A \ {t})' /\ DeleteKept(A \ {t})' /\ RenameKept(A \ {t})'
           /\ CopyKept(A \ {t})' /\ Owned(A \ {t})'
<1> DEFINE B == A \ {t}
<1>1. /\ t \in Threads /\ A \subseteq Threads /\ lost \subseteq lost'
      /\ \A u \in Threads : u # t =>
            /\ op'[u] = op[u] /\ on'[u] = on[u] /\ touch'[u] = touch[u] /\ todo'[u] = todo[u]
            /\ Own(u)' = Own(u) /\ (Copier(u)' <=> Copier(u)) /\ (Clear(u)' => Clear(u))
      /\ \A m : Known(m) /\ m \notin G => Known(m)'
  BY ConcludeFacts
<1>2. disk' = disk /\ (t # NS => UNCHANGED <<files, rec>>)
  BY DEF Concluded
<1>3. NS \in B => /\ NS \in A /\ t # NS /\ op'[NS] = op[NS] /\ todo'[NS] = todo[NS] /\ touch'[NS] = touch[NS]
                  /\ Own(NS)' = Own(NS) /\ (Copier(NS)' <=> Copier(NS)) /\ (Clear(NS)' => Clear(NS))
                  /\ disk' = disk /\ UNCHANGED <<files, rec>>
  BY <1>1, <1>2
<1>4. CreateKept(B)' /\ DeleteKept(B)'
  BY <1>1, <1>3 DEF PInvOf, CreateKept, DeleteKept, NsAt
<1>5. RenameKept(B)'
  <2> SUFFICES ASSUME NsAt(B, "rename")', NEW a \in touch'[NS] \ {op'[NS].to}
               PROVE  /\ Known(a)'
                      /\ Clear(NS)' => Removed(disk', todo'[NS], filepath(a)) /\ Removed(disk', todo'[NS], metapath(a))
                      /\ Len(todo'[NS]) <= 2 => \A s \in files' : rec'[s].filename = a => a \in lost'
    BY DEF RenameKept
  <2>1. NsAt(A, "rename") /\ a \in touch[NS] \ {op[NS].to} /\ NS \in B
    BY <1>3 DEF NsAt
  <2>2. /\ Known(a)
        /\ Clear(NS) => Removed(disk, todo[NS], filepath(a)) /\ Removed(disk, todo[NS], metapath(a))
        /\ Len(todo[NS]) <= 2 => \A s \in files : rec[s].filename = a => a \in lost
    BY <2>1 DEF PInvOf, RenameKept
  <2>3. a \notin G
    <3>1. \A g \in G : \A u \in A : g \in touch[u] => u = t
      BY GoneIsGone
    <3> QED BY <1>3, <2>1, <3>1
  <2> QED BY <1>1, <1>3, <2>1, <2>2, <2>3
<1>6. CopyKept(B)'
  <2>1. \A u \in B : ~Copier(u)' => \A e \in Range(todo'[u]), n \in Names : Leaves(e, temp_path(n))
    BY <1>1 DEF PInvOf, CopyKept
  <2>2. NS \in B /\ Copier(NS)' =>
          /\ Sure(disk', todo'[NS])
          /\ \A n \in Own(NS)' : Removed(disk', todo'[NS], temp_path(n))
    BY <1>3 DEF PInvOf, CopyKept
  <2> QED BY <2>1, <2>2 DEF CopyKept
<1>7. Owned(B)'
  BY <1>1 DEF PInvOf, Owned
<1> QED BY <1>4, <1>5, <1>6, <1>7

LEMMA ConcludeLists ==
    ASSUME NamesApart, IInv, NEW A, PInvOf(A), NEW t \in A, todo[t] = <<>>, NEW G, Concluded(t, G)
    PROVE  RecListed(A \ {t})' /\ SideListed(A \ {t})' /\ FileListed(A \ {t})'
<1> DEFINE B == A \ {t}
<1>1. /\ t \in Threads /\ A \subseteq Threads /\ lost \subseteq lost' /\ Working(t) /\ ok[t]
      /\ \A u \in Threads : u # t =>
            /\ op'[u] = op[u] /\ on'[u] = on[u] /\ touch'[u] = touch[u] /\ todo'[u] = todo[u]
            /\ Own(u)' = Own(u)
      /\ \A m : Known(m) /\ m \notin G => Known(m)'
  BY ConcludeFacts
<1>2. /\ disk' = disk /\ \A m \in Own(t) \ G : Known(m)'
      /\ \A g \in G : (\A r \in files' : rec'[r].filename # g) /\ filepath(g) \notin DOMAIN disk
      /\ \A r \in files' : (r \in files /\ rec'[r] = rec[r]) \/ rec'[r].filename \in Own(t)
      /\ DOMAIN docs \subseteq DOMAIN docs' \cup lost' \cup G
  BY DEF Concluded
<1>3. \A g \in G : \A p \in DOMAIN disk : IsMeta(p) /\ disk[p] # Empty => disk[p].filename # g
  BY GoneIsGone
<1>4. RecListed(B)'
  <2> SUFFICES ASSUME NEW r \in files', NEW m, m = rec'[r].filename PROVE Known(m)' \/ Renamed(B, r)'
    BY DEF RecListed, Known
  <2>1. m \notin G
    BY <1>2
  <2>2. CASE m \in Own(t)
    BY <1>2, <2>1, <2>2
  <2>3. CASE m \notin Own(t)
    <3>1. r \in files /\ rec'[r] = rec[r]
      BY <1>2, <2>3
    <3>2. CASE Known(m)
      BY <1>1, <2>1, <3>2
    <3>3. CASE Renamed(A, r)
      <4>1. t # NS
        <5> SUFFICES ASSUME t = NS PROVE FALSE
          OBVIOUS
        <5>1. op[NS].do = "rename" /\ m = op[NS].to
          BY <3>1, <3>3 DEF Renamed, NsAt
        <5>2. PICK a, k : RenameAt(a, k)
          BY <1>1, <5>1, Renames
        <5> QED BY <2>3, <5>1, <5>2 DEF RenameAt
      <4> QED BY <1>1, <3>1, <3>3, <4>1 DEF Renamed, NsAt, PInvOf, Begun
    <3> QED BY <3>1, <3>2, <3>3 DEF PInvOf, RecListed
  <2> QED BY <2>2, <2>3
<1>5. SideListed(B)'
  <2>1. ASSUME NEW p \in DOMAIN disk, IsMeta(p), disk[p] # Empty, NEW m, m = disk[p].filename
        PROVE  Known(m)' \/ \E u \in B : m \in Own(u)
    <3>1. m \notin G
      BY <1>3, <2>1
    <3>2. CASE Known(m)
      BY <1>1, <3>1, <3>2
    <3>3. CASE \E u \in A : m \in Own(u)
      BY <1>2, <3>1, <3>3
    <3> QED BY <2>1, <3>2, <3>3 DEF PInvOf, SideListed
  <2>2. \A u \in B : Own(u)' = Own(u)
    BY <1>1
  <2> QED BY <1>2, <2>1, <2>2 DEF SideListed, Known, Own
<1>6. FileListed(B)'
  <2> SUFFICES ASSUME NEW p \in Loaded
               PROVE  \/ \E n \in DOMAIN docs' \cup lost' : filepath(n) = p
                      \/ \E u \in B : \E n \in touch'[u] : filepath(n) = p
    BY <1>2 DEF FileListed, Loaded
  <2>1. p \in DOMAIN disk
    BY DEF Loaded
  <2>2. CASE \E n \in DOMAIN docs \cup lost : filepath(n) = p
    <3>1. PICK n \in DOMAIN docs \cup lost : filepath(n) = p
      BY <2>2
    <3>2. n \notin G
      BY <1>2, <2>1, <3>1
    <3> QED BY <1>1, <1>2, <3>1, <3>2
  <2>3. ASSUME NEW u \in A, NEW n \in touch[u], filepath(n) = p
        PROVE  \/ \E k \in DOMAIN docs' \cup lost' : filepath(k) = p
               \/ \E v \in B : \E k \in touch'[v] : filepath(k) = p
    <3>1. CASE u # t
      BY <1>1, <2>3, <3>1
    <3>2. CASE u = t /\ n \in Own(t)
      <4>1. n \notin G
        BY <1>2, <2>1, <2>3
      <4>2. Known(n)'
        BY <1>2, <3>2, <4>1
      <4> QED BY <2>3, <4>2 DEF Known
    <3>3. CASE u = t /\ n \notin Own(t)
      <4>1. Copier(t)
        BY <2>3, <3>3 DEF PInvOf, Owned
      <4>2. PICK k \in Own(t) : n = temp_path(k)
        BY <2>3, <3>3, <4>1 DEF PInvOf, Owned
      <4>3. t = NS /\ k \in Names
        BY <1>1, <4>1, Kinds DEF Own
      <4>4. Removed(disk, <<>>, temp_path(k))
        BY <4>1, <4>2, <4>3 DEF PInvOf, CopyKept
      <4>5. temp_path(k) \notin DOMAIN disk
        BY <4>4, EndsNone
      <4>6. filepath(n) = temp_path(k)
        BY <4>2, <4>3, TempFlat
      <4> QED BY <2>1, <2>3, <4>5, <4>6
    <3> QED BY <3>1, <3>2, <3>3
  <2> QED BY <2>2, <2>3 DEF PInvOf, FileListed
<1> QED BY <1>4, <1>5, <1>6

LEMMA ConcludeCkpts ==
    ASSUME NamesApart, IInv, NEW A, PInvOf(A), NEW t \in A, todo[t] = <<>>, NEW G, Concluded(t, G)
    PROVE  CkptsApart(A \ {t})' /\ CkptsDated(A \ {t})'
<1> DEFINE B == A \ {t}
<1>1. /\ t \in Threads /\ A \subseteq Threads /\ lost \subseteq lost' /\ Working(t) /\ ok[t]
      /\ \A u \in Threads : u # t =>
            /\ op'[u] = op[u] /\ touch'[u] = touch[u] /\ todo'[u] = todo[u] /\ (Clear(u)' => Clear(u))
      /\ \A n \in touch[t] : n \notin lost' => Clear(t)
  BY ConcludeFacts
<1>2. /\ disk' = disk /\ now' = now
      /\ \A r \in files' : \/ r \in files /\ rec'[r] = rec[r]
                           \/ rec'[r].filename \in Own(t) /\ PathsOf(rec'[r]) = {}
      /\ \A m, k \in Own(t) : m # k /\ m \notin lost' => m \in G \/ k \in G
  BY DEF Concluded
<1>3. ASSUME NEW m, NEW p, Ref(B, m, p)' PROVE Ref(A, m, p)
  <2>1. CASE \E r \in files' : rec'[r].filename = m /\ p \in PathsOf(rec'[r])
    BY <1>2, <2>1 DEF Ref
  <2>2. CASE \E x \in DOMAIN disk :
               IsMeta(x) /\ disk[x] # Empty /\ disk[x].filename = m /\ p \in PathsOf(disk[x])
    BY <2>2 DEF Ref
  <2>3. CASE \E u \in B : m \in touch'[u] /\ Pending(u, p)'
    <3>1. PICK u \in B : m \in touch'[u] /\ Pending(u, p)'
      BY <2>3
    <3>2. m \in touch[u] /\ Pending(u, p)
      BY <1>1, <3>1 DEF Pending
    <3> QED BY <3>2 DEF Ref
  <2> QED BY <1>2, <1>3, <2>1, <2>2, <2>3 DEF Ref
<1>4. CkptsDated(B)'
  <2>1. \A p : Dated(p)' <=> Dated(p)
    BY <1>2 DEF Dated
  <2> QED BY <1>3, <2>1 DEF PInvOf, CkptsDated
<1>5. CkptsApart(B)'
  <2> SUFFICES ASSUME NEW m \in Names, NEW k \in Names, m # k, Clean(B, m)', ~Together(B, m, k)',
                      NEW p, Ref(B, m, p)', Ref(B, k, p)'
               PROVE  FALSE
    BY DEF CkptsApart
  <2>1. Ref(A, m, p) /\ Ref(A, k, p) /\ m \notin lost'
    BY <1>3 DEF Clean
  <2>2. Clean(A, m)
    <3>1. m \notin lost
      BY <1>1, <2>1
    <3>2. ASSUME NEW u \in A, m \in touch[u] PROVE Clear(u)
      <4>1. CASE u = t
        BY <1>1, <2>1, <3>2, <4>1
      <4>2. CASE u # t
        BY <1>1, <3>2, <4>2 DEF Clean
      <4> QED BY <4>1, <4>2
    <3> QED BY <3>1, <3>2 DEF Clean
  <2>3. \E u \in A : {m, k} \subseteq touch[u]
    BY <2>1, <2>2 DEF PInvOf, CkptsApart, Together
  <2>4. {m, k} \subseteq touch[t]
    BY <1>1, <2>3 DEF Together
  <2>5. m \in G \/ k \in G
    BY <1>2, <2>1, <2>4 DEF Own
  <2> QED BY <2>5, GoneIsGone
<1> QED BY <1>4, <1>5

\* The end of a request that has not failed.
LEMMA Conclude ==
    ASSUME NamesApart, IInv, PInv, NEW t \in Threads, Active(t), todo[t] = <<>>,
           NEW G, Concluded(t, G)
    PROVE  PInv'
<1> SUFFICES ASSUME NEW A, A = Actives PROVE PInv'
  OBVIOUS
<1> DEFINE B == A \ {t}
<1>1. PInvOf(A) /\ t \in A
  BY DEF PInv, Actives
<1>2. /\ t \in Threads /\ A \subseteq Threads /\ touch'[t] = {}
      /\ \A u \in Threads : u # t =>
            /\ op'[u] = op[u] /\ on'[u] = on[u] /\ touch'[u] = touch[u] /\ todo'[u] = todo[u]
  BY <1>1, ConcludeFacts
<1>3. ok' = ok /\ lost' \subseteq lost \cup touch[t]
  BY DEF Concluded
<1>4. Actives' = B
  <2>1. ~Active(t)' /\ \A u \in Threads : u # t => (Active(u)' <=> Active(u))
    BY <1>2, <1>3 DEF Active, Working
  <2> QED BY <2>1 DEF Actives
<1>5. Begun(B)'
  <2>1. \A u \in B : Working(u)' /\ ok'[u]
    BY <1>1, <1>2, <1>3 DEF PInvOf, Begun, Working
  <2> QED BY <1>2, <1>4, <2>1 DEF Begun, Actives
<1>6. Touched'
  BY <1>1, <1>2, <1>3 DEF PInvOf, Touched
<1>7. PInvOf(B)'
  BY <1>1, <1>5, <1>6, ConcludeDocs, ConcludePlans, ConcludeLists, ConcludeCkpts DEF PInvOf
<1> QED BY <1>4, <1>7, Renewed

\* What Done leaves, whatever the request.
LEMMA DoneStart ==
    ASSUME NamesApart, IInv, NEW t \in Threads, Done(t), ok[t]
    PROVE  /\ Active(t) /\ t \in Actives /\ Busy(t) /\ Working(t) /\ todo[t] = <<>> /\ on[t] \in Recs
           /\ op' = [op EXCEPT ![t] = NoOp] /\ on' = [on EXCEPT ![t] = NoRec]
           /\ touch' = [touch EXCEPT ![t] = {}]
           /\ UNCHANGED <<disk, todo, ok, now>>
           /\ lost' = IF Clear(t) THEN lost ELSE lost \cup touch[t]
           /\ lost \subseteq lost'
<1>1. /\ Busy(t) /\ Working(t) /\ todo[t] = <<>> /\ on[t] \in Recs
      /\ on' = [on EXCEPT ![t] = NoRec] /\ op' = [op EXCEPT ![t] = NoOp]
      /\ touch' = [touch EXCEPT ![t] = {}]
      /\ UNCHANGED <<disk, todo, ok, now>>
      /\ lost \subseteq lost'
  BY DoneFacts DEF Ended
<1>2. lost' = IF Clear(t) THEN lost ELSE lost \cup touch[t]
  BY DEF Done, Clear
<1>3. Active(t)
  <2>1. Len(<<>>) < 6
    OBVIOUS
  <2> QED BY <1>1, <2>1 DEF Active
<1> QED BY <1>1, <1>2, <1>3 DEF Actives

LEMMA DoneCreate ==
    ASSUME NamesApart, IInv, PInv, NEW t \in Threads, Done(t), ok[t], op[t].do = "create"
    PROVE  Concluded(t, {})
<1> SUFFICES ASSUME NEW n, n = op[NS].filename PROVE Concluded(t, {})
  OBVIOUS
<1> DEFINE u == op[NS].owner
           r == on[NS]
<1>1. /\ t \in Actives /\ Busy(t) /\ Working(t) /\ todo[t] = <<>> /\ on[t] \in Recs
      /\ op' = [op EXCEPT ![t] = NoOp] /\ on' = [on EXCEPT ![t] = NoRec]
      /\ touch' = [touch EXCEPT ![t] = {}]
      /\ UNCHANGED <<disk, todo, ok, now>>
      /\ lost' = IF Clear(t) THEN lost ELSE lost \cup touch[t]
      /\ lost \subseteq lost'
  BY DoneStart
<1>2. t = NS /\ op[NS] \in Creates
  BY <1>1, NoOpApart DEF IInv, Requests, Commands, Deletes
<1>3. n \in Names /\ u \in Owners
  BY <1>2 DEF Creates
<1>4. ok[NS] /\ touch[NS] = {n}
  BY <1>1, <1>2 DEF Locking, IInv, Handlers, Handler
<1>5. n \notin DOMAIN docs /\ (\A x \in files : rec[x].filename # n) /\ r \notin files
  BY <1>1, <1>2 DEF IInv, Creating
<1>6. /\ files' = files \cup {r}
      /\ rec' = [rec EXCEPT ![r] = NewRecord(n, u)]
      /\ docs' = WithFile(Restrict(docs, DOMAIN docs \ {n}), n, NewDoc(u))
  BY <1>2, <1>4 DEF Done
<1>7. n \notin lost => /\ Ends(disk, <<>>, metapath(n), NewRecord(n, u))
                       /\ Ends(disk, <<>>, filepath(n), Empty)
  BY <1>1, <1>2 DEF PInv, PInvOf, CreateKept, NsAt
<1>8. /\ r \in Recs /\ r = on[t] /\ files \subseteq Recs
      /\ rec \in [Recs -> FileRecord] /\ DOMAIN docs \subseteq Names
  BY <1>1, <1>2 DEF IInv, Types, r
<1> HIDE DEF u, r
<1>9. Own(t) = {n} /\ touch[t] = {n}
  BY <1>2, <1>3, <1>4 DEF Own
<1>10. rec'[r] = NewRecord(n, u) /\ \A x \in files : rec'[x] = rec[x] /\ x \in files'
  BY <1>5, <1>6, <1>8
<1>11. /\ DOMAIN docs' = DOMAIN docs \cup {n} /\ docs'[n] = NewDoc(u)
       /\ \A x \in DOMAIN docs : x # n => docs'[x] = docs[x]
  BY <1>6 DEF WithFile, Restrict
<1>12. NewRecord(n, u).filename = n /\ PathsOf(NewRecord(n, u)) = {}
  BY DEF NewRecord, PathsOf
<1>13. ASSUME n \notin lost PROVE Settled(n)'
  <2>1. NewDoc(u) \in Doc
    <3>1. u \in Owners /\ {} \in SUBSET Readers /\ NoText \in Texts \cup {NoText}
          /\ <<>> \in Seq(Texts \cup {NoText}) /\ <<>> \in Seq(Tags \X (Texts \cup {NoText}))
      BY <1>3
    <3> QED BY <3>1 DEF NewDoc, Doc
  <2>2. Holds(disk, <<>>, NewRecord(n, u), NewDoc(u))
    <3>1. DOMAIN NewRecord(n, u).checkpoints = {} /\ Len(NewRecord(n, u).checkpoints) = 0
          /\ Len(NewDoc(u).checkpoints) = 0
      BY DEF NewRecord, NewDoc
    <3>2. Empty = Text(NewDoc(u).text)
      BY DEF Empty, NewDoc
    <3>3. /\ NewRecord(n, u).owner = u /\ NewRecord(n, u).acl = {} /\ ~NewRecord(n, u).undo_available
          /\ NewDoc(u).owner = u /\ NewDoc(u).acl = {} /\ NewDoc(u).undo = <<>>
      BY DEF NewRecord, NewDoc
    <3>4. Ends(disk, <<>>, metapath(n), NewRecord(n, u)) /\ Ends(disk, <<>>, filepath(n), Text(NewDoc(u).text))
      BY <1>7, <1>13, <3>2
    <3> QED BY <1>12, <3>1, <3>3, <3>4 DEF Holds
  <2>3. r \in files' /\ rec'[r] = NewRecord(n, u) /\ disk' = disk /\ docs'[n] = NewDoc(u)
    BY <1>1, <1>6, <1>10, <1>11
  <2>4. Holds(disk', <<>>, rec'[r], docs'[n]) /\ rec'[r].filename = n /\ docs'[n] \in Doc
    BY <1>12, <2>1, <2>2, <2>3
  <2> QED BY <2>3, <2>4 DEF Settled
<1>14. \A m \in Own(t) : Known(m)'
  BY <1>9, <1>11 DEF Known
<1>15. \A x \in files' : \/ x \in files /\ rec'[x] = rec[x]
                         \/ rec'[x].filename \in Own(t) /\ PathsOf(rec'[x]) = {}
  BY <1>6, <1>9, <1>10, <1>12
<1>16. /\ DOMAIN docs' \subseteq Names /\ DOMAIN docs \subseteq DOMAIN docs' \cup lost' \cup {}
       /\ \A x \in DOMAIN docs' \ touch[t] : x \in DOMAIN docs /\ docs'[x] = docs[x]
  BY <1>3, <1>8, <1>9, <1>11
<1>17. \A x \in DOMAIN docs' \ lost' : x \in touch[t] => Settled(x)'
  BY <1>1, <1>9, <1>13
<1>18. \A m, k \in Own(t) : m # k /\ m \notin lost' => m \in {} \/ k \in {}
  BY <1>9
<1> QED BY <1>1, <1>2, <1>10, <1>14, <1>15, <1>16, <1>17, <1>18 DEF Concluded

LEMMA DoneDelete ==
    ASSUME NamesApart, IInv, PInv, NEW t \in Threads, Done(t), ok[t], op[t].do = "delete"
    PROVE  Concluded(t, Own(t) \ lost)
<1> SUFFICES ASSUME NEW n, n = op[NS].filename PROVE Concluded(t, Own(t) \ lost)
  OBVIOUS
<1> DEFINE r == on[NS]
<1>1. /\ t \in Actives /\ Busy(t) /\ Working(t) /\ todo[t] = <<>> /\ on[t] \in Recs
      /\ op' = [op EXCEPT ![t] = NoOp] /\ on' = [on EXCEPT ![t] = NoRec]
      /\ touch' = [touch EXCEPT ![t] = {}]
      /\ UNCHANGED <<disk, todo, ok, now>>
      /\ lost' = IF Clear(t) THEN lost ELSE lost \cup touch[t]
      /\ lost \subseteq lost'
  BY DoneStart
<1>2. t = NS /\ touch[NS] = {n} /\ n \in Names /\ Own(t) = {n}
  <2>1. t = NS
    BY <1>1, NoOpApart DEF IInv, Requests
  <2>2. touch[t] = {op[t].filename} /\ op[t].filename \in Names /\ Own(t) = {op[t].filename}
    BY <1>1, Kinds DEF Locking
  <2> QED BY <2>1, <2>2
<1>3. r \in files /\ rec[r].filename = n
  BY <1>1, <1>2 DEF IInv, Deleting
<1>4. /\ files' = files \ {r}
      /\ rec' = [rec EXCEPT ![r] = NewRecord(<<>>, NoUser)]
      /\ docs' = IF n \notin DOMAIN docs THEN docs ELSE Restrict(docs, DOMAIN docs \ {n})
  BY <1>2 DEF Done
<1>5. n \notin lost => Removed(disk, <<>>, filepath(n)) /\ Removed(disk, <<>>, metapath(n))
  BY <1>1, <1>2 DEF PInv, PInvOf, DeleteKept, NsAt
<1>6. /\ r \in Recs /\ files \subseteq Recs
      /\ rec \in [Recs -> FileRecord] /\ DOMAIN docs \subseteq Names
  BY <1>1, <1>2 DEF IInv, Types, r
<1> HIDE DEF r
<1>7. \A x \in files : x # r => rec'[x] = rec[x] /\ x \in files'
  BY <1>4, <1>6
<1>8. lost' = lost
  BY <1>1, <1>2 DEF Clear
<1>9. /\ DOMAIN docs' = DOMAIN docs \ {n}
      /\ \A x \in DOMAIN docs' : docs'[x] = docs[x]
  BY <1>4 DEF Restrict
<1>10. \A m \in Own(t) \ (Own(t) \ lost) : Known(m)'
  BY <1>2, <1>8 DEF Known
<1>11. ASSUME NEW g \in Own(t) \ lost
       PROVE  /\ \A x \in files' : rec'[x].filename # g
              /\ filepath(g) \notin DOMAIN disk /\ metapath(g) \notin DOMAIN disk
  <2>1. g = n /\ n \notin lost
    BY <1>2, <1>11
  <2>2. \A x \in files : rec[x].filename = n => x = r
    BY <1>2, <1>3, <2>1 DEF IInv, Unique, Good
  <2>3. filepath(n) \notin DOMAIN disk /\ metapath(n) \notin DOMAIN disk
    BY <1>5, <2>1, EndsNone
  <2> QED BY <1>4, <1>7, <2>1, <2>2, <2>3
<1>12. \A x \in files' : \/ x \in files /\ rec'[x] = rec[x]
                         \/ rec'[x].filename \in Own(t) /\ PathsOf(rec'[x]) = {}
  BY <1>4, <1>7
<1>13. \A x \in files : rec[x].filename \notin Own(t) => x \in files' /\ rec'[x] = rec[x]
  BY <1>2, <1>3, <1>7
<1>14. /\ DOMAIN docs' \subseteq Names /\ DOMAIN docs \subseteq DOMAIN docs' \cup lost' \cup (Own(t) \ lost)
       /\ \A x \in DOMAIN docs' \ touch[t] : x \in DOMAIN docs /\ docs'[x] = docs[x]
  BY <1>2, <1>6, <1>8, <1>9
<1>15. \A x \in DOMAIN docs' \ lost' : x \in touch[t] => Settled(x)'
  BY <1>2, <1>9
<1>16. Own(t) \ lost \subseteq Own(t) \ lost' /\ \A m, k \in Own(t) : m = k
  BY <1>2, <1>8
<1> HIDE DEF Known, Settled, Own, Clear
<1> QED BY <1>1, <1>2, <1>10, <1>11, <1>12, <1>13, <1>14, <1>15, <1>16 DEF Concluded

\* With nothing left to do the record is the one that was left.
LEMMA FinalNone ==
    ASSUME NEW q0, NEW q, FinalOf(<<>>, q0, q)
    PROVE  q = q0
<1>1. DOMAIN <<>> = {}
  OBVIOUS
<1> QED BY <1>1 DEF FinalOf

\* A name of Names of which a file may be there is known itself.
LEMMA KnownName ==
    ASSUME NamesApart, IInv, Touched, NEW a \in Names, Known(a)
    PROVE  a \in DOMAIN docs \cup lost
<1> SUFFICES ASSUME NEW k \in lost, filepath(k) = filepath(a) PROVE k = a
  BY DEF Known
<1>1. filepath(a) \in FlatPath /\ filepath(a) # <<>>
  BY Paths DEF FlatPath
<1>2. CASE k \in Names
  BY <1>2 DEF NamesApart
<1>3. CASE k \in Temps
  <2>1. PICK n \in Names : k = temp_path(n)
    BY <1>3 DEF Temps
  <2>2. filepath(k) = temp_path(n) /\ filepath(a) # temp_path(n)
    BY <2>1, TempFlat, Paths
  <2> QED BY <2>2
<1>4. CASE k = <<>>
  <2>1. DOMAIN filepath(<<>>) = {}
    <3>1. DOMAIN <<>> = {}
      OBVIOUS
    <3> QED BY <3>1, Zenon DEF filepath, flatten_logical_path
  <2>2. \A p \in Seq(Token) : p # <<>> => DOMAIN p # {}
    OBVIOUS
  <2>3. DOMAIN filepath(a) # {}
    BY <1>1, <2>2 DEF FlatPath
  <2> QED BY <1>4, <2>1, <2>3
<1> QED BY <1>2, <1>3, <1>4 DEF Touched

LEMMA DoneRename ==
    ASSUME NamesApart, IInv, PInv, NEW t \in Threads, Done(t), ok[t], op[t].do = "rename"
    PROVE  \E G : Concluded(t, G)
<1>1. /\ t \in Actives /\ Busy(t) /\ Working(t) /\ todo[t] = <<>> /\ on[t] \in Recs
      /\ op' = [op EXCEPT ![t] = NoOp] /\ on' = [on EXCEPT ![t] = NoRec]
      /\ touch' = [touch EXCEPT ![t] = {}]
      /\ UNCHANGED <<disk, todo, ok, now>>
      /\ lost' = IF Clear(t) THEN lost ELSE lost \cup touch[t]
      /\ lost \subseteq lost'
  BY DoneStart
<1>2. t = NS
  BY <1>1, Kinds
<1> SUFFICES ASSUME NEW b, b = op[NS].to, NEW r, r = on[NS] PROVE \E G : Concluded(t, G)
  OBVIOUS
<1>3. PICK a, k : RenameAt(a, k)
  BY <1>1, <1>2, Renames
<1>4. /\ a \in Names /\ b \in Names /\ a # b /\ touch[NS] = {a, b} /\ Own(NS) = {a, b}
      /\ k \in 0..6 /\ Len(todo[NS]) = 6 - k /\ r \in files
      /\ rec[r].filename = (IF k >= 4 THEN b ELSE a)
  BY <1>3 DEF RenameAt
<1>5. k = 6 /\ Len(todo[NS]) <= 2 /\ rec[r].filename = b
  <2>1. Len(<<>>) = 0
    OBVIOUS
  <2>2. k = 6
    BY <1>1, <1>2, <1>4, <2>1
  <2> QED BY <1>1, <1>2, <1>4, <2>1, <2>2
<1>6. b \notin DOMAIN docs /\ DOMAIN docs \subseteq Names
  BY <1>1, <1>2, Renames DEF IInv, Types
<1>7. Promise(docs[a], op[NS]) = docs[a]
  BY <1>2 DEF Promise
<1>8. /\ UNCHANGED <<files, rec>>
      /\ docs' = IF a \notin DOMAIN docs THEN docs
                 ELSE WithFile(Restrict(docs, DOMAIN docs \ {a}), b, docs[a])
  <2> DEFINE new == rec[on[NS]].filename
             was == CHOOSE n \in touch[NS] : n # op[NS].to
  <2>1. was = a /\ new = b
    BY <1>4, <1>5
  <2>2. /\ UNCHANGED <<files, rec>>
        /\ docs' = IF was \notin DOMAIN docs THEN docs
                   ELSE WithFile(Restrict(docs, DOMAIN docs \ {was}), new,
                                 IF was \in lost THEN docs[was] ELSE Promise(docs[was], op[NS]))
    BY <1>2 DEF Done
  <2> HIDE DEF was, new
  <2> QED BY <1>7, <2>1, <2>2
<1>9. /\ a \notin DOMAIN docs => docs' = docs
      /\ a \in DOMAIN docs =>
            /\ DOMAIN docs' = (DOMAIN docs \ {a}) \cup {b} /\ docs'[b] = docs[a]
            /\ \A x \in DOMAIN docs : x # a => docs'[x] = docs[x]
  BY <1>6, <1>8 DEF WithFile, Restrict
<1>10. /\ Known(a)
       /\ Clear(NS) => Removed(disk, <<>>, filepath(a)) /\ Removed(disk, <<>>, metapath(a))
       /\ \A s \in files : rec[s].filename = a => a \in lost
  <2>1. RenameKept(Actives) /\ NsAt(Actives, "rename") /\ a \in touch[NS] \ {op[NS].to}
    BY <1>1, <1>2, <1>4 DEF PInv, PInvOf, NsAt
  <2> QED BY <1>1, <1>2, <1>5, <2>1 DEF RenameKept
<1>11. a \in DOMAIN docs \cup lost
  BY <1>4, <1>10, KnownName DEF PInv, PInvOf
<1>12. Clear(t) => a \notin lost /\ b \notin lost /\ lost' = lost
  BY <1>1, <1>2, <1>4 DEF Clear
<1>13. ~Clear(t) => a \in lost' /\ b \in lost'
  BY <1>1, <1>2, <1>4
<1> DEFINE G == IF Clear(t) THEN {a} ELSE {}
<1>14. touch[t] = {a, b} /\ Own(t) = {a, b}
  BY <1>2, <1>4
<1>15. G \subseteq Own(t) \ lost'
  BY <1>12, <1>14
<1>16. ASSUME NEW m \in Own(t) \ G PROVE Known(m)'
  <2>1. CASE ~Clear(t)
    BY <1>13, <1>14, <1>16, <2>1 DEF Known
  <2>2. CASE Clear(t)
    <3>1. m = b /\ b \in DOMAIN docs'
      BY <1>9, <1>11, <1>12, <1>14, <1>16, <2>2
    <3> QED BY <3>1 DEF Known
  <2> QED BY <2>1, <2>2
<1>17. \A m, x \in Own(t) : m # x /\ m \notin lost' => m \in G \/ x \in G
  BY <1>13, <1>14
<1>18. ASSUME NEW g \in G
       PROVE  /\ \A x \in files' : rec'[x].filename # g
              /\ filepath(g) \notin DOMAIN disk /\ metapath(g) \notin DOMAIN disk
  <2>1. g = a /\ Clear(t) /\ Clear(NS)
    BY <1>2, <1>18
  <2>2. filepath(a) \notin DOMAIN disk /\ metapath(a) \notin DOMAIN disk
    BY <1>10, <2>1, EndsNone
  <2> QED BY <1>8, <1>10, <1>12, <2>1, <2>2
<1>19. /\ DOMAIN docs' \subseteq Names /\ DOMAIN docs \subseteq DOMAIN docs' \cup lost' \cup G
       /\ \A x \in DOMAIN docs' \ touch[t] : x \in DOMAIN docs /\ docs'[x] = docs[x]
  BY <1>4, <1>6, <1>9, <1>13, <1>14
<1>20. ASSUME NEW n \in DOMAIN docs' \ lost', n \in touch[t] PROVE Settled(n)'
  <2>1. n = b /\ a \in DOMAIN docs
    BY <1>4, <1>6, <1>9, <1>14, <1>20
  <2>2. Clear(t) /\ a \in DOMAIN docs \ lost
    BY <1>12, <1>13, <1>20, <2>1
  <2>3. Underway(t, a)
    BY <1>1, <1>14, <2>2 DEF PInv, PInvOf, DocsKept
  <2>4. Promise(docs[a], op[t]) = docs[a]
    BY <1>2, <1>7
  <2>5. docs[a] \in Doc
    BY <2>3, <2>4 DEF Underway
  <2>6. PICK q : Final(t, q) /\ Holds(disk, <<>>, q, docs[a])
    BY <1>1, <2>3, <2>4 DEF Underway
  <2>7. q = rec[r]
    BY <1>1, <1>2, <2>6, FinalNone DEF Final
  <2>8. disk' = disk /\ docs'[n] = docs[a] /\ rec'[r] = rec[r] /\ r \in files'
    BY <1>1, <1>4, <1>8, <1>9, <2>1
  <2>9. Holds(disk', <<>>, rec'[r], docs'[n]) /\ rec'[r].filename = n /\ docs'[n] \in Doc
    BY <1>5, <2>1, <2>5, <2>6, <2>7, <2>8
  <2> QED BY <2>8, <2>9 DEF Settled
<1> HIDE DEF G
<1>21. (t # NS => UNCHANGED <<files, rec>>)
       /\ (\A x \in files : rec[x].filename \notin Own(t) => x \in files' /\ rec'[x] = rec[x])
       /\ (\A x \in files' : \/ x \in files /\ rec'[x] = rec[x]
                             \/ rec'[x].filename \in Own(t) /\ PathsOf(rec'[x]) = {})
  BY <1>8
<1>22. Concluded(t, G)
  BY <1>1, <1>15, <1>16, <1>17, <1>18, <1>19, <1>20, <1>21 DEF Concluded
<1> QED BY <1>22

LEMMA DoneLocking ==
    ASSUME NamesApart, IInv, PInv, NEW t \in Threads, Done(t), ok[t],
           op[t].do \notin {"create", "delete", "rename"}
    PROVE  Concluded(t, {})
<1> SUFFICES ASSUME NEW r, r = on[t], NEW n, n = rec[r].filename PROVE Concluded(t, {})
  OBVIOUS
<1>1. /\ t \in Actives /\ Busy(t) /\ Working(t) /\ todo[t] = <<>> /\ r \in Recs
      /\ op' = [op EXCEPT ![t] = NoOp] /\ on' = [on EXCEPT ![t] = NoRec]
      /\ touch' = [touch EXCEPT ![t] = {}]
      /\ UNCHANGED <<disk, todo, ok, now>>
      /\ lost' = IF Clear(t) THEN lost ELSE lost \cup touch[t]
      /\ lost \subseteq lost'
  BY DoneStart
<1>2. Locking(t)
  BY <1>1 DEF Locking
<1>3. /\ UNCHANGED <<files, rec>>
      /\ docs' = IF n \notin DOMAIN docs THEN docs
                 ELSE WithFile(Restrict(docs, DOMAIN docs \ {n}), n,
                               IF n \in lost THEN docs[n] ELSE Promise(docs[n], op[t]))
  BY DEF Done
<1>4. /\ DOMAIN docs' = DOMAIN docs
      /\ \A x \in DOMAIN docs : x # n => docs'[x] = docs[x]
      /\ n \in DOMAIN docs \ lost => docs'[n] = Promise(docs[n], op[t])
  BY <1>3 DEF WithFile, Restrict
<1>5. DOMAIN docs \subseteq Names
  BY DEF IInv, Types
<1>6. /\ r \in files => n \in Names /\ Own(t) = {n}
      /\ r \notin files => n \notin Names /\ \A m \in Own(t) : m \in lost
  <2>1. r \in files => n \in Names /\ Own(t) = {n}
    BY <1>1, <1>2 DEF IInv, Records, RecordOf
  <2>2. r \notin files => n = <<>> /\ \A m \in Own(t) : ~Good(m)
    BY <1>1, <1>2 DEF IInv, Records, RecordOf
  <2>3. <<>> \notin Names
    BY NameTypes
  <2> QED BY <2>1, <2>2, <2>3 DEF Good, Own
<1>7. ASSUME NEW m \in Own(t) PROVE Known(m)'
  <2>1. Known(m)
    <3>1. CASE r \in files
      <4>1. m = n
        BY <1>6, <1>7, <3>1
      <4>2. ~Renamed(Actives, r)
        <5> SUFFICES ASSUME NsAt(Actives, "rename"), on[NS] = r PROVE FALSE
          BY DEF Renamed
        <5>1. Working(NS) /\ NS \in Threads /\ op[NS].do = "rename"
          BY DEF NsAt, Actives, Active
        <5>2. Locking(NS)
          BY <5>1, Kinds DEF Locking
        <5>3. file_lock[r] = NS /\ file_lock[r] = t
          BY <1>1, <1>2, <5>1, <5>2 DEF IInv, Handlers, Handler
        <5> QED BY <5>1, <5>3
      <4> QED BY <3>1, <4>1, <4>2 DEF PInv, PInvOf, RecListed
    <3>2. CASE r \notin files
      BY <1>6, <1>7, <3>2 DEF Known
    <3> QED BY <3>1, <3>2
  <2> QED BY <1>1, <1>4, <2>1 DEF Known
<1>8. ASSUME NEW m \in Own(t), m \notin lost PROVE \A k \in Own(t) : k = m
  BY <1>6, <1>8
<1>9. ASSUME NEW x \in DOMAIN docs' \ touch[t] PROVE x \in DOMAIN docs /\ docs'[x] = docs[x]
  <2>1. x # n
    BY <1>4, <1>5, <1>6, <1>9 DEF Own
  <2> QED BY <1>4, <1>9, <2>1
<1>10. ASSUME NEW x \in DOMAIN docs' \ lost', x \in touch[t] PROVE Settled(x)'
  <2>1. x \in DOMAIN docs \ lost /\ x \in Own(t) /\ Clear(t)
    BY <1>1, <1>4, <1>5, <1>10 DEF Own
  <2>2. r \in files /\ x = n
    BY <1>6, <2>1
  <2>3. Underway(t, x)
    BY <1>1, <1>10, <2>1 DEF PInv, PInvOf, DocsKept
  <2>4. Promise(docs[x], op[t]) \in Doc
    BY <2>3 DEF Underway
  <2>5. PICK q : Final(t, q) /\ Holds(disk, <<>>, q, Promise(docs[x], op[t]))
    BY <1>1, <2>3 DEF Underway
  <2>6. q = rec[r]
    BY <1>1, <2>5, FinalNone DEF Final
  <2>7. disk' = disk /\ docs'[x] = Promise(docs[x], op[t]) /\ rec'[r] = rec[r] /\ r \in files'
    BY <1>1, <1>3, <1>4, <2>1, <2>2
  <2>8. Holds(disk', <<>>, rec'[r], docs'[x]) /\ rec'[r].filename = x /\ docs'[x] \in Doc
    BY <2>2, <2>4, <2>5, <2>6, <2>7
  <2> QED BY <2>7, <2>8 DEF Settled
<1>11. \A m, k \in Own(t) : m # k /\ m \notin lost' => m \in {} \/ k \in {}
  BY <1>1, <1>8
<1> QED BY <1>1, <1>3, <1>4, <1>5, <1>7, <1>9, <1>10, <1>11 DEF Concluded

LEMMA DoneFailed ==
    ASSUME NamesApart, IInv, PInv, NEW t \in Threads, Done(t), ~ok[t]
    PROVE  PInv'
<1>1. /\ Busy(t) /\ Working(t) /\ todo[t] = <<>>
      /\ on' = [on EXCEPT ![t] = NoRec] /\ op' = [op EXCEPT ![t] = NoOp]
      /\ touch' = [touch EXCEPT ![t] = {}]
      /\ UNCHANGED <<disk, todo, ok, now>> /\ lost \subseteq lost'
  BY DoneFacts DEF Ended
<1>2. Locking(t)
  BY <1>1 DEF IInv, Handlers, Handler
<1>3. UNCHANGED <<disk, files, rec, docs>>
  BY <1>1, <1>2 DEF Done, Locking
<1>4. /\ \A v \in Threads : v # t =>
            op'[v] = op[v] /\ on'[v] = on[v] /\ todo'[v] = todo[v] /\ touch'[v] = touch[v] /\ ok'[v] = ok[v]
      /\ touch'[t] = {}
  BY <1>1 DEF IInv, Types
<1>5. Touched'
  <2>1. lost' \subseteq lost \cup touch[t]
    BY DEF Done
  <2> QED BY <1>4, <2>1 DEF PInv, PInvOf, Touched
<1>6. \A p : Dated(p) => Dated(p)'
  BY <1>1 DEF Dated
<1>7. ~Active(t) /\ ~Active(t)'
  BY <1>4 DEF Active, Working
<1> QED BY <1>1, <1>3, <1>4, <1>5, <1>6, <1>7, Unbegun

LEMMA EndKept ==
    ASSUME NamesApart, IInv, PInv, NEW t \in Threads, Done(t)
    PROVE  PInv'
<1>1. ASSUME ok[t] PROVE PInv'
  <2>1. Active(t) /\ todo[t] = <<>>
    BY <1>1, DoneStart
  <2>2. \E G : Concluded(t, G)
    <3>1. CASE op[t].do = "create"
      BY <1>1, <3>1, DoneCreate
    <3>2. CASE op[t].do = "delete"
      BY <1>1, <3>2, DoneDelete
    <3>3. CASE op[t].do = "rename"
      BY <1>1, <3>3, DoneRename
    <3>4. CASE op[t].do \notin {"create", "delete", "rename"}
      BY <1>1, <3>4, DoneLocking
    <3> QED BY <3>1, <3>2, <3>3, <3>4
  <2> QED BY <2>1, <2>2, Conclude
<1> QED BY <1>1, DoneFailed

-----------------------------------------------------------------------------
(* What a restart finds *)

\* The content file of a name is taken for a document.
LEMMA NamedLoaded ==
    ASSUME NamesApart, NEW n \in Names
    PROVE  /\ filepath(n) \in DOMAIN disk => filepath(n) \in Loaded
           /\ metapath(filepath(n)) = metapath(n)
<1> DEFINE p == filepath(n)
<1>1. n \in Seq(Token) /\ p \in FlatPath /\ p \in Seq(Token) /\ p # <<>>
  BY NameTypes, Paths DEF FlatPath
<1>2. \A y \in {".meta", ".undo", ".ckpt_"} : y \notin Range(p)
  <2>1. \A y : y \in Range(p) => y = "_" \/ y \in Range(n)
    BY <1>1, Flattened DEF filepath
  <2> QED BY <2>1 DEF NamesApart
<1>3. flatten_logical_path(p) = p
  BY <1>1, Flattened
<1>4. metapath(p) = metapath(n)
  BY <1>3 DEF metapath, filepath
<1> HIDE DEF p
<1>5. p[Len(p)] \in Range(p)
  <2>1. Len(p) \in DOMAIN p
    BY <1>1
  <2> QED BY <2>1 DEF Range
<1>6. p \in DOMAIN disk => p \in Loaded
  BY <1>2, <1>5 DEF Loaded
<1> QED BY <1>4, <1>6 DEF p

\* Files that are added do not harm a document.
LEMMA HoldsMore ==
    ASSUME NEW d, NEW e, NEW q, NEW doc, Holds(d, <<>>, q, doc),
           \A p \in DOMAIN d : p \in DOMAIN e /\ e[p] = d[p]
    PROVE  Holds(e, <<>>, q, doc)
<1>1. \A p, c : Ends(d, <<>>, p, c) => Ends(e, <<>>, p, c)
  <2> SUFFICES ASSUME NEW p, NEW c, Ends(d, <<>>, p, c) PROVE Ends(e, <<>>, p, c)
    OBVIOUS
  <2>1. p \in DOMAIN d /\ d[p] = c
    BY EndsNone
  <2>2. p \in DOMAIN e /\ e[p] = c
    BY <2>1
  <2> QED BY <2>2, EndsNone
<1> QED BY <1>1 DEF Holds

\* A restart leaves a document as it is.
LEMMA RestartSettled ==
    ASSUME NamesApart, IInv, PInv, Restart, NEW n \in DOMAIN docs, n \notin lost'
    PROVE  /\ Settled(n) /\ Settled(n)'
           /\ metapath(n) \in DOMAIN disk /\ disk[metapath(n)] # Empty
<1>1. /\ \A p \in Loaded : \E r \in files' : rec'[r] = LoadedRecord(p)
      /\ \A p \in DOMAIN disk : p \in DOMAIN disk' /\ disk'[p] = disk[p]
      /\ \A t \in Threads : ok[t] => touch[t] \subseteq lost'
      /\ lost \subseteq lost' /\ docs' = docs
  BY RestartFacts
<1>2. n \in Names
  BY DEF IInv, Types
<1>3. \A t \in Actives : n \notin touch[t]
  BY <1>1 DEF Actives, Active
<1>4. Settled(n)
  BY <1>1, <1>3 DEF PInv, PInvOf, DocsKept
<1>5. PICK r \in files : rec[r].filename = n /\ Holds(disk, <<>>, rec[r], docs[n])
  BY <1>4 DEF Settled
<1>6. docs[n] \in Doc
  BY <1>4 DEF Settled
<1>7. rec[r] \in FileRecord
  BY <1>5 DEF IInv, Types
<1> DEFINE q == rec[r]
<1> HIDE DEF q
<1>8. q \in FileRecord /\ q.filename = n /\ Holds(disk, <<>>, q, docs[n])
  BY <1>5, <1>7 DEF q
<1>9. /\ OnDisk(q, docs[n]) /\ q \in Sidecar
      /\ metapath(n) \in DOMAIN disk /\ disk[metapath(n)] = q
  BY <1>2, <1>6, <1>8, Held
<1>10. filepath(n) \in Loaded /\ metapath(filepath(n)) = metapath(n)
  BY <1>2, <1>8, <1>9, NamedLoaded DEF OnDisk
<1>11. q # Empty
  <2>1. DOMAIN q # {"text"}
    BY <1>8 DEF FileRecord
  <2> QED BY <2>1 DEF Empty, Text
<1>12. LoadedRecord(filepath(n)) = q
  BY <1>9, <1>10, <1>11 DEF LoadedRecord
<1>13. PICK s \in files' : rec'[s] = q
  BY <1>1, <1>10, <1>12
<1>14. Holds(disk', <<>>, q, docs[n])
  BY <1>1, <1>8, HoldsMore
<1>15. Settled(n)'
  BY <1>1, <1>6, <1>8, <1>13, <1>14 DEF Settled
<1> QED BY <1>4, <1>9, <1>11, <1>15

\* Whatever a restart takes for a document is known.
LEMMA RestartKnown ==
    ASSUME NamesApart, IInv, PInv, Restart
    PROVE  /\ \A p \in DOMAIN disk : \A m : IsMeta(p) /\ disk[p] # Empty /\ m = disk[p].filename => Known(m)'
           /\ \A p \in Loaded : \E n \in DOMAIN docs' \cup lost' : filepath(n) = p
           /\ \A p \in Loaded : metapath(p) \notin DOMAIN disk \/ disk[metapath(p)] = Empty => Known(p)'
<1>1. /\ \A t \in Threads : ok[t] => touch[t] \subseteq lost'
      /\ lost \subseteq lost' /\ docs' = docs
  BY RestartFacts
<1>2. \A t \in Actives : Own(t) \subseteq lost' /\ touch[t] \subseteq lost'
  BY <1>1 DEF Actives, Active, Own
<1>3. \A m : Known(m) \/ m \in lost' => Known(m)'
  BY <1>1 DEF Known
<1>4. \A p \in DOMAIN disk : \A m : IsMeta(p) /\ disk[p] # Empty /\ m = disk[p].filename => Known(m)'
  <2> SUFFICES ASSUME NEW p \in DOMAIN disk, IsMeta(p), disk[p] # Empty, NEW m, m = disk[p].filename
               PROVE  Known(m)'
    OBVIOUS
  <2>1. Known(m) \/ \E t \in Actives : m \in Own(t)
    BY DEF PInv, PInvOf, SideListed
  <2> QED BY <1>2, <1>3, <2>1
<1>5. \A p \in Loaded : \E n \in DOMAIN docs' \cup lost' : filepath(n) = p
  <2> SUFFICES ASSUME NEW p \in Loaded PROVE \E n \in DOMAIN docs' \cup lost' : filepath(n) = p
    OBVIOUS
  <2>1. \/ \E n \in DOMAIN docs \cup lost : filepath(n) = p
        \/ \E t \in Actives : \E n \in touch[t] : filepath(n) = p
    BY DEF PInv, PInvOf, FileListed
  <2> QED BY <1>1, <1>2, <2>1
<1>6. \A p \in Loaded : metapath(p) \notin DOMAIN disk \/ disk[metapath(p)] = Empty => Known(p)'
  <2> SUFFICES ASSUME NEW p \in Loaded, metapath(p) \notin DOMAIN disk \/ disk[metapath(p)] = Empty
               PROVE  Known(p)'
    OBVIOUS
  <2>1. PICK n \in DOMAIN docs \cup lost' : filepath(n) = p
    BY <1>1, <1>5
  <2>2. filepath(p) = p
    BY LoadedPaths DEF IInv
  <2>3. n \in lost'
    <3> SUFFICES ASSUME n \in DOMAIN docs, n \notin lost' PROVE FALSE
      BY <2>1
    <3>1. metapath(n) \in DOMAIN disk /\ disk[metapath(n)] # Empty
      BY RestartSettled
    <3>2. n \in Names
      BY DEF IInv, Types
    <3>3. metapath(p) = metapath(n)
      BY <2>1, <3>2, NamedLoaded
    <3> QED BY <3>1, <3>3
  <2>4. filepath(n) = filepath(p)
    BY <2>1, <2>2
  <2> QED BY <2>3, <2>4 DEF Known
<1> QED BY <1>4, <1>5, <1>6

\* What a restart knows of checkpoint files was known before it.
LEMMA RestartRefs ==
    ASSUME NamesApart, IInv, Restart, NEW m, NEW p, NEW A, Ref({}, m, p)'
    PROVE  Ref(A, m, p)
<1>1. /\ \A r \in files' : \E x \in Loaded : rec'[r] = LoadedRecord(x)
      /\ \A x : x \in DOMAIN disk' <=> x \in DOMAIN disk \/ \E q \in Loaded : x = metapath(q)
      /\ \A x \in DOMAIN disk : disk'[x] = disk[x]
      /\ \A q \in Loaded : metapath(q) \notin DOMAIN disk => disk'[metapath(q)] = NewRecord(q, NoUser)
  BY RestartFacts
<1>2. \A q : PathsOf(NewRecord(q, NoUser)) = {}
  BY DEF PathsOf, NewRecord
<1>3. ASSUME NEW r \in files', rec'[r].filename = m, p \in PathsOf(rec'[r]) PROVE Ref(A, m, p)
  <2>1. PICK x \in Loaded : rec'[r] = LoadedRecord(x)
    BY <1>1, <1>3
  <2>2. metapath(x) \in DOMAIN disk /\ disk[metapath(x)] # Empty /\ rec'[r] = disk[metapath(x)]
    BY <1>2, <1>3, <2>1 DEF LoadedRecord
  <2>3. IsMeta(metapath(x))
    BY LoadedPaths DEF IInv
  <2> QED BY <1>3, <2>2, <2>3 DEF Ref
<1>4. ASSUME NEW x \in DOMAIN disk', IsMeta(x), disk'[x] # Empty, disk'[x].filename = m,
             p \in PathsOf(disk'[x])
      PROVE  Ref(A, m, p)
  <2>1. x \in DOMAIN disk
    BY <1>1, <1>2, <1>4
  <2> QED BY <1>1, <1>4, <2>1 DEF Ref
<1>5. \/ \E r \in files' : rec'[r].filename = m /\ p \in PathsOf(rec'[r])
      \/ \E x \in DOMAIN disk' :
            IsMeta(x) /\ disk'[x] # Empty /\ disk'[x].filename = m /\ p \in PathsOf(disk'[x])
  BY DEF Ref
<1> QED BY <1>3, <1>4, <1>5

LEMMA RestartKept ==
    ASSUME NamesApart, IInv, PInv, Restart
    PROVE  PInv'
<1>1. /\ \A r \in files' : \E p \in Loaded : rec'[r] = LoadedRecord(p)
      /\ \A p : p \in DOMAIN disk' <=> p \in DOMAIN disk \/ \E q \in Loaded : p = metapath(q)
      /\ \A p \in DOMAIN disk : disk'[p] = disk[p]
      /\ \A q \in Loaded : metapath(q) \notin DOMAIN disk => disk'[metapath(q)] = NewRecord(q, NoUser)
      /\ \A t \in Threads : touch'[t] = {} /\ (ok[t] => touch[t] \subseteq lost')
      /\ lost \subseteq lost' /\ \A m \in lost' : m \in lost \/ \E t \in Threads : m \in touch[t]
      /\ UNCHANGED <<now, docs>>
  BY RestartFacts
<1>2. /\ \A p \in DOMAIN disk : \A m : IsMeta(p) /\ disk[p] # Empty /\ m = disk[p].filename => Known(m)'
      /\ \A p \in Loaded : \E n \in DOMAIN docs' \cup lost' : filepath(n) = p
      /\ \A p \in Loaded : metapath(p) \notin DOMAIN disk \/ disk[metapath(p)] = Empty => Known(p)'
  BY RestartKnown
<1>3. \A p \in Loaded : IsMeta(metapath(p)) /\ NewRecord(p, NoUser).filename = p
  BY LoadedPaths DEF IInv
<1>4. Actives' = {} /\ Begun({})'
  BY <1>1 DEF Actives, Active, Working, Begun
<1>5. DocsKept({})'
  <2> SUFFICES ASSUME NEW n \in DOMAIN docs', n \notin lost' PROVE Settled(n)'
    BY DEF DocsKept
  <2> QED BY <1>1, RestartSettled
<1>6. CreateKept({})' /\ DeleteKept({})' /\ RenameKept({})' /\ CopyKept({})' /\ Owned({})'
  BY DEF CreateKept, DeleteKept, RenameKept, CopyKept, Owned, NsAt
<1>7. RecListed({})'
  <2> SUFFICES ASSUME NEW r \in files', NEW m, m = rec'[r].filename PROVE Known(m)'
    BY DEF RecListed, Known
  <2>1. PICK p \in Loaded : rec'[r] = LoadedRecord(p)
    BY <1>1
  <2>2. CASE metapath(p) \notin DOMAIN disk \/ disk[metapath(p)] = Empty
    <3>1. m = p
      BY <1>3, <2>1, <2>2 DEF LoadedRecord
    <3> QED BY <1>2, <2>2, <3>1
  <2>3. CASE metapath(p) \in DOMAIN disk /\ disk[metapath(p)] # Empty
    <3>1. m = disk[metapath(p)].filename
      BY <2>1, <2>3 DEF LoadedRecord
    <3> QED BY <1>2, <1>3, <2>3, <3>1 DEF Known
  <2> QED BY <2>2, <2>3
<1>8. SideListed({})'
  <2> SUFFICES ASSUME NEW p \in DOMAIN disk', IsMeta(p), disk'[p] # Empty, NEW m, m = disk'[p].filename
               PROVE  Known(m)'
    BY DEF SideListed, Known
  <2>1. CASE p \in DOMAIN disk
    BY <1>1, <1>2, <2>1 DEF Known
  <2>2. CASE p \notin DOMAIN disk
    <3>1. PICK q \in Loaded : p = metapath(q)
      BY <1>1, <2>2
    <3>2. m = q
      BY <1>1, <1>3, <2>2, <3>1
    <3> QED BY <1>2, <2>2, <3>1, <3>2
  <2> QED BY <2>1, <2>2
<1>9. FileListed({})'
  <2> SUFFICES ASSUME NEW p \in Loaded' PROVE \E n \in DOMAIN docs' \cup lost' : filepath(n) = p
    BY DEF FileListed
  <2>1. p \in DOMAIN disk' /\ p[Len(p)] \notin {".meta", ".undo"} /\ ".ckpt_" \notin Range(p)
    BY DEF Loaded
  <2>2. p \in DOMAIN disk
    BY <1>1, <1>3, <2>1 DEF IsMeta
  <2>3. p \in Loaded
    BY <2>1, <2>2 DEF Loaded
  <2> QED BY <1>2, <2>3
<1>10. Touched'
  BY <1>1 DEF PInv, PInvOf, Touched
<1>11. CkptsApart({})'
  <2> SUFFICES ASSUME NEW m \in Names, NEW k \in Names, m # k, m \notin lost', NEW p,
                      Ref({}, m, p)', Ref({}, k, p)'
               PROVE  FALSE
    BY DEF CkptsApart, Clean
  <2>1. Ref(Actives, m, p) /\ Ref(Actives, k, p)
    BY RestartRefs
  <2>2. \A t \in Actives : m \notin touch[t]
    BY <1>1 DEF Actives, Active
  <2>3. Clean(Actives, m) /\ ~Together(Actives, m, k)
    BY <1>1, <2>2 DEF Clean, Together
  <2> QED BY <2>1, <2>3 DEF PInv, PInvOf, CkptsApart
<1>12. CkptsDated({})'
  <2> SUFFICES ASSUME NEW m \in Names, NEW p, Ref({}, m, p)' PROVE Dated(p)'
    BY DEF CkptsDated
  <2>1. Ref(Actives, m, p)
    BY RestartRefs
  <2>2. Dated(p)
    BY <2>1 DEF PInv, PInvOf, CkptsDated
  <2> QED BY <1>1, <2>2 DEF Dated
<1>13. PInvOf({})'
  BY <1>4, <1>5, <1>6, <1>7, <1>8, <1>9, <1>10, <1>11, <1>12 DEF PInvOf
<1> QED BY <1>4, <1>13, Renewed

-----------------------------------------------------------------------------
(* The promises *)

LEMMA InitPromises == ASSUME Init PROVE PInv
<1>1. /\ disk = [p \in {} |-> Empty] /\ files = {} /\ lost = {} /\ DOMAIN docs = {}
      /\ \A t \in Threads : touch[t] = {}
  BY DEF Init
<1>2. Actives = {} /\ Begun(Actives)
  BY <1>1 DEF Actives, Active, Working, Begun
<1>3. DocsKept(Actives) /\ CreateKept(Actives) /\ DeleteKept(Actives) /\ RenameKept(Actives)
      /\ CopyKept(Actives) /\ Owned(Actives)
  BY <1>1, <1>2 DEF DocsKept, CreateKept, DeleteKept, RenameKept, CopyKept, Owned, NsAt
<1>4. RecListed(Actives) /\ SideListed(Actives) /\ FileListed(Actives) /\ Touched
  BY <1>1 DEF RecListed, SideListed, FileListed, Loaded, Touched
<1>5. \A m, p : ~Ref(Actives, m, p)
  BY <1>1, <1>2 DEF Ref
<1>6. CkptsApart(Actives) /\ CkptsDated(Actives)
  BY <1>5 DEF CkptsApart, CkptsDated
<1> QED BY <1>2, <1>3, <1>4, <1>6 DEF PInv, PInvOf

LEMMA NextPromises ==
    ASSUME NamesApart, TimesApart, IInv, PInv, Next
    PROVE  PInv'
<1>1. ASSUME NEW t \in Clients, NEW n \in Names, ClientRequest(t, n) PROVE PInv'
  <2>1. PICK o \in Requests : Find(t, n, o)
    BY <1>1 DEF ClientRequest
  <2> QED BY <2>1, FindBegins DEF Threads
<1>2. ASSUME NEW n \in Names, Command(n) PROVE PInv'
  <2>1. PICK o \in Commands : Find(NS, n, o)
    BY <1>2 DEF Command
  <2> QED BY <2>1, FindBegins DEF Threads
<1>3. ASSUME NEW n \in Names, Delete(n) PROVE PInv'
  BY <1>3, DeleteBegins
<1>4. ASSUME NEW n \in Names, NEW u \in Owners, Create(n, u) PROVE PInv'
  BY <1>4, CreateBegins
<1>5. ASSUME NEW t \in Threads, Lock(t) PROVE PInv'
  BY <1>5, LockQuiet, LockBegins
<1>6. ASSUME NEW t \in Threads, Step(t) PROVE PInv'
  BY <1>6, StepKept
<1>7. ASSUME NEW t \in Threads, Done(t) PROVE PInv'
  BY <1>7, EndKept
<1>8. CASE Restart
  BY <1>8, RestartKept
<1> QED BY <1>1, <1>2, <1>3, <1>4, <1>5, <1>6, <1>7, <1>8 DEF Next

LEMMA StutterPromises ==
    ASSUME PInv, UNCHANGED vars
    PROVE  PInv'
<1>1. UNCHANGED <<disk, files, rec, op, on, todo, ok, now, docs, touch, lost>>
  BY DEF vars, server, history
<1> SUFFICES ASSUME NEW A0, A0 = Actives PROVE PInv'
  OBVIOUS
<1>2. /\ \A t : /\ Active(t)' <=> Active(t)
                /\ Working(t)' <=> Working(t)
                /\ Own(t)' = Own(t)
                /\ Clear(t)' <=> Clear(t)
                /\ Copier(t)' <=> Copier(t)
                /\ Drafts(t)' = Drafts(t)
      /\ \A t, q : Final(t, q)' <=> Final(t, q)
      /\ \A t, n : NewName(t, n)' = NewName(t, n)
      /\ \A n : Known(n)' <=> Known(n)
      /\ \A t, p : Pending(t, p)' <=> Pending(t, p)
      /\ \A p : Dated(p)' <=> Dated(p)
      /\ \A n : Settled(n)' <=> Settled(n)
      /\ Loaded' = Loaded
  BY <1>1 DEF Active, Working, Own, Clear, Copier, Drafts, Final, NewName, Known, Pending, Dated,
              Settled, Loaded
<1>3. Actives' = A0
  BY <1>2 DEF Actives
<1>4. PInvOf(A0)
  BY DEF PInv
<1>5. Begun(A0)' /\ CreateKept(A0)' /\ DeleteKept(A0)' /\ Touched' /\ Owned(A0)'
  BY <1>1, <1>2, <1>4 DEF PInvOf, Begun, CreateKept, DeleteKept, Touched, Owned, NsAt
<1>6. DocsKept(A0)'
  <2>1. \A t, n : Underway(t, n)' <=> Underway(t, n)
    BY <1>1, <1>2 DEF Underway
  <2> QED BY <1>1, <1>2, <1>4, <2>1 DEF PInvOf, DocsKept
<1>7. RenameKept(A0)' /\ CopyKept(A0)'
  BY <1>1, <1>2, <1>4 DEF PInvOf, RenameKept, CopyKept, NsAt
<1>8. RecListed(A0)' /\ SideListed(A0)' /\ FileListed(A0)'
  BY <1>1, <1>2, <1>4 DEF PInvOf, RecListed, SideListed, FileListed, Renamed, NsAt, Known
<1>9. \A m, p : Ref(A0, m, p)' <=> Ref(A0, m, p)
  BY <1>1, <1>2 DEF Ref
<1>10. CkptsApart(A0)' /\ CkptsDated(A0)'
  BY <1>1, <1>2, <1>4, <1>9 DEF PInvOf, CkptsApart, CkptsDated, Clean, Together
<1>11. PInvOf(A0)'
  BY <1>5, <1>6, <1>7, <1>8, <1>10 DEF PInvOf
<1> QED BY <1>3, <1>11, Renewed

\* A listed record and its files, as they are shown, are the document.
LEMMA HeldShown ==
    ASSUME NamesApart, NEW q \in FileRecord, q.filename \in Names, NEW doc \in Doc,
           Holds(disk, <<>>, q, doc)
    PROVE  View(q) = doc
<1> DEFINE n == q.filename
           v == View(q)
<1>1. /\ OnDisk(q, doc)
      /\ DOMAIN q.checkpoints = 1..Len(q.checkpoints) /\ DOMAIN doc.checkpoints = 1..Len(q.checkpoints)
      /\ \A i \in DOMAIN q.checkpoints : doc.checkpoints[i] \in Tags \X (Texts \cup {NoText})
  BY Held
<1>2. \A p, x : p \in DOMAIN disk /\ disk[p] = Text(x) => Shown(p) = x
  BY DEF Shown, Text
<1>3. v.owner = doc.owner /\ v.acl = doc.acl
  BY DEF Holds, View
<1>4. v.text = doc.text
  BY <1>1, <1>2 DEF OnDisk, View
<1>5. v.undo = doc.undo
  <2>1. CASE q.undo_available
    <3>1. Shown(undopath(n)) = doc.undo[1] /\ doc.undo = <<doc.undo[1]>>
      BY <1>1, <1>2, <2>1 DEF OnDisk, Holds
    <3>2. v.undo = <<Shown(undopath(n))>>
      BY <2>1 DEF View
    <3> QED BY <3>1, <3>2
  <2>2. CASE ~q.undo_available
    BY <2>2 DEF Holds, View
  <2> QED BY <2>1, <2>2
<1>6. v.checkpoints = doc.checkpoints
  <2> DEFINE D == DOMAIN q.checkpoints
  <2>1. \A i \in D : doc.checkpoints[i] = <<q.checkpoints[i].tag, Shown(q.checkpoints[i].filepath)>>
    <3> SUFFICES ASSUME NEW i \in D
                 PROVE  doc.checkpoints[i] = <<q.checkpoints[i].tag, Shown(q.checkpoints[i].filepath)>>
      OBVIOUS
    <3>1. Shown(q.checkpoints[i].filepath) = doc.checkpoints[i][2]
      BY <1>1, <1>2 DEF OnDisk
    <3>2. doc.checkpoints[i][1] = q.checkpoints[i].tag
      BY DEF Holds
    <3>3. doc.checkpoints[i] = <<doc.checkpoints[i][1], doc.checkpoints[i][2]>>
      BY <1>1
    <3> QED BY <3>1, <3>2, <3>3
  <2>2. v.checkpoints = [i \in D |-> <<q.checkpoints[i].tag, Shown(q.checkpoints[i].filepath)>>]
    BY DEF View
  <2>3. doc.checkpoints = [i \in D |-> doc.checkpoints[i]]
    <3>1. doc.checkpoints \in Seq(Tags \X (Texts \cup {NoText}))
      BY DEF Doc
    <3>2. DOMAIN doc.checkpoints = D
      BY <1>1
    <3> QED BY <3>1, <3>2
  <2> HIDE DEF D
  <2> QED BY <2>1, <2>2, <2>3, Zenon
<1>7. v = [owner |-> v.owner, acl |-> v.acl, text |-> v.text, undo |-> v.undo, checkpoints |-> v.checkpoints]
  BY DEF View
<1>8. doc = [owner |-> doc.owner, acl |-> doc.acl, text |-> doc.text, undo |-> doc.undo,
             checkpoints |-> doc.checkpoints]
  BY DEF Doc
<1> HIDE DEF v
<1>9. v = doc
  BY <1>3, <1>4, <1>5, <1>6, <1>7, <1>8
<1> QED BY <1>9 DEF v

LEMMA PromisesFollow ==
    ASSUME NamesApart, IInv, PInv
    PROVE  PromisesKept
<1> DEFINE unsettled(n) ==
               \E m \in lost \cup UNION {touch[t] : t \in Threads} : filepath(m) = filepath(n)
           listed == {r \in files : ~unsettled(rec[r].filename)}
<1>1. DOMAIN docs \subseteq Names /\ \A r \in files : rec[r] \in FileRecord
  BY DEF IInv, Types
<1>2. \A n : ~unsettled(n) => n \notin lost /\ \A t \in Threads : n \notin touch[t]
  OBVIOUS
<1>3. ASSUME NEW n \in DOMAIN docs, ~unsettled(n) PROVE Settled(n)
  <2>1. n \in DOMAIN docs \ lost /\ \A t \in Actives : n \notin touch[t]
    BY <1>2, <1>3 DEF Actives
  <2> QED BY <2>1 DEF PInv, PInvOf, DocsKept
<1>4. ASSUME NEW r \in files, NEW n, n = rec[r].filename, ~unsettled(n) PROVE n \in DOMAIN docs
  <2>1. Known(n) \/ Renamed(Actives, r)
    BY <1>4 DEF PInv, PInvOf, RecListed
  <2>2. ~Renamed(Actives, r)
    <3> SUFFICES ASSUME Renamed(Actives, r) PROVE FALSE
      OBVIOUS
    <3>1. NS \in Threads /\ Working(NS) /\ ok[NS] /\ op[NS].do = "rename" /\ n = op[NS].to
      BY <1>4 DEF Renamed, NsAt, Actives, Active
    <3>2. op[NS].to \in touch[NS]
      <4>1. PICK a, k : RenameAt(a, k)
        BY <3>1, Renames
      <4> QED BY <4>1 DEF RenameAt
    <3> QED BY <1>2, <1>4, <3>1, <3>2
  <2> QED BY <1>4, <2>1, <2>2 DEF Known
<1>5. ASSUME NEW r \in files, NEW s \in files, rec[r].filename = rec[s].filename,
             NEW n, n = rec[r].filename, ~unsettled(n)
      PROVE  r = s
  <2>1. n \in Names /\ n \notin lost
    BY <1>1, <1>2, <1>4, <1>5
  <2> QED BY <1>5, <2>1 DEF IInv, Unique, Good
<1>6. ASSUME NEW r \in files, NEW n, n = rec[r].filename, ~unsettled(n) PROVE View(rec[r]) = docs[n]
  <2>1. n \in DOMAIN docs /\ n \in Names /\ Settled(n)
    BY <1>1, <1>3, <1>4, <1>6
  <2>2. PICK s \in files : rec[s].filename = n /\ Holds(disk, <<>>, rec[s], docs[n])
    BY <2>1 DEF Settled
  <2>3. s = r
    BY <1>5, <1>6, <2>2
  <2>4. docs[n] \in Doc /\ rec[r] \in FileRecord
    BY <1>1, <2>1 DEF Settled
  <2> QED BY <1>6, <2>1, <2>2, <2>3, <2>4, HeldShown
<1>7. \A r \in files : r \in listed <=> ~unsettled(rec[r].filename)
  OBVIOUS
<1>8. listed \subseteq files
  OBVIOUS
<1> HIDE DEF unsettled
<1>9. {rec[r].filename : r \in listed} = {n \in DOMAIN docs : ~unsettled(n)}
  <2>1. ASSUME NEW n \in DOMAIN docs, ~unsettled(n) PROVE \E r \in listed : n = rec[r].filename
    <3>1. PICK r \in files : rec[r].filename = n
      BY <1>3, <2>1 DEF Settled
    <3> QED BY <1>7, <2>1, <3>1
  <2> QED BY <1>4, <1>7, <1>8, <2>1
<1>10. \A r \in listed : View(rec[r]) = docs[rec[r].filename]
  BY <1>6, <1>7, <1>8
<1>11. \A r, s \in listed : rec[r].filename = rec[s].filename => r = s
  BY <1>5, <1>7, <1>8
<1> QED BY <1>9, <1>10, <1>11 DEF PromisesKept, unsettled

\* What the answers promised is what the server has: each document that was
\* created and not deleted is listed under its last name with its owner, access
\* list, text, undo text and checkpoints, whatever etirw, undo, checkpoint, revert,
\* ss_handle_rename, handle_ss_copy, ss_delete_file and ss_load_existing_files did
\* to it and to the others meanwhile, and however often the server was killed.  Names
\* in lost, on which a crash or DELETE cut a request short, are excepted.
THEOREM PromisesAreKept == ASSUME NamesApart, TimesApart PROVE Spec => []PromisesKept
<1>1. Init => IInv /\ PInv
  BY InitKeeps, InitPromises
<1>2. IInv /\ PInv /\ [Next]_vars => IInv' /\ PInv'
  <2>1. ASSUME IInv, PInv, Next PROVE IInv' /\ PInv'
    BY <2>1, NextKeeps, NextPromises
  <2>2. ASSUME IInv, PInv, UNCHANGED vars PROVE IInv' /\ PInv'
    BY <2>2, StutterKeeps, StutterPromises
  <2> QED BY <2>1, <2>2
<1>3. IInv /\ PInv => PromisesKept
  BY PromisesFollow
<1> QED BY <1>1, <1>2, <1>3, PTL DEF Spec

=============================================================================
