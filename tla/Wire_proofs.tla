----------------------------- MODULE Wire_proofs -----------------------------
(***************************************************************************)
(* Proofs about the message protocol of Wire: framing, fields and the size *)
(* limit on a connection that one thread writes to, for all messages,      *)
(* message sizes and buffer sizes.                                         *)
(*                                                                         *)
(* The first half is about lines: FoldLeft joins the fields one by one     *)
(* (BuildLines), so a line has one terminator, its last byte (BuildsLine). *)
(* The invariant Inv says what is between the two sides.  buffer \o pipe   *)
(* \o out[t], the bytes on their way, are the lines of the messages not    *)
(* yet received, one behind the other: e[i], the bytes of the first i      *)
(* messages, tells where each begins (Flow).  As the buffer holds no       *)
(* terminator, what is read is the beginning of the next line and is all   *)
(* of it exactly when the terminator arrives (NextMessage).  FramesKept    *)
(* alone is not inductive: it says nothing of the bytes that have not been *)
(* received yet.                                                           *)
(*                                                                         *)
(* The next part is about protocol_parse_message: the delimiters of a line *)
(* are counted (Rank), and in the line of a message whose fields hold none *)
(* the i-th one is behind the i-th field (FieldRanks).                     *)
(*                                                                         *)
(* The last part is about what the name server builds on such a            *)
(* connection, NsSsChannel: what the response slot guarantees for every    *)
(* number of handlers, of requests and of unsolicited messages.            *)
(***************************************************************************)
EXTENDS Wire, NsSsChannel, Integers, FiniteSetTheorems, SequenceTheorems,
        WellFoundedInduction, TLAPS

\* A set of natural numbers that is not empty has a least element.
LEMMA LeastNat ==
    ASSUME NEW T \in SUBSET Nat, T # {}
    PROVE  \E x \in T : \A y \in T : x <= y
<1>1. \E x \in T : \A y \in T : ~(<<y, x>> \in OpToRel(<, Nat))
  BY NatLessThanWellFounded, WFMin
<1>2. ASSUME NEW x \in Nat, NEW y \in Nat PROVE <<y, x>> \in OpToRel(<, Nat) <=> y < x
  BY DEF OpToRel
<1>3. \A x, y \in Nat : ~(y < x) => x <= y
  OBVIOUS
<1> HIDE DEF OpToRel
<1> QED BY <1>1, <1>2, <1>3

-----------------------------------------------------------------------------
(* protocol_build_message, field by field *)

\* The line of m up to its field n + 1, as FoldLeft builds it: a function of the
\* positions joined so far, from which the last one is taken.
Join(line, field) == line \o <<PROTOCOL_DELIMITER>> \o field
Joins(m, it) ==
    it = [s \in SUBSET DOMAIN Tail(m) |->
            IF s = {} THEN m[1] ELSE Join(it[s \ {Max(s)}], Tail(m)[Max(s)])]

LEMMA BuildDef ==
    ASSUME NEW m
    PROVE  \E it : /\ it = (CHOOSE g : Joins(m, g))
                   /\ protocol_build_message(m) = it[DOMAIN Tail(m)] \o <<PROTOCOL_TERMINATOR>>
BY DEF protocol_build_message, FoldLeft, MapThenFoldSet, Joins, Join

\* A set of positions that is not empty has a last one.
LEMMA MaxIn ==
    ASSUME NEW n \in Nat, NEW s \in SUBSET (1..n), s # {}
    PROVE  Max(s) \in s /\ \A y \in s : Max(s) >= y
<1> DEFINE T == {k \in Nat : \A y \in s : k >= y}
<1>1. n \in T
  OBVIOUS
<1>2. PICK k \in T : \A j \in T : k <= j
  <2>1. T \in SUBSET Nat /\ T # {}
    BY <1>1
  <2> HIDE DEF T
  <2> QED BY <2>1, LeastNat
<1>3. k \in s
  <2> SUFFICES ASSUME k \notin s PROVE FALSE
    OBVIOUS
  <2>1. k # 0
    <3>1. PICK y \in s : TRUE
      OBVIOUS
    <3>2. y \in 1..n /\ k >= y
      BY <1>2
    <3> QED BY <3>2
  <2>2. k - 1 \in T
    BY <1>2, <2>1
  <2> QED BY <1>2, <2>2
<1>4. \E x \in s : \A y \in s : x >= y
  BY <1>2, <1>3
<1> QED BY <1>4 DEF Max

\* A set of positions without its last one.
LEMMA WithoutMax ==
    ASSUME NEW n \in Nat, NEW s \in SUBSET (1..n), s # {}
    PROVE  /\ s \ {Max(s)} \in SUBSET (1..n)
           /\ Cardinality(s) \in Nat /\ Cardinality(s \ {Max(s)}) \in Nat
           /\ Cardinality(s \ {Max(s)}) < Cardinality(s)
<1> IsFiniteSet(1..n)
  BY FS_Interval
<1>1. IsFiniteSet(s) /\ Max(s) \in s
  BY MaxIn, FS_Subset
<1>2. Cardinality(s \ {Max(s)}) = Cardinality(s) - 1 /\ IsFiniteSet(s \ {Max(s)})
  BY <1>1, FS_RemoveElement
<1>3. Cardinality(s) \in Nat /\ Cardinality(s \ {Max(s)}) \in Nat
  BY <1>1, <1>2, FS_CardinalityType
<1>4. s \ {Max(s)} \in SUBSET (1..n)
  OBVIOUS
<1> QED BY <1>2, <1>3, <1>4

\* it joins the fields at every set of up to k positions.
Joined(m, it, s) == IF s = {} THEN m[1] ELSE Join(it[s \ {Max(s)}], Tail(m)[Max(s)])
Upto(m, n, k, it) ==
    \A s \in SUBSET (1..n) : Cardinality(s) <= k => it[s] = Joined(m, it, s)
Once(m, n, it) == [s \in SUBSET (1..n) |-> Joined(m, it, s)]

LEMMA OnceMore ==
    ASSUME NEW m, NEW n \in Nat, NEW k \in Nat, NEW it, Upto(m, n, k, it)
    PROVE  Upto(m, n, k + 1, Once(m, n, it))
<1> DEFINE new == Once(m, n, it)
<1>1. \A s \in SUBSET (1..n) : new[s] = Joined(m, it, s)
  BY DEF Once
<1> HIDE DEF new
<1>2. \A s \in SUBSET (1..n) : Cardinality(s) <= k => new[s] = it[s]
  BY <1>1 DEF Upto
<1>3. ASSUME NEW s \in SUBSET (1..n), Cardinality(s) <= k + 1
      PROVE  Joined(m, it, s) = Joined(m, new, s)
  <2>1. CASE s = {}
    BY <2>1 DEF Joined
  <2>2. CASE s # {}
    <3>1. /\ s \ {Max(s)} \in SUBSET (1..n)
          /\ Cardinality(s) \in Nat /\ Cardinality(s \ {Max(s)}) \in Nat
          /\ Cardinality(s \ {Max(s)}) < Cardinality(s)
      BY <2>2, WithoutMax
    <3>2. Cardinality(s \ {Max(s)}) <= k
      BY <1>3, <3>1
    <3>3. new[s \ {Max(s)}] = it[s \ {Max(s)}]
      BY <1>2, <3>1, <3>2
    <3> QED BY <3>3 DEF Joined
  <2> QED BY <2>1, <2>2
<1>4. Upto(m, n, k + 1, new)
  BY <1>1, <1>3 DEF Upto
<1> QED BY <1>4 DEF new

LEMMA JoinsExist ==
    ASSUME NEW m, NEW n \in Nat, DOMAIN Tail(m) = 1..n
    PROVE  \E it : Joins(m, it)
<1> DEFINE T == {k \in Nat : ~\E it : Upto(m, n, k, it)}
<1>1. T = {}
  <2> SUFFICES ASSUME T # {} PROVE FALSE
    OBVIOUS
  <2>1. PICK k \in T : \A j \in T : k <= j
    BY LeastNat
  <2>2. CASE k = 0
    <3> DEFINE it == [s \in SUBSET (1..n) |-> m[1]]
    <3>1. ASSUME NEW s \in SUBSET (1..n), Cardinality(s) <= 0
          PROVE  s = {}
      <4> IsFiniteSet(1..n)
        BY FS_Interval
      <4>1. IsFiniteSet(s)
        BY FS_Subset
      <4> QED BY <3>1, <4>1, FS_EmptySet, FS_CardinalityType
    <3>2. Upto(m, n, 0, it)
      BY <3>1 DEF Upto, Joined
    <3> QED BY <2>2, <3>2
  <2>3. CASE k # 0
    <3>1. k - 1 \in Nat /\ k - 1 \notin T /\ (k - 1) + 1 = k
      BY <2>1, <2>3
    <3>2. PICK it : Upto(m, n, k - 1, it)
      BY <3>1
    <3>3. Upto(m, n, k, Once(m, n, it))
      BY <3>1, <3>2, OnceMore
    <3> QED BY <3>3
  <2> QED BY <2>2, <2>3
<1>2. n \in Nat /\ \A s \in SUBSET (1..n) : Cardinality(s) <= n
  <2>1. IsFiniteSet(1..n) /\ Cardinality(1..n) = n
    BY FS_Interval
  <2> QED BY <2>1, FS_Subset
<1>3. PICK it : Upto(m, n, n, it)
  BY <1>1
<1>4. \A s \in SUBSET (1..n) : it[s] = Joined(m, it, s)
  BY <1>2, <1>3 DEF Upto
<1> DEFINE new == [s \in SUBSET (1..n) |-> it[s]]
<1>5. \A s \in SUBSET (1..n) : new[s] = Joined(m, new, s)
  BY <1>4 DEF Joined
<1>6. new = [s \in SUBSET (1..n) |-> Joined(m, new, s)]
  BY <1>5
<1> HIDE DEF new
<1>7. Joins(m, new)
  BY <1>6 DEF Joins, Joined
<1> QED BY <1>7

\* L[k] is the line of the first k + 1 fields of m.
IsLines(m, L) ==
    L[0] = m[1] /\ \A k \in 1..(Len(m) - 1) : L[k] = Join(L[k - 1], m[k + 1])

LEMMA BuildLines ==
    ASSUME NEW F, NEW m \in Seq(F), m # <<>>
    PROVE  \E L : /\ IsLines(m, L)
                  /\ protocol_build_message(m) = L[Len(m) - 1] \o <<PROTOCOL_TERMINATOR>>
<1> DEFINE n == Len(m) - 1
<1>1. /\ n \in Nat /\ DOMAIN Tail(m) = 1..n
      /\ \A k \in 1..n : Tail(m)[k] = m[k + 1]
  OBVIOUS
<1>2. PICK it : /\ it = (CHOOSE g : Joins(m, g))
                /\ protocol_build_message(m) = it[DOMAIN Tail(m)] \o <<PROTOCOL_TERMINATOR>>
  BY BuildDef
<1>3. Joins(m, it)
  BY <1>1, <1>2, JoinsExist
<1> HIDE DEF n
<1>4. \A s \in SUBSET (1..n) : it[s] = Joined(m, it, s)
  BY <1>1, <1>3 DEF Joins, Joined
<1> DEFINE L == [k \in 0..n |-> it[1..k]]
<1>5. L[0] = m[1]
  <2>1. 1..0 = {}
    OBVIOUS
  <2>2. 0 \in 0..n
    BY <1>1
  <2>3. {} \in SUBSET (1..n)
    OBVIOUS
  <2>4. it[{}] = m[1]
    BY <1>4, <2>3 DEF Joined
  <2> QED BY <2>1, <2>2, <2>4
<1>6. ASSUME NEW k \in 1..n PROVE L[k] = Join(L[k - 1], m[k + 1])
  <2> k \in Nat /\ k >= 1 /\ k <= n
    BY <1>1
  <2>1. 1..k \in SUBSET (1..n) /\ 1..k # {} /\ k \in Nat
    <3>1. k \in 1..k
      OBVIOUS
    <3>2. \A y \in 1..k : y \in 1..n
      BY <1>1
    <3> QED BY <3>1, <3>2
  <2>2. Max(1..k) \in 1..k /\ \A y \in 1..k : Max(1..k) >= y
    BY <1>1, <2>1, MaxIn
  <2>3. Max(1..k) = k
    BY <2>1, <2>2
  <2>4. (1..k) \ {k} = 1..(k - 1) /\ k - 1 \in 0..n /\ k \in 0..n
    BY <1>1
  <2>5. it[1..k] = Join(it[1..(k - 1)], Tail(m)[k])
    BY <1>4, <2>1, <2>3, <2>4 DEF Joined
  <2> QED BY <1>1, <2>4, <2>5
<1>7. L[n] = it[1..n]
  BY <1>1
<1> HIDE DEF L
<1>8. IsLines(m, L)
  BY <1>5, <1>6 DEF IsLines, n
<1> QED BY <1>1, <1>2, <1>7, <1>8 DEF n

\* What a field and an unterminated line are made of.
Plain == Bytes \ {PROTOCOL_TERMINATOR}

LEMMA JoinPlain ==
    ASSUME NEW line \in Seq(Plain), NEW field \in Seq(Plain)
    PROVE  /\ Join(line, field) \in Seq(Plain)
           /\ Len(Join(line, field)) = Len(line) + 1 + Len(field)
           /\ \A p \in 1..Len(line) : Join(line, field)[p] = line[p]
           /\ Join(line, field)[Len(line) + 1] = PROTOCOL_DELIMITER
           /\ \A p \in 1..Len(field) : Join(line, field)[Len(line) + 1 + p] = field[p]
<1>1. PROTOCOL_DELIMITER \in Plain
  BY DEF Plain, Bytes, PROTOCOL_DELIMITER, PROTOCOL_TERMINATOR
<1> HIDE DEF Plain
<1> DEFINE head == line \o <<PROTOCOL_DELIMITER>>
<1>2. /\ head \in Seq(Plain) /\ Len(head) = Len(line) + 1
      /\ \A p \in 1..Len(line) : head[p] = line[p]
      /\ head[Len(line) + 1] = PROTOCOL_DELIMITER
  BY <1>1
<1>3. Join(line, field) = head \o field
  BY DEF Join
<1> HIDE DEF head
<1>4. /\ head \o field \in Seq(Plain) /\ Len(head \o field) = Len(head) + Len(field)
      /\ \A p \in 1..Len(head) : (head \o field)[p] = head[p]
      /\ \A p \in 1..Len(field) : (head \o field)[Len(head) + p] = field[p]
  BY <1>2
<1>5. /\ \A p \in 1..Len(line) : p \in 1..Len(head)
      /\ Len(line) + 1 \in 1..Len(head)
  BY <1>2
<1> QED BY <1>2, <1>3, <1>4, <1>5

\* Messages are sequences of plain fields.
LEMMA MessageType ==
    ASSUME NEW m \in Messages
    PROVE  /\ m \in Seq(Seq(Plain)) /\ m # <<>> /\ Len(m) \in Nat /\ Len(m) >= 1
           /\ \A i \in 1..Len(m) : m[i] \in Seq(Plain)
<1>1. m \in Seq(Seq(Plain)) /\ m # <<>>
  BY WireAssumption DEF Plain
<1> HIDE DEF Plain
<1> QED BY <1>1

\* The lines of a message, all of them plain.
LineOf(m, L) ==
    /\ IsLines(m, L)
    /\ protocol_build_message(m) = L[Len(m) - 1] \o <<PROTOCOL_TERMINATOR>>
    /\ \A k \in 0..(Len(m) - 1) : L[k] \in Seq(Plain)

LEMMA LinesExist ==
    ASSUME NEW m \in Messages
    PROVE  \E L : LineOf(m, L)
<1>1. /\ m \in Seq(Seq(Plain)) /\ m # <<>> /\ Len(m) \in Nat /\ Len(m) >= 1
      /\ \A i \in 1..Len(m) : m[i] \in Seq(Plain)
  BY MessageType
<1>2. PICK L : /\ IsLines(m, L)
               /\ protocol_build_message(m) = L[Len(m) - 1] \o <<PROTOCOL_TERMINATOR>>
  BY <1>1, BuildLines
<1>3. /\ L[0] = m[1]
      /\ \A k \in 1..(Len(m) - 1) : L[k] = Join(L[k - 1], m[k + 1])
  BY <1>2 DEF IsLines
<1> HIDE DEF Plain
<1> DEFINE T == {k \in 0..(Len(m) - 1) : L[k] \notin Seq(Plain)}
<1>4. T = {}
  <2> SUFFICES ASSUME T # {} PROVE FALSE
    OBVIOUS
  <2>1. PICK k \in T : \A j \in T : k <= j
    <3>1. T \in SUBSET Nat
      BY <1>1
    <3> HIDE DEF T
    <3> QED BY <3>1, LeastNat
  <2>2. k \in Nat /\ k <= Len(m) - 1 /\ L[k] \notin Seq(Plain)
    BY <2>1
  <2>3. k # 0
    BY <1>1, <1>3, <2>2
  <2>4. k - 1 \in 0..(Len(m) - 1) /\ k - 1 \notin T /\ k \in 1..(Len(m) - 1) /\ k + 1 \in 1..Len(m)
    BY <1>1, <2>1, <2>2, <2>3
  <2>5. L[k - 1] \in Seq(Plain) /\ m[k + 1] \in Seq(Plain)
    BY <1>1, <2>4
  <2>6. Join(L[k - 1], m[k + 1]) \in Seq(Plain)
    BY <2>5, JoinPlain
  <2>7. L[k] = Join(L[k - 1], m[k + 1])
    BY <1>3, <2>4
  <2> QED BY <2>2, <2>6, <2>7
<1>5. \A k \in 0..(Len(m) - 1) : L[k] \in Seq(Plain)
  BY <1>4
<1> QED BY <1>2, <1>5 DEF LineOf

\* A line has one terminator, its last byte.
IsLine(line) ==
    /\ line \in Seq(Bytes) /\ Len(line) \in Nat /\ Len(line) >= 1
    /\ line[Len(line)] = PROTOCOL_TERMINATOR
    /\ \A p \in 1..(Len(line) - 1) : line[p] # PROTOCOL_TERMINATOR

LEMMA BuildsLine ==
    ASSUME NEW m \in Messages
    PROVE  IsLine(protocol_build_message(m))
<1>1. PICK L : LineOf(m, L)
  BY LinesExist
<1>2. Len(m) \in Nat /\ Len(m) >= 1
  BY MessageType
<1>3. PICK s : s = L[Len(m) - 1]
  OBVIOUS
<1>4. s \in Seq(Plain) /\ protocol_build_message(m) = s \o <<PROTOCOL_TERMINATOR>>
  <2>1. Len(m) - 1 \in 0..(Len(m) - 1)
    BY <1>2
  <2> QED BY <1>1, <1>3, <2>1 DEF LineOf
<1>5. \A p \in 1..Len(s) : s[p] \in Bytes /\ s[p] # PROTOCOL_TERMINATOR
  BY <1>4 DEF Plain
<1>6. s \in Seq(Bytes)
  <2> Plain \subseteq Bytes
    BY DEF Plain
  <2> HIDE DEF Plain
  <2> QED BY <1>4
<1>7. PROTOCOL_TERMINATOR \in Bytes
  BY DEF Bytes
<1>8. PICK line : line = s \o <<PROTOCOL_TERMINATOR>>
  OBVIOUS
<1>9. /\ line \in Seq(Bytes) /\ Len(line) = Len(s) + 1 /\ Len(s) \in Nat
      /\ line[Len(s) + 1] = PROTOCOL_TERMINATOR
      /\ \A p \in 1..Len(s) : line[p] = s[p]
  BY <1>6, <1>7, <1>8
<1>10. IsLine(line)
  BY <1>5, <1>9 DEF IsLine
<1> QED BY <1>4, <1>8, <1>10

-----------------------------------------------------------------------------
(* Messages on their way.  e[i] is the number of bytes of the first i messages *)
(* of s; S are the bytes behind the first k messages, as many as were sent.    *)

Ledger(e, s) ==
    /\ e \in [0..Len(s) -> Nat]
    /\ \A i \in 1..Len(s) : e[i] = e[i - 1] + Len(protocol_build_message(s[i]))

Stream(e, s, k, S) ==
    \A i \in (k + 1)..Len(s) : \A j \in 1..Len(protocol_build_message(s[i])) :
        e[i - 1] - e[k] + j <= Len(S)
            => S[e[i - 1] - e[k] + j] = protocol_build_message(s[i])[j]

\* The messages of a sequence, and their lines.
LEMMA SentLine ==
    ASSUME NEW s \in Seq(Messages), NEW i \in 1..Len(s)
    PROVE  s[i] \in Messages /\ IsLine(protocol_build_message(s[i]))
<1>1. s[i] \in Messages
  OBVIOUS
<1> QED BY <1>1, BuildsLine

\* Later messages begin later.
LEMMA LedgerGrows ==
    ASSUME NEW s \in Seq(Messages), NEW e, Ledger(e, s),
           NEW i \in 0..Len(s), NEW j \in 0..Len(s), i <= j
    PROVE  e[i] <= e[j]
<1> DEFINE T == {k \in 0..Len(s) : i <= k /\ ~(e[i] <= e[k])}
<1>0. Len(s) \in Nat /\ \A k \in 0..Len(s) : e[k] \in Nat
  <2>1. Len(s) \in Nat
    OBVIOUS
  <2>2. e \in [0..Len(s) -> Nat]
    BY DEF Ledger
  <2> QED BY <2>1, <2>2
<1>1. T = {}
  <2> SUFFICES ASSUME T # {} PROVE FALSE
    OBVIOUS
  <2>1. PICK k \in T : \A l \in T : k <= l
    <3>1. T \in SUBSET Nat
      BY <1>0
    <3> HIDE DEF T
    <3> QED BY <3>1, LeastNat
  <2>2. k \in Nat /\ k <= Len(s) /\ i <= k /\ ~(e[i] <= e[k]) /\ k # i
    BY <1>0, <2>1
  <2>3. k - 1 \in 0..Len(s) /\ k \in 1..Len(s) /\ i <= k - 1 /\ k - 1 \notin T
    BY <1>0, <2>1, <2>2
  <2>4. e[i] <= e[k - 1]
    BY <2>3
  <2>5. Len(protocol_build_message(s[k])) \in Nat
    BY <2>3, SentLine DEF IsLine
  <2>6. e[k] = e[k - 1] + Len(protocol_build_message(s[k]))
    BY <2>3 DEF Ledger
  <2>7. e[k] \in Nat /\ e[k - 1] \in Nat /\ e[i] \in Nat
    BY <1>0, <2>3
  <2> QED BY <2>2, <2>4, <2>5, <2>6, <2>7
<1> QED BY <1>1

\* What is first on its way is the next message: bytes b from the beginning, none
\* but the last a terminator, are in its line, and are all of it if the last one
\* is a terminator.
Begins(b, S) == Len(b) <= Len(S) /\ \A p \in 1..Len(b) : b[p] = S[p]

LEMMA NextMessage ==
    ASSUME NEW s \in Seq(Messages), NEW e, Ledger(e, s), NEW k \in Nat, k < Len(s),
           NEW S \in Seq(Bytes), Stream(e, s, k, S),
           NEW b \in Seq(Bytes), b # <<>>, Begins(b, S),
           \A p \in 1..(Len(b) - 1) : b[p] # PROTOCOL_TERMINATOR,
           NEW line, line = protocol_build_message(s[k + 1])
    PROVE  /\ Len(b) <= Len(line)
           /\ \A p \in 1..Len(b) : b[p] = line[p]
           /\ b[Len(b)] = PROTOCOL_TERMINATOR <=> Len(b) = Len(line)
<1>1. k + 1 \in 1..Len(s) /\ k + 1 \in (k + 1)..Len(s) /\ (k + 1) - 1 = k
  OBVIOUS
<1>2. IsLine(line)
  BY <1>1, SentLine
<1>3. e[k] - e[k] = 0
  <2>1. e[k] \in Nat
    <3> k \in 0..Len(s)
      BY <1>1
    <3> QED BY DEF Ledger
  <2> QED BY <2>1
<1>4. \A j \in 1..Len(line) : j <= Len(S) => S[j] = line[j]
  <2> SUFFICES ASSUME NEW j \in 1..Len(line), j <= Len(S) PROVE S[j] = line[j]
    OBVIOUS
  <2>1. e[(k + 1) - 1] - e[k] + j = j
    BY <1>1, <1>3, <1>2 DEF IsLine
  <2>2. e[(k + 1) - 1] - e[k] + j <= Len(S)
            => S[e[(k + 1) - 1] - e[k] + j] = protocol_build_message(s[k + 1])[j]
    BY <1>1 DEF Stream
  <2> QED BY <2>1, <2>2
<1>5. /\ Len(b) \in Nat /\ Len(b) >= 1 /\ Len(S) \in Nat /\ Len(b) <= Len(S)
      /\ \A p \in 1..Len(b) : b[p] = S[p]
  BY DEF Begins
<1>6. /\ Len(line) \in Nat /\ Len(line) >= 1
      /\ line[Len(line)] = PROTOCOL_TERMINATOR
      /\ \A p \in 1..(Len(line) - 1) : line[p] # PROTOCOL_TERMINATOR
  BY <1>2 DEF IsLine
<1>7. \A p \in 1..Len(b) : p <= Len(line) => b[p] = line[p]
  <2> SUFFICES ASSUME NEW p \in 1..Len(b), p <= Len(line) PROVE b[p] = line[p]
    OBVIOUS
  <2>1. p \in 1..Len(line) /\ p <= Len(S)
    BY <1>5, <1>6
  <2> QED BY <1>4, <1>5, <2>1
<1>8. Len(b) <= Len(line)
  <2>1. Len(b) \in Nat /\ Len(line) \in Nat /\ Len(line) >= 1
    BY <1>5, <1>6
  <2> SUFFICES ASSUME Len(line) < Len(b) PROVE FALSE
    BY <2>1
  <2>2. Len(line) \in 1..(Len(b) - 1) /\ Len(line) \in 1..Len(b)
    BY <2>1
  <2>3. b[Len(line)] = line[Len(line)]
    BY <1>7, <2>1, <2>2
  <2> QED BY <1>6, <2>2, <2>3
<1>9. \A p \in 1..Len(b) : b[p] = line[p]
  BY <1>5, <1>6, <1>7, <1>8
<1>10. Len(b) \in 1..Len(b) /\ (Len(b) # Len(line) => Len(b) \in 1..(Len(line) - 1))
  BY <1>5, <1>6, <1>8
<1> QED BY <1>6, <1>8, <1>9, <1>10

\* Behind the next message is the one after it.
Behind(S2, S, l) == Len(S) = l + Len(S2) /\ \A p \in 1..Len(S2) : S2[p] = S[l + p]

LEMMA StreamGoesOn ==
    ASSUME NEW s \in Seq(Messages), NEW e, Ledger(e, s), NEW k \in Nat, k < Len(s),
           NEW S \in Seq(Bytes), Stream(e, s, k, S),
           NEW l \in Nat, l = Len(protocol_build_message(s[k + 1])),
           NEW S2 \in Seq(Bytes), Behind(S2, S, l)
    PROVE  Stream(e, s, k + 1, S2) /\ e[k + 1] = e[k] + l
<1>0. Len(S) = l + Len(S2) /\ \A p \in 1..Len(S2) : S2[p] = S[l + p]
  BY DEF Behind
<1>1. k + 1 \in 1..Len(s) /\ (k + 1) - 1 = k
  OBVIOUS
<1>2. e[k + 1] = e[k] + l
  BY <1>1 DEF Ledger
<1>3. \A i \in 0..Len(s) : e[i] \in Nat
  BY DEF Ledger
<1>4. ASSUME NEW i \in (k + 1 + 1)..Len(s), NEW j \in 1..Len(protocol_build_message(s[i])),
             e[i - 1] - e[k + 1] + j <= Len(S2)
      PROVE  S2[e[i - 1] - e[k + 1] + j] = protocol_build_message(s[i])[j]
  <2>1. i \in (k + 1)..Len(s) /\ i - 1 \in 0..Len(s) /\ k + 1 \in 0..Len(s) /\ k \in 0..Len(s)
        /\ k + 1 <= i - 1
    BY <1>1
  <2>2. e[i - 1] \in Nat /\ e[k] \in Nat /\ e[k + 1] \in Nat /\ e[k + 1] <= e[i - 1]
    BY <1>3, <2>1, LedgerGrows
  <2>3. j \in Nat /\ j >= 1
    <3> i \in 1..Len(s)
      BY <1>1
    <3> Len(protocol_build_message(s[i])) \in Nat
      BY SentLine DEF IsLine
    <3> QED OBVIOUS
  <2>4. PICK p : p = e[i - 1] - e[k + 1] + j
    OBVIOUS
  <2>5. p \in 1..Len(S2) /\ l + p = e[i - 1] - e[k] + j /\ l + p <= Len(S)
    <3>1. PICK a \in Nat, c \in Nat, d \in Nat : a = e[i - 1] /\ c = e[k] /\ d = e[k + 1]
      BY <2>2
    <3>2. d = c + l /\ d <= a /\ p = a - d + j /\ p <= Len(S2) /\ Len(S2) \in Nat
      BY <1>0, <1>2, <1>4, <2>2, <2>4, <3>1
    <3>3. p \in 1..Len(S2) /\ l + p = a - c + j /\ l + p <= l + Len(S2)
      BY <2>3, <3>2
    <3> QED BY <1>0, <3>1, <3>3
  <2>6. S[l + p] = protocol_build_message(s[i])[j]
    BY <2>1, <2>5 DEF Stream
  <2> QED BY <1>0, <2>4, <2>5, <2>6
<1> QED BY <1>2, <1>4 DEF Stream

\* Bytes lost at the end change nothing about the others.
LEMMA StreamCut ==
    ASSUME NEW s, NEW e, NEW k, NEW S, Stream(e, s, k, S), NEW S2, Begins(S2, S),
           Len(S) \in Nat, Len(S2) \in Nat,
           k \in Nat, k <= Len(s), s \in Seq(Messages), Ledger(e, s)
    PROVE  Stream(e, s, k, S2)
<1> SUFFICES ASSUME NEW i \in (k + 1)..Len(s), NEW j \in 1..Len(protocol_build_message(s[i])),
                    e[i - 1] - e[k] + j <= Len(S2)
             PROVE  S2[e[i - 1] - e[k] + j] = protocol_build_message(s[i])[j]
  BY DEF Stream
<1>1. i \in 1..Len(s) /\ i - 1 \in 0..Len(s) /\ k \in 0..Len(s) /\ k <= i - 1
  OBVIOUS
<1>2. Len(protocol_build_message(s[i])) \in Nat
  <2> IsLine(protocol_build_message(s[i]))
    BY <1>1, SentLine
  <2> QED BY DEF IsLine
<1>3. e[i - 1] \in Nat /\ e[k] \in Nat /\ e[k] <= e[i - 1]
  <2>1. e[k] <= e[i - 1]
    BY <1>1, LedgerGrows
  <2> QED BY <1>1, <2>1 DEF Ledger
<1>4. PICK p : p = e[i - 1] - e[k] + j
  OBVIOUS
<1>5. p \in 1..Len(S2) /\ p <= Len(S)
  <2>1. j \in Nat /\ j >= 1
    BY <1>2
  <2>2. PICK a \in Nat, c \in Nat : a = e[i - 1] /\ c = e[k] /\ c <= a
    BY <1>3
  <2>3. p = a - c + j /\ p <= Len(S2)
    BY <1>4, <2>2
  <2>4. PICK x \in Nat, y \in Nat : x = Len(S) /\ y = Len(S2) /\ y <= x
    BY DEF Begins
  <2>5. p \in Nat /\ p >= 1
    <3>1. \A u, v, w \in Nat : v <= u /\ w >= 1 => u - v + w \in Nat /\ u - v + w >= 1
      OBVIOUS
    <3>2. a - c + j \in Nat /\ a - c + j >= 1
      BY <2>1, <2>2, <3>1
    <3> QED BY <2>3, <3>2
  <2>6. p <= y
    BY <2>3, <2>4
  <2>7. p \in 1..y /\ p <= x
    BY <2>4, <2>5, <2>6
  <2> QED BY <2>4, <2>7
<1>6. S[p] = protocol_build_message(s[i])[j]
  BY <1>4, <1>5 DEF Stream
<1>7. S2[p] = S[p]
  BY <1>5 DEF Begins
<1> QED BY <1>4, <1>6, <1>7

\* One more message, whose line follows everything that is on its way.
Grown(e, e2, s, k, m, line, S2) ==
    /\ Ledger(e2, Append(s, m)) /\ Stream(e2, Append(s, m), k, S2)
    /\ e2[Len(s) + 1] = e[Len(s)] + Len(line)
    /\ e2[Len(s)] = e[Len(s)] /\ e2[k] = e[k]

LEMMA StreamGrows ==
    ASSUME NEW s \in Seq(Messages), NEW e, Ledger(e, s), NEW k \in Nat, k <= Len(s),
           NEW S \in Seq(Bytes), Stream(e, s, k, S), Len(S) = e[Len(s)] - e[k],
           NEW m \in Messages, NEW line, line = protocol_build_message(m),
           NEW S2 \in Seq(Bytes), Len(S2) = Len(S) + Len(line), Begins(S, S2),
           \A p \in 1..Len(line) : S2[Len(S) + p] = line[p]
    PROVE  \E e2 : Grown(e, e2, s, k, m, line, S2)
<1> DEFINE n == Len(s)
           s2 == Append(s, m)
<1>1. n \in Nat /\ \A i \in 0..n : e[i] \in Nat
  BY DEF Ledger
<1>2. /\ s2 \in Seq(Messages) /\ Len(s2) = n + 1 /\ s2[n + 1] = m
      /\ \A i \in 1..n : s2[i] = s[i]
  OBVIOUS
<1>3. Len(line) \in Nat
  BY BuildsLine DEF IsLine
<1> HIDE DEF n, s2
<1> DEFINE e2 == [i \in 0..(n + 1) |-> IF i <= n THEN e[i] ELSE e[n] + Len(line)]
<1>4. n \in 0..n /\ n \in 0..(n + 1) /\ k \in 0..n /\ k \in 0..(n + 1) /\ n + 1 \in 0..(n + 1)
  BY <1>1 DEF n
<1>5. /\ e2 \in [0..(n + 1) -> Nat]
      /\ \A i \in 0..n : e2[i] = e[i]
      /\ e2[n + 1] = e[n] + Len(line)
  <2>1. e[n] + Len(line) \in Nat
    BY <1>1, <1>3, <1>4
  <2>2. \A i \in 0..(n + 1) : i <= n => i \in 0..n
    BY <1>1
  <2>3. \A i \in 0..n : i \in 0..(n + 1) /\ i <= n
    BY <1>1
  <2>4. ~(n + 1 <= n)
    BY <1>1
  <2> QED BY <1>1, <1>4, <2>1, <2>2, <2>3, <2>4
<1> HIDE DEF e2
<1>6. Ledger(e2, s2)
  <2>1. ASSUME NEW i \in 1..(n + 1)
        PROVE  e2[i] = e2[i - 1] + Len(protocol_build_message(s2[i]))
    <3>1. CASE i = n + 1
      <4>1. i - 1 = n
        BY <1>1, <3>1
      <4> QED BY <1>2, <1>4, <1>5, <3>1, <4>1
    <3>2. CASE i # n + 1
      <4>1. i \in 1..n /\ i \in 0..n /\ i - 1 \in 0..n
        BY <1>1, <3>2
      <4>2. e[i] = e[i - 1] + Len(protocol_build_message(s[i]))
        BY <4>1 DEF Ledger, n
      <4> QED BY <1>2, <1>5, <4>1, <4>2
    <3> QED BY <3>1, <3>2
  <2> QED BY <1>2, <1>5, <2>1 DEF Ledger
<1>7. ASSUME NEW i \in (k + 1)..(n + 1), NEW j \in 1..Len(protocol_build_message(s2[i])),
             e2[i - 1] - e2[k] + j <= Len(S2)
      PROVE  S2[e2[i - 1] - e2[k] + j] = protocol_build_message(s2[i])[j]
  <2>1. i \in 1..(n + 1) /\ i - 1 \in 0..n
    BY <1>1
  <2>2. e2[i - 1] = e[i - 1] /\ e2[k] = e[k] /\ e[i - 1] \in Nat /\ e[k] \in Nat /\ e[n] \in Nat
    BY <1>1, <1>4, <1>5, <2>1
  <2>3. CASE i = n + 1
    <3>1. i - 1 = n /\ s2[i] = m
      BY <1>1, <1>2, <2>3
    <3>2. e2[i - 1] - e2[k] + j = Len(S) + j
      BY <2>2, <3>1 DEF n
    <3> QED BY <3>1, <3>2
  <2>4. CASE i # n + 1
    <3>1. i \in (k + 1)..n /\ i \in 1..n /\ i \in 0..n
      BY <1>1, <2>1, <2>4
    <3>2. s2[i] = s[i] /\ Len(protocol_build_message(s[i])) \in Nat
      <4> i \in 1..Len(s)
        BY <3>1 DEF n
      <4> QED BY <1>2, <3>1, SentLine DEF IsLine
    <3>3. PICK p : p = e[i - 1] - e[k] + j
      OBVIOUS
    <3>4. p \in 1..Len(S)
      <4>1. e[k] <= e[i - 1] /\ e[i] <= e[n]
        <5> k \in 0..Len(s) /\ i - 1 \in 0..Len(s) /\ k <= i - 1 /\ i \in 0..Len(s)
            /\ n \in 0..Len(s) /\ i <= n
          BY <1>4, <2>1, <3>1 DEF n
        <5> QED BY LedgerGrows
      <4>2. e[i] = e[i - 1] + Len(protocol_build_message(s[i]))
        BY <3>1 DEF Ledger, n
      <4>3. j \in Nat /\ j >= 1 /\ j <= Len(protocol_build_message(s[i]))
        BY <3>2
      <4>4. PICK a \in Nat, c \in Nat, d \in Nat, f \in Nat, l \in Nat :
                a = e[i - 1] /\ c = e[k] /\ d = e[i] /\ f = e[n]
                /\ l = Len(protocol_build_message(s[i]))
        BY <1>1, <2>2, <3>1, <3>2
      <4>5. Len(S) = f - c /\ Len(S) \in Nat
        BY <4>4 DEF n
      <4>6. c <= a /\ d <= f /\ d = a + l /\ j <= l /\ p = a - c + j
        BY <3>3, <4>1, <4>2, <4>3, <4>4
      <4>7. p \in 1..(f - c)
        BY <4>3, <4>6
      <4> QED BY <4>5, <4>7
    <3>5. S[p] = protocol_build_message(s[i])[j]
      <4>1. j \in 1..Len(protocol_build_message(s[i])) /\ i \in (k + 1)..Len(s)
        BY <3>1, <3>2 DEF n
      <4>2. e[i - 1] - e[k] + j <= Len(S)
        BY <3>3, <3>4
      <4>3. S[e[i - 1] - e[k] + j] = protocol_build_message(s[i])[j]
        BY <4>1, <4>2 DEF Stream
      <4> QED BY <3>3, <4>3
    <3>6. S2[p] = S[p]
      BY <3>4 DEF Begins
    <3> QED BY <2>2, <3>2, <3>3, <3>5, <3>6
  <2> QED BY <2>3, <2>4
<1>8. Stream(e2, s2, k, S2)
  BY <1>2, <1>7 DEF Stream
<1>9. e2[n + 1] = e[n] + Len(line) /\ e2[n] = e[n] /\ e2[k] = e[k]
  BY <1>4, <1>5
<1>10. Grown(e, e2, s, k, m, line, S2)
  BY <1>6, <1>8, <1>9 DEF n, s2, Grown
<1> QED BY <1>10

-----------------------------------------------------------------------------
(* What the receiver has not read a whole message of *)

OnWay(b, p, o) == b \o (p \o o)

\* Facts about concatenation, in the form in which they are cited.
Assoc(s, t, u) == (s \o t) \o u = s \o (t \o u)
IsCat(c, s, t) ==
    /\ c \in Seq(Bytes) /\ Len(c) = Len(s) + Len(t)
    /\ Len(s) \in Nat /\ Len(t) \in Nat
    /\ \A i \in 1..Len(s) : c[i] = s[i]
    /\ \A i \in 1..Len(t) : c[Len(s) + i] = t[i]

LEMMA CatAssoc ==
    ASSUME NEW s \in Seq(Bytes), NEW t \in Seq(Bytes), NEW u \in Seq(Bytes)
    PROVE  Assoc(s, t, u)
BY ConcatAssociative DEF Assoc

LEMMA CatIs ==
    ASSUME NEW s \in Seq(Bytes), NEW t \in Seq(Bytes)
    PROVE  IsCat(s \o t, s, t)
<1>1. Len(s) \in Nat /\ Len(t) \in Nat
  OBVIOUS
<1>2. /\ s \o t \in Seq(Bytes) /\ Len(s \o t) = Len(s) + Len(t)
      /\ \A i \in 1..(Len(s) + Len(t)) :
            (s \o t)[i] = IF i <= Len(s) THEN s[i] ELSE t[i - Len(s)]
  BY ConcatProperties
<1>3. PICK c : c = s \o t
  OBVIOUS
<1>4. \A i \in 1..Len(s) : c[i] = s[i]
  <2> SUFFICES ASSUME NEW i \in 1..Len(s) PROVE c[i] = s[i]
    OBVIOUS
  <2>1. i \in 1..(Len(s) + Len(t)) /\ i <= Len(s)
    BY <1>1
  <2> QED BY <1>2, <1>3, <2>1
<1>5. \A i \in 1..Len(t) : c[Len(s) + i] = t[i]
  <2> SUFFICES ASSUME NEW i \in 1..Len(t) PROVE c[Len(s) + i] = t[i]
    OBVIOUS
  <2>1. /\ Len(s) + i \in 1..(Len(s) + Len(t)) /\ ~(Len(s) + i <= Len(s))
        /\ (Len(s) + i) - Len(s) = i
    BY <1>1
  <2> QED BY <1>2, <1>3, <2>1
<1> QED BY <1>1, <1>2, <1>3, <1>4, <1>5 DEF IsCat

LEMMA OnWayType ==
    ASSUME NEW b \in Seq(Bytes), NEW p \in Seq(Bytes), NEW o \in Seq(Bytes)
    PROVE  /\ OnWay(b, p, o) \in Seq(Bytes)
           /\ Len(OnWay(b, p, o)) = Len(b) + Len(p) + Len(o)
           /\ Len(b) \in Nat /\ Len(p) \in Nat /\ Len(o) \in Nat
           /\ Begins(b, OnWay(b, p, o))
           /\ \A i \in 1..(Len(p) + Len(o)) : OnWay(b, p, o)[Len(b) + i] = (p \o o)[i]
<1> HIDE DEF Bytes
<1>1. PICK r : r = p \o o
  OBVIOUS
<1>2. IsCat(r, p, o)
  BY <1>1, CatIs
<1>3. r \in Seq(Bytes) /\ Len(r) = Len(p) + Len(o) /\ Len(p) \in Nat /\ Len(o) \in Nat
  BY <1>2 DEF IsCat
<1>4. PICK c : c = b \o r
  OBVIOUS
<1>5. IsCat(c, b, r)
  BY <1>3, <1>4, CatIs
<1>6. Len(b) <= Len(c) /\ \A i \in 1..Len(b) : c[i] = b[i]
  BY <1>3, <1>5 DEF IsCat
<1>7. /\ c \in Seq(Bytes) /\ Len(c) = Len(b) + Len(r) /\ Len(b) \in Nat
      /\ \A i \in 1..Len(r) : c[Len(b) + i] = r[i]
  BY <1>5 DEF IsCat
<1>8. Len(c) = Len(b) + Len(p) + Len(o)
  BY <1>3, <1>7
<1> QED BY <1>1, <1>3, <1>4, <1>6, <1>7, <1>8 DEF OnWay, Begins

\* The pieces send() takes add up to the line.
LEMMA Cut ==
    ASSUME NEW o \in Seq(Bytes), NEW n \in Nat, n <= Len(o)
    PROVE  /\ SubSeq(o, 1, n) \in Seq(Bytes) /\ SubSeq(o, n + 1, Len(o)) \in Seq(Bytes)
           /\ Len(SubSeq(o, 1, n)) = n
           /\ SubSeq(o, 1, n) \o SubSeq(o, n + 1, Len(o)) = o
<1> HIDE DEF Bytes
<1> DEFINE x == SubSeq(o, 1, n)
           y == SubSeq(o, n + 1, Len(o))
<1>1. x \in Seq(Bytes) /\ Len(x) = n /\ \A i \in 1..n : x[i] = o[i]
  OBVIOUS
<1>2. y \in Seq(Bytes) /\ Len(y) = Len(o) - n /\ \A i \in 1..(Len(o) - n) : y[i] = o[n + i]
  OBVIOUS
<1> HIDE DEF x, y
<1>3. PICK z : z = x \o y
  OBVIOUS
<1>4. IsCat(z, x, y)
  BY <1>1, <1>2, <1>3, CatIs
<1>5. z \in Seq(Bytes) /\ Len(z) = Len(o)
  BY <1>1, <1>2, <1>4 DEF IsCat
<1>6. \A i \in 1..Len(o) : z[i] = o[i]
  <2> SUFFICES ASSUME NEW i \in 1..Len(o) PROVE z[i] = o[i]
    OBVIOUS
  <2>1. CASE i <= n
    <3> i \in 1..n
      BY <2>1
    <3> QED BY <1>1, <1>4 DEF IsCat
  <2>2. CASE ~(i <= n)
    <3>1. i - n \in 1..(Len(o) - n) /\ n + (i - n) = i
      BY <2>2
    <3>2. PICK d : d = i - n
      OBVIOUS
    <3>3. d \in 1..Len(y) /\ n + d = i /\ y[d] = o[n + d]
      BY <1>2, <3>1, <3>2
    <3> QED BY <1>1, <1>4, <3>3 DEF IsCat
  <2> QED BY <2>1, <2>2
<1>7. z = o
  BY <1>5, <1>6, SeqEqual
<1> QED BY <1>1, <1>2, <1>3, <1>7 DEF x, y

\* A piece on its way is no longer the sender's.
LEMMA PieceMoves ==
    ASSUME NEW b \in Seq(Bytes), NEW p \in Seq(Bytes), NEW o \in Seq(Bytes),
           NEW n \in Nat, n <= Len(o)
    PROVE  OnWay(b, p \o SubSeq(o, 1, n), SubSeq(o, n + 1, Len(o))) = OnWay(b, p, o)
<1> HIDE DEF Bytes
<1>1. PICK x, y : x = SubSeq(o, 1, n) /\ y = SubSeq(o, n + 1, Len(o))
  OBVIOUS
<1>2. x \in Seq(Bytes) /\ y \in Seq(Bytes) /\ x \o y = o
  BY <1>1, Cut
<1>3. Assoc(p, x, y)
  BY <1>2, CatAssoc
<1> QED BY <1>1, <1>2, <1>3 DEF OnWay, Assoc

\* A byte that was read is no longer on its way.
LEMMA ByteMoves ==
    ASSUME NEW b \in Seq(Bytes), NEW p \in Seq(Bytes), p # <<>>, NEW o \in Seq(Bytes)
    PROVE  /\ Append(b, Head(p)) \in Seq(Bytes) /\ Tail(p) \in Seq(Bytes)
           /\ OnWay(Append(b, Head(p)), Tail(p), o) = OnWay(b, p, o)
<1> HIDE DEF Bytes
<1>1. PICK h, r : h = <<Head(p)>> /\ r = Tail(p)
  OBVIOUS
<1>2. Head(p) \in Bytes /\ r \in Seq(Bytes) /\ Len(r) = Len(p) - 1
      /\ \A i \in 1..Len(r) : r[i] = p[i + 1]
  BY <1>1, HeadTailProperties
<1>3. h \in Seq(Bytes) /\ Len(h) = 1 /\ h[1] = p[1]
  BY <1>1, <1>2
<1>4. p = h \o r
  <2>1. PICK c : c = h \o r
    OBVIOUS
  <2>2. IsCat(c, h, r)
    BY <1>2, <1>3, <2>1, CatIs
  <2>3. c \in Seq(Bytes) /\ Len(c) = Len(p)
    BY <1>2, <1>3, <2>2 DEF IsCat
  <2>4. \A i \in 1..Len(p) : c[i] = p[i]
    <3> SUFFICES ASSUME NEW i \in 1..Len(p) PROVE c[i] = p[i]
      OBVIOUS
    <3>1. CASE i = 1
      BY <1>3, <2>2, <3>1 DEF IsCat
    <3>2. CASE i # 1
      <4>1. i - 1 \in 1..Len(r) /\ (i - 1) + 1 = i
        BY <1>2, <3>2
      <4>2. PICK d : d = i - 1
        OBVIOUS
      <4>3. d \in 1..Len(r) /\ i = 1 + d /\ r[d] = p[d + 1] /\ d + 1 = i
        BY <1>2, <4>1, <4>2
      <4> QED BY <1>3, <2>2, <4>3 DEF IsCat
    <3> QED BY <3>1, <3>2
  <2>5. c = p
    BY <2>3, <2>4, SeqEqual
  <2> QED BY <2>1, <2>5
<1>5. Append(b, Head(p)) = b \o h
  BY <1>1, <1>2
<1>6. b \o h \in Seq(Bytes) /\ r \o o \in Seq(Bytes)
  BY <1>2, <1>3, CatIs DEF IsCat
<1>7. Assoc(b, h, r \o o)
  BY <1>3, <1>6, CatAssoc
<1>8. Assoc(h, r, o)
  BY <1>2, <1>3, CatAssoc
<1>9. OnWay(b \o h, r, o) = OnWay(b, p, o)
  BY <1>4, <1>7, <1>8 DEF OnWay, Assoc
<1> QED BY <1>1, <1>2, <1>5, <1>6, <1>9

-----------------------------------------------------------------------------
(* The invariant of a connection that one thread t writes to *)

\* What protocol_receive_message returns, with its fields.
Message(r) == [raw |-> r, fields |-> protocol_parse_message(r)]
Received == {Message(r) : r \in Seq(Bytes) \ {<<>>}}

Types ==
    /\ out \in [Threads -> Seq(Bytes)]
    /\ pipe \in Seq(Bytes) /\ buffer \in Seq(Bytes)
    /\ open \in BOOLEAN /\ reading \in BOOLEAN
    /\ sent \in Seq(Messages) /\ got \in Seq(Received)

Bounds == Len(pipe) <= Capacity /\ count \in 0..MaxMessages

\* The sender is gone.
Gone == ~open => \A t \in Threads : out[t] = <<>>

\* The current message, as far as it was read.
Partial ==
    /\ \A p \in 1..Len(buffer) : buffer[p] # PROTOCOL_TERMINATOR
    /\ Len(buffer) < MAX_MESSAGE_SIZE
    /\ reading => Len(buffer) < MAX_MESSAGE_SIZE - 1

\* Whole messages were received, but for one that was cut at the end.
WholeLine(g, s, i) == g[i].raw = protocol_build_message(s[i])
CutLine(g, s, i, o) ==
    /\ i = Len(g) /\ i = Len(s) /\ ~o
    /\ IsStrictPrefix(g[i].raw, protocol_build_message(s[i]))
InOrder(g, s, o) ==
    /\ Len(g) <= Len(s)
    /\ \A i \in 1..Len(g) : WholeLine(g, s, i) \/ CutLine(g, s, i, o)

\* Behind the k messages received, the bytes S of the others; those of the last
\* message that the thread has passed to send() are here.
OnTheWay(e, s, k, S, here, o) ==
    /\ Ledger(e, s) /\ Stream(e, s, k, S)
    /\ Len(S) <= e[Len(s)] - e[k]
    /\ o => Len(S) = e[Len(s)] - e[k]
    /\ k < Len(s) => here > e[Len(s) - 1] - e[k]

Flow(t) ==
    reading => \E e : OnTheWay(e, sent, Len(got), OnWay(buffer, pipe, out[t]),
                               Len(buffer) + Len(pipe), open)

TooLong ==
    ~reading /\ open =>
          /\ Len(got) < Len(sent)
          /\ Len(protocol_build_message(sent[Len(got) + 1])) >= MAX_MESSAGE_SIZE

Inv(t) == Types /\ Bounds /\ Gone /\ Partial /\ InOrder(got, sent, open) /\ Flow(t) /\ TooLong

LEMMA Sizes ==
    ASSUME Types
    PROVE  Len(pipe) \in Nat /\ Len(buffer) \in Nat /\ Len(sent) \in Nat /\ Len(got) \in Nat
BY DEF Types

LEMMA InvInit ==
    ASSUME NEW t, Threads = {t}, Init
    PROVE  Inv(t)
<1>1. out = [u \in Threads |-> <<>>] /\ pipe = <<>> /\ open = TRUE /\ buffer = <<>>
      /\ reading = TRUE /\ got = <<>> /\ sent = <<>> /\ count = 0
  BY DEF Init
<1>2. Types
  BY <1>1 DEF Types
<1>3. Bounds /\ Gone /\ Partial /\ TooLong
  BY <1>1, WireAssumption DEF Bounds, Gone, Partial, TooLong
<1>4. InOrder(got, sent, open)
  BY <1>1 DEF InOrder
<1>5. Flow(t)
  <2>1. PICK e : e = [i \in 0..0 |-> 0]
    OBVIOUS
  <2>2. e[0] = 0 /\ e \in [0..0 -> Nat]
    BY <2>1
  <2>3. Len(sent) = 0 /\ Len(got) = 0
    BY <1>1
  <2>4. Ledger(e, sent) /\ Stream(e, sent, 0, OnWay(buffer, pipe, out[t]))
    BY <2>2, <2>3 DEF Ledger, Stream
  <2>5. Len(OnWay(buffer, pipe, out[t])) = 0
    <3> out[t] = <<>>
      BY <1>1
    <3> QED BY <1>1 DEF OnWay
  <2> QED BY <2>2, <2>3, <2>4, <2>5 DEF Flow, OnTheWay
<1> QED BY <1>2, <1>3, <1>4, <1>5 DEF Inv

\* What Begin does, with the piece x that send() takes.
LEMMA InvBegin ==
    ASSUME NEW t, Threads = {t}, Inv(t), NEW u \in Threads, NEW m \in Messages, Begin(u, m)
    PROVE  Inv(t)'
<1>0. PICK line : line = protocol_build_message(m)
  OBVIOUS
<1>1. /\ Types /\ Bounds /\ Gone /\ Partial /\ InOrder(got, sent, open) /\ Flow(t) /\ TooLong
      /\ u = t
  BY DEF Inv
<1>2. IsLine(line)
  BY <1>0, BuildsLine
<1>3. line \in Seq(Bytes) /\ Len(line) \in Nat
  BY <1>2 DEF IsLine
<1>4. PICK n \in 1..(Capacity - Len(pipe)) :
        /\ n <= Len(line)
        /\ pipe' = pipe \o SubSeq(line, 1, n)
        /\ out' = [out EXCEPT ![t] = SubSeq(line, n + 1, Len(line))]
  BY <1>0, <1>1 DEF Begin
<1>5. /\ open /\ reading /\ out[t] = <<>> /\ count < MaxMessages
      /\ sent' = Append(sent, m) /\ count' = count + 1
      /\ open' = open /\ buffer' = buffer /\ reading' = reading /\ got' = got
  BY <1>1 DEF Begin
<1>6. n \in Nat /\ n >= 1 /\ n <= Capacity - Len(pipe)
  BY <1>1, Sizes, WireAssumption
<1>7. PICK x, y : x = SubSeq(line, 1, n) /\ y = SubSeq(line, n + 1, Len(line))
  OBVIOUS
<1>8. x \in Seq(Bytes) /\ y \in Seq(Bytes) /\ Len(x) = n /\ x \o y = line
  BY <1>3, <1>4, <1>6, <1>7, Cut
<1>9. /\ pipe \in Seq(Bytes) /\ buffer \in Seq(Bytes) /\ out \in [Threads -> Seq(Bytes)]
      /\ sent \in Seq(Messages) /\ got \in Seq(Received)
  BY <1>1 DEF Types
<1>10. IsCat(pipe', pipe, x)
  BY <1>4, <1>7, <1>8, <1>9, CatIs
<1>11. pipe' \in Seq(Bytes) /\ Len(pipe') = Len(pipe) + n
  BY <1>8, <1>10 DEF IsCat
<1>12. out' \in [Threads -> Seq(Bytes)] /\ out'[t] = y
  BY <1>1, <1>4, <1>7, <1>8, <1>9
<1>13. sent' \in Seq(Messages) /\ Len(sent') = Len(sent) + 1 /\ \A i \in 1..Len(sent) : sent'[i] = sent[i]
  BY <1>5, <1>9
<1>14. Types'
  BY <1>1, <1>5, <1>11, <1>12, <1>13 DEF Types
<1>15. Bounds'
  <2>1. Len(pipe') <= Capacity
    BY <1>1, <1>6, <1>11, Sizes, WireAssumption
  <2>2. count' \in 0..MaxMessages
    BY <1>1, <1>5, WireAssumption DEF Bounds
  <2> QED BY <2>1, <2>2 DEF Bounds
<1>16. Gone' /\ Partial' /\ TooLong'
  BY <1>1, <1>5 DEF Gone, Partial, TooLong
<1>17. InOrder(got', sent', open')
  <2>1. Len(got) <= Len(sent) /\ Len(got) \in Nat /\ Len(sent) \in Nat
    BY <1>1, Sizes DEF InOrder
  <2>2. ASSUME NEW i \in 1..Len(got) PROVE WholeLine(got, sent', i)
    <3>1. i \in 1..Len(sent)
      BY <2>1
    <3>2. WholeLine(got, sent, i)
      BY <1>1, <1>5 DEF InOrder, CutLine
    <3> QED BY <1>13, <3>1, <3>2 DEF WholeLine
  <2>3. Len(got) <= Len(sent')
    BY <1>13, <2>1
  <2>4. InOrder(got, sent', open')
    BY <2>2, <2>3 DEF InOrder
  <2> QED BY <1>5, <2>4
<1>18. Flow(t)'
  <2>1. PICK e : OnTheWay(e, sent, Len(got), OnWay(buffer, pipe, out[t]),
                           Len(buffer) + Len(pipe), open)
    BY <1>1, <1>5 DEF Flow
  <2> DEFINE k == Len(got)
             S == OnWay(buffer, pipe, <<>>)
             S2 == OnWay(buffer, pipe', y)
  <2>2. k \in Nat /\ k <= Len(sent) /\ Len(sent) \in Nat
    BY <1>1, Sizes DEF InOrder
  <2>3. <<>> \in Seq(Bytes)
    OBVIOUS
  <2>4. /\ S \in Seq(Bytes) /\ Len(S) = Len(buffer) + Len(pipe) + 0
        /\ Len(buffer) \in Nat /\ Len(pipe) \in Nat
    BY <1>9, <2>3, OnWayType
  <2>5. S2 = S \o line
    <3>1. buffer \o pipe \in Seq(Bytes) /\ Assoc(buffer, pipe, line)
      BY <1>3, <1>9, CatAssoc, CatIs DEF IsCat
    <3>2. Assoc(pipe, x, y)
      BY <1>8, <1>9, CatAssoc
    <3>3. S = buffer \o pipe
      BY <1>9, ConcatEmptySeq DEF OnWay
    <3>4. S2 = buffer \o (pipe \o line)
      BY <1>4, <1>7, <1>8, <3>2 DEF OnWay, Assoc
    <3> QED BY <3>1, <3>3, <3>4 DEF Assoc
  <2>6. IsCat(S2, S, line)
    BY <1>3, <2>4, <2>5, CatIs
  <2>7. /\ Ledger(e, sent) /\ Stream(e, sent, k, S) /\ Len(S) = e[Len(sent)] - e[k]
    BY <1>5, <2>1 DEF OnTheWay
  <2>8. S2 \in Seq(Bytes) /\ Len(S2) = Len(S) + Len(line) /\ Begins(S, S2)
        /\ \A p \in 1..Len(line) : S2[Len(S) + p] = line[p]
    <3>1. Len(S) \in Nat /\ Len(S) <= Len(S) + Len(line)
      BY <1>3, <2>4
    <3> QED BY <2>6, <3>1 DEF IsCat, Begins
  <2> HIDE DEF k, S, S2
  <2>18. PICK e2 : Grown(e, e2, sent, k, m, line, S2)
    BY <1>0, <1>9, <2>2, <2>4, <2>7, <2>8, StreamGrows
  <2>9. /\ Ledger(e2, sent') /\ Stream(e2, sent', k, S2)
        /\ e2[Len(sent) + 1] = e[Len(sent)] + Len(line)
        /\ e2[Len(sent)] = e[Len(sent)] /\ e2[k] = e[k]
    BY <1>5, <2>18 DEF Grown
  <2>10. e[Len(sent)] \in Nat /\ e[k] \in Nat
    BY <2>2, <2>7 DEF Ledger
  <2>11. PICK a \in Nat, c \in Nat : a = e[Len(sent)] /\ c = e[k]
    BY <2>10
  <2>12. Len(S) = a - c /\ Len(S2) = Len(S) + Len(line)
    BY <2>7, <2>8, <2>11
  <2>13. Len(S2) = (a + Len(line)) - c
    BY <1>3, <2>11, <2>12
  <2>14. Len(buffer) + Len(pipe') > a - c
    BY <1>6, <1>11, <2>4, <2>12
  <2>15. Len(S2) = e2[Len(sent')] - e2[k] /\ Len(S2) <= e2[Len(sent')] - e2[k]
    BY <1>3, <1>13, <2>9, <2>11, <2>13
  <2>16. Len(buffer) + Len(pipe') > e2[Len(sent') - 1] - e2[k]
    <3>1. Len(sent') - 1 = Len(sent)
      BY <1>13, <2>2
    <3> QED BY <2>9, <2>11, <2>14, <3>1
  <2>17. OnTheWay(e2, sent', k, S2, Len(buffer) + Len(pipe'), open)
    BY <1>5, <2>9, <2>15, <2>16 DEF OnTheWay
  <2> QED BY <1>5, <1>12, <2>17 DEF Flow, k, S2
<1> QED BY <1>14, <1>15, <1>16, <1>17, <1>18 DEF Inv

\* What Send does.
LEMMA InvSend ==
    ASSUME NEW t, Threads = {t}, Inv(t), NEW u \in Threads, Send(u)
    PROVE  Inv(t)'
<1>1. /\ Types /\ Bounds /\ Gone /\ Partial /\ InOrder(got, sent, open) /\ Flow(t) /\ TooLong
      /\ u = t
  BY DEF Inv
<1>2. PICK n \in 1..(Capacity - Len(pipe)) :
        /\ n <= Len(out[t])
        /\ pipe' = pipe \o SubSeq(out[t], 1, n)
        /\ out' = [out EXCEPT ![t] = SubSeq(out[t], n + 1, Len(out[t]))]
  BY <1>1 DEF Send, Rest
<1>3. /\ reading /\ out[t] # <<>>
      /\ sent' = sent /\ count' = count
      /\ open' = open /\ buffer' = buffer /\ reading' = reading /\ got' = got
  BY <1>1 DEF Send
<1>4. n \in Nat /\ n >= 1 /\ n <= Capacity - Len(pipe)
  BY <1>1, Sizes, WireAssumption
<1>5. /\ pipe \in Seq(Bytes) /\ buffer \in Seq(Bytes) /\ out \in [Threads -> Seq(Bytes)]
      /\ out[t] \in Seq(Bytes)
  BY <1>1 DEF Types
<1>6. PICK o, x, y : o = out[t] /\ x = SubSeq(o, 1, n) /\ y = SubSeq(o, n + 1, Len(o))
  OBVIOUS
<1>7. /\ x \in Seq(Bytes) /\ y \in Seq(Bytes) /\ Len(x) = n
      /\ OnWay(buffer, pipe \o x, y) = OnWay(buffer, pipe, o)
  BY <1>2, <1>4, <1>5, <1>6, Cut, PieceMoves
<1>8. IsCat(pipe', pipe, x)
  BY <1>2, <1>5, <1>6, <1>7, CatIs
<1>9. pipe' \in Seq(Bytes) /\ Len(pipe') = Len(pipe) + n
  BY <1>7, <1>8 DEF IsCat
<1>10. out' \in [Threads -> Seq(Bytes)] /\ out'[t] = y
  BY <1>1, <1>2, <1>5, <1>6, <1>7
<1>11. Types'
  BY <1>1, <1>3, <1>9, <1>10 DEF Types
<1>12. Bounds'
  <2>1. Len(pipe') <= Capacity
    BY <1>1, <1>4, <1>9, Sizes, WireAssumption
  <2> QED BY <1>1, <1>3, <2>1 DEF Bounds
<1>13. open
  BY <1>1, <1>3 DEF Gone
<1>14. Gone' /\ Partial' /\ TooLong' /\ InOrder(got', sent', open')
  BY <1>1, <1>3, <1>13 DEF Gone, Partial, TooLong
<1>15. Flow(t)'
  <2>1. PICK e : OnTheWay(e, sent, Len(got), OnWay(buffer, pipe, o), Len(buffer) + Len(pipe), open)
    BY <1>1, <1>3, <1>6 DEF Flow
  <2>2. OnWay(buffer', pipe', out'[t]) = OnWay(buffer, pipe, o)
    BY <1>2, <1>3, <1>6, <1>7, <1>10
  <2>3. PICK h1, h2 : h1 = Len(buffer) + Len(pipe) /\ h2 = Len(buffer) + Len(pipe')
    OBVIOUS
  <2>4. h1 \in Nat /\ h2 \in Nat /\ h1 <= h2
    BY <1>1, <1>4, <1>9, <2>3, Sizes
  <2>5. PICK S : S = OnWay(buffer, pipe, o)
    OBVIOUS
  <2>6. /\ Ledger(e, sent) /\ Stream(e, sent, Len(got), S)
        /\ Len(S) <= e[Len(sent)] - e[Len(got)]
        /\ open => Len(S) = e[Len(sent)] - e[Len(got)]
        /\ Len(got) < Len(sent) => h1 > e[Len(sent) - 1] - e[Len(got)]
    BY <2>1, <2>3, <2>5 DEF OnTheWay
  <2>7. Len(got) < Len(sent) => h2 > e[Len(sent) - 1] - e[Len(got)]
    <3> SUFFICES ASSUME Len(got) < Len(sent) PROVE h2 > e[Len(sent) - 1] - e[Len(got)]
      OBVIOUS
    <3>1. Len(sent) - 1 \in 0..Len(sent) /\ Len(got) \in 0..Len(sent)
      BY <1>1, Sizes
    <3>2. PICK a \in Nat, c \in Nat : a = e[Len(sent) - 1] /\ c = e[Len(got)]
      BY <2>6, <3>1 DEF Ledger
    <3>3. h1 > a - c
      BY <2>6, <3>2
    <3> QED BY <2>4, <3>2, <3>3
  <2>8. OnTheWay(e, sent, Len(got), S, h2, open)
    BY <2>6, <2>7 DEF OnTheWay
  <2> QED BY <1>3, <2>2, <2>3, <2>5, <2>8 DEF Flow
<1> QED BY <1>11, <1>12, <1>14, <1>15 DEF Inv

\* What SendFails does.
LEMMA InvSendFails ==
    ASSUME NEW t, Threads = {t}, Inv(t), NEW u \in Threads, SendFails(u)
    PROVE  Inv(t)'
<1>1. /\ Types /\ Bounds /\ Gone /\ Partial /\ InOrder(got, sent, open) /\ TooLong
      /\ u = t
  BY DEF Inv
<1>2. /\ ~reading /\ out' = [out EXCEPT ![t] = <<>>]
      /\ pipe' = pipe /\ sent' = sent /\ count' = count
      /\ open' = open /\ buffer' = buffer /\ reading' = reading /\ got' = got
  BY <1>1 DEF SendFails
<1>3. out' \in [Threads -> Seq(Bytes)] /\ out'[t] = <<>>
  BY <1>1, <1>2 DEF Types
<1>4. Types' /\ Bounds' /\ Gone' /\ Partial' /\ TooLong'
  BY <1>1, <1>2, <1>3 DEF Types, Bounds, Gone, Partial, TooLong
<1>5. InOrder(got', sent', open') /\ Flow(t)'
  BY <1>1, <1>2 DEF Flow
<1> QED BY <1>4, <1>5 DEF Inv

\* What Close does.
LEMMA InvClose ==
    ASSUME NEW t, Threads = {t}, Inv(t), Close
    PROVE  Inv(t)'
<1>1. Types /\ Bounds /\ Gone /\ Partial /\ InOrder(got, sent, open) /\ Flow(t) /\ TooLong
  BY DEF Inv
<1>2. /\ open /\ open' = FALSE /\ out' = [u \in Threads |-> <<>>]
      /\ pipe' = pipe /\ sent' = sent /\ count' = count
      /\ buffer' = buffer /\ reading' = reading /\ got' = got
  BY DEF Close
<1>3. out' \in [Threads -> Seq(Bytes)] /\ out'[t] = <<>>
  BY <1>2
<1>4. Types' /\ Bounds' /\ Gone' /\ Partial' /\ TooLong'
  BY <1>1, <1>2, <1>3 DEF Types, Bounds, Gone, Partial, TooLong
<1>5. InOrder(got', sent', open')
  <2>1. Len(got) <= Len(sent) /\ \A i \in 1..Len(got) : WholeLine(got, sent, i)
    BY <1>1, <1>2 DEF InOrder, CutLine
  <2>2. InOrder(got, sent, open')
    BY <2>1 DEF InOrder
  <2> QED BY <1>2, <2>2
<1>6. Flow(t)'
  <2> SUFFICES ASSUME reading PROVE Flow(t)'
    BY <1>2 DEF Flow
  <2>1. PICK e : OnTheWay(e, sent, Len(got), OnWay(buffer, pipe, out[t]),
                           Len(buffer) + Len(pipe), open)
    BY <1>1 DEF Flow
  <2>2. PICK S, S2 : S = OnWay(buffer, pipe, out[t]) /\ S2 = OnWay(buffer, pipe, <<>>)
    OBVIOUS
  <2>3. pipe \in Seq(Bytes) /\ buffer \in Seq(Bytes) /\ out[t] \in Seq(Bytes) /\ sent \in Seq(Messages)
    BY <1>1 DEF Types
  <2>4. S2 = buffer \o pipe /\ S2 \in Seq(Bytes) /\ S = S2 \o out[t]
    <3>1. buffer \o pipe \in Seq(Bytes) /\ Assoc(buffer, pipe, out[t])
      BY <2>3, CatAssoc, CatIs DEF IsCat
    <3>2. OnWay(buffer, pipe, <<>>) = buffer \o pipe
      BY <2>3, ConcatEmptySeq DEF OnWay
    <3> QED BY <2>2, <3>1, <3>2 DEF OnWay, Assoc
  <2>5. IsCat(S, S2, out[t])
    BY <2>3, <2>4, CatIs
  <2>6. Begins(S2, S) /\ Len(S) \in Nat /\ Len(S2) \in Nat /\ Len(S2) <= Len(S)
    <3>1. Len(S2) \in Nat /\ Len(out[t]) \in Nat /\ Len(S) = Len(S2) + Len(out[t])
      BY <2>5 DEF IsCat
    <3>2. Len(S2) <= Len(S) /\ Len(S) \in Nat
      BY <3>1
    <3> QED BY <2>5, <3>1, <3>2 DEF IsCat, Begins
  <2>7. /\ Ledger(e, sent) /\ Stream(e, sent, Len(got), S)
        /\ Len(S) = e[Len(sent)] - e[Len(got)]
        /\ Len(got) < Len(sent) => Len(buffer) + Len(pipe) > e[Len(sent) - 1] - e[Len(got)]
    BY <1>2, <2>1, <2>2 DEF OnTheWay
  <2>8. Len(got) \in Nat /\ Len(got) <= Len(sent)
    BY <1>1, Sizes DEF InOrder
  <2>9. Stream(e, sent, Len(got), S2)
    BY <2>3, <2>6, <2>7, <2>8, StreamCut
  <2>10. Len(S2) <= e[Len(sent)] - e[Len(got)]
    BY <2>6, <2>7
  <2>11. OnTheWay(e, sent, Len(got), S2, Len(buffer) + Len(pipe), FALSE)
    BY <2>7, <2>9, <2>10 DEF OnTheWay
  <2> QED BY <1>2, <1>3, <2>2, <2>11 DEF Flow
<1> QED BY <1>4, <1>5, <1>6 DEF Inv

-----------------------------------------------------------------------------
(* The receiver *)

\* Bytes read, b, are the beginning of the next message.
IsNext(b, line) ==
    /\ Len(b) \in Nat /\ Len(b) >= 1
    /\ Len(b) <= Len(line)
    /\ \A p \in 1..Len(b) : b[p] = line[p]
    /\ b[Len(b)] = PROTOCOL_TERMINATOR <=> Len(b) = Len(line)

LEMMA NextRead ==
    ASSUME NEW s \in Seq(Messages), NEW e, NEW k \in Nat, k <= Len(s), NEW S \in Seq(Bytes),
           NEW here, NEW o, OnTheWay(e, s, k, S, here, o),
           NEW b \in Seq(Bytes), b # <<>>, Begins(b, S),
           \A p \in 1..(Len(b) - 1) : b[p] # PROTOCOL_TERMINATOR
    PROVE  k < Len(s) /\ IsNext(b, protocol_build_message(s[k + 1]))
<1>1. Ledger(e, s) /\ Stream(e, s, k, S) /\ Len(S) <= e[Len(s)] - e[k]
  BY DEF OnTheWay
<1>2. Len(b) \in Nat /\ Len(b) >= 1 /\ Len(S) \in Nat /\ Len(b) <= Len(S) /\ Len(s) \in Nat
  BY DEF Begins
<1>3. k < Len(s)
  <2> SUFFICES ASSUME k = Len(s) PROVE FALSE
    BY <1>2
  <2>1. e[k] \in Nat
    BY <1>1, <1>2 DEF Ledger
  <2> QED BY <1>1, <1>2, <2>1
<1>4. PICK line : line = protocol_build_message(s[k + 1])
  OBVIOUS
<1>5. /\ Len(b) <= Len(line)
      /\ \A p \in 1..Len(b) : b[p] = line[p]
      /\ b[Len(b)] = PROTOCOL_TERMINATOR <=> Len(b) = Len(line)
  BY <1>1, <1>3, <1>4, NextMessage
<1> QED BY <1>2, <1>3, <1>4, <1>5 DEF IsNext

\* The next message is complete.
LEMMA WholeRead ==
    ASSUME NEW b \in Seq(Bytes), NEW line, IsLine(line), IsNext(b, line),
           b[Len(b)] = PROTOCOL_TERMINATOR
    PROVE  b = line
<1>1. line \in Seq(Bytes) /\ Len(b) = Len(line) /\ \A p \in 1..Len(b) : b[p] = line[p]
  BY DEF IsLine, IsNext
<1> QED BY <1>1, SeqEqual

\* The next message was cut.
LEMMA CutRead ==
    ASSUME NEW b \in Seq(Bytes), NEW line, IsLine(line), IsNext(b, line),
           b[Len(b)] # PROTOCOL_TERMINATOR
    PROVE  Len(b) < Len(line) /\ IsStrictPrefix(b, line)
<1>1. /\ line \in Seq(Bytes) /\ Len(line) \in Nat /\ Len(b) \in Nat
      /\ Len(b) <= Len(line) /\ Len(b) # Len(line)
      /\ \A p \in 1..Len(b) : b[p] = line[p]
  BY DEF IsLine, IsNext
<1>2. Len(b) < Len(line) /\ b # line
  BY <1>1
<1>3. PICK x, y : x = SubSeq(b, 1, Len(b)) /\ y = SubSeq(line, 1, Len(b))
  OBVIOUS
<1>4. x \in Seq(Bytes) /\ Len(x) = Len(b) /\ \A p \in 1..Len(b) : x[p] = b[p]
  BY <1>1, <1>3
<1>5. y \in Seq(Bytes) /\ Len(y) = Len(b) /\ \A p \in 1..Len(b) : y[p] = line[p]
  BY <1>1, <1>3
<1>6. \A p \in 1..Len(x) : x[p] = y[p]
  BY <1>1, <1>4, <1>5
<1>7. x = y
  BY <1>4, <1>5, <1>6, SeqEqual
<1> QED BY <1>1, <1>2, <1>3, <1>7 DEF IsStrictPrefix, IsPrefix

\* A message more is received.
OneMore(g2, g, r) ==
    /\ g2 \in Seq(Received) /\ Len(g2) = Len(g) + 1 /\ Len(g) \in Nat
    /\ \A i \in 1..Len(g) : g2[i] = g[i]
    /\ g2[Len(g) + 1].raw = r

LEMMA ReceivedOne ==
    ASSUME NEW g \in Seq(Received), NEW r \in Seq(Bytes), r # <<>>
    PROVE  OneMore(Append(g, Message(r)), g, r)
<1>1. PICK x : x = Message(r)
  OBVIOUS
<1>2. x \in Received /\ x.raw = r
  BY <1>1 DEF Received, Message
<1>3. PICK g2 : g2 = Append(g, x)
  OBVIOUS
<1>4. /\ g2 \in Seq(Received) /\ Len(g2) = Len(g) + 1 /\ Len(g) \in Nat
      /\ \A i \in 1..Len(g) : g2[i] = g[i]
      /\ g2[Len(g) + 1] = x
  BY <1>2, <1>3
<1> QED BY <1>1, <1>2, <1>3, <1>4 DEF OneMore

\* What has arrived stays as it is when another message does.
LEMMA InOrderGrows ==
    ASSUME NEW g \in Seq(Received), NEW s \in Seq(Messages), NEW o, NEW o2, InOrder(g, s, o),
           Len(g) < Len(s), NEW g2, Len(g2) = Len(g) + 1,
           \A i \in 1..Len(g) : g2[i] = g[i],
           WholeLine(g2, s, Len(g) + 1) \/ CutLine(g2, s, Len(g) + 1, o2)
    PROVE  InOrder(g2, s, o2)
<1>1. Len(g) \in Nat /\ Len(s) \in Nat
  OBVIOUS
<1>2. ASSUME NEW i \in 1..(Len(g) + 1)
      PROVE  WholeLine(g2, s, i) \/ CutLine(g2, s, i, o2)
  <2>1. CASE i = Len(g) + 1
    BY <2>1
  <2>2. CASE i # Len(g) + 1
    <3>1. i \in 1..Len(g) /\ ~(i = Len(g) /\ i = Len(s))
      BY <1>1, <2>2
    <3>2. WholeLine(g, s, i)
      BY <3>1 DEF InOrder, CutLine
    <3> QED BY <3>1, <3>2 DEF WholeLine
  <2> QED BY <2>1, <2>2
<1>3. Len(g2) <= Len(s)
  BY <1>1
<1> QED BY <1>2, <1>3 DEF InOrder

\* The byte that is read belongs to the next message.
LEMMA ByteRead ==
    ASSUME NEW t, Threads = {t}, Inv(t), reading, pipe # <<>>
    PROVE  LET b == Append(buffer, Head(pipe))
           IN  /\ b \in Seq(Bytes) /\ Len(b) = Len(buffer) + 1 /\ b # <<>>
               /\ b[Len(b)] = Head(pipe)
               /\ \A p \in 1..(Len(b) - 1) : b[p] # PROTOCOL_TERMINATOR
               /\ Tail(pipe) \in Seq(Bytes) /\ Len(pipe) = Len(Tail(pipe)) + 1
               /\ Begins(b, OnWay(b, Tail(pipe), out[t]))
               /\ OnWay(b, Tail(pipe), out[t]) = OnWay(buffer, pipe, out[t])
               /\ Len(got) < Len(sent)
               /\ sent[Len(got) + 1] \in Messages
               /\ IsNext(b, protocol_build_message(sent[Len(got) + 1]))
<1>1. Types /\ Partial /\ InOrder(got, sent, open) /\ Flow(t)
  BY DEF Inv
<1>2. /\ pipe \in Seq(Bytes) /\ buffer \in Seq(Bytes) /\ out[t] \in Seq(Bytes)
      /\ sent \in Seq(Messages) /\ got \in Seq(Received)
  BY <1>1 DEF Types
<1>3. PICK b, r, o : b = Append(buffer, Head(pipe)) /\ r = Tail(pipe) /\ o = out[t]
  OBVIOUS
<1>4. /\ b \in Seq(Bytes) /\ r \in Seq(Bytes) /\ OnWay(b, r, o) = OnWay(buffer, pipe, o)
  BY <1>2, <1>3, ByteMoves
<1>5. Head(pipe) \in Bytes /\ Len(r) = Len(pipe) - 1 /\ Len(pipe) \in Nat
  BY <1>2, <1>3, HeadTailProperties
<1>6. /\ Len(b) = Len(buffer) + 1 /\ b[Len(buffer) + 1] = Head(pipe)
      /\ \A p \in 1..Len(buffer) : b[p] = buffer[p]
      /\ Len(buffer) \in Nat
  BY <1>2, <1>3, <1>5
<1>7. \A p \in 1..(Len(b) - 1) : b[p] # PROTOCOL_TERMINATOR
  <2> SUFFICES ASSUME NEW p \in 1..(Len(b) - 1) PROVE b[p] # PROTOCOL_TERMINATOR
    OBVIOUS
  <2>1. p \in 1..Len(buffer)
    BY <1>6
  <2> QED BY <1>1, <1>6, <2>1 DEF Partial
<1>8. b # <<>> /\ b[Len(b)] = Head(pipe) /\ Len(pipe) = Len(r) + 1
  BY <1>5, <1>6
<1>9. PICK S : S = OnWay(b, r, o)
  OBVIOUS
<1>10. S \in Seq(Bytes) /\ Begins(b, S)
  BY <1>2, <1>3, <1>4, <1>9, OnWayType
<1>11. PICK e : OnTheWay(e, sent, Len(got), S, Len(buffer) + Len(pipe), open)
  BY <1>1, <1>3, <1>4, <1>9 DEF Flow
<1>12. Len(got) \in Nat /\ Len(got) <= Len(sent)
  BY <1>1, Sizes DEF InOrder
<1>13. Len(got) < Len(sent) /\ IsNext(b, protocol_build_message(sent[Len(got) + 1]))
  BY <1>2, <1>4, <1>7, <1>8, <1>10, <1>11, <1>12, NextRead
<1>14. sent[Len(got) + 1] \in Messages
  <2> Len(got) + 1 \in 1..Len(sent)
    BY <1>2, <1>12, <1>13
  <2> QED BY <1>2
<1> QED BY <1>3, <1>4, <1>6, <1>7, <1>8, <1>9, <1>10, <1>13, <1>14

\* What ReceiveByte does with the terminator.
LEMMA InvReceiveLast ==
    ASSUME NEW t, Threads = {t}, Inv(t), ReceiveByte, Head(pipe) = PROTOCOL_TERMINATOR
    PROVE  Inv(t)'
<1>1. Types /\ Bounds /\ Gone /\ Partial /\ InOrder(got, sent, open) /\ Flow(t) /\ TooLong
  BY DEF Inv
<1>2. PICK b, r, o, line : /\ b = Append(buffer, Head(pipe)) /\ r = Tail(pipe) /\ o = out[t]
                           /\ line = protocol_build_message(sent[Len(got) + 1])
  OBVIOUS
<1>3. /\ reading /\ pipe # <<>> /\ pipe' = r
      /\ got' = Append(got, Message(b))
      /\ buffer' = <<>> /\ reading' = reading /\ out' = out /\ open' = open
      /\ sent' = sent /\ count' = count
  BY <1>2 DEF ReceiveByte, Deliver, Message
<1>4. /\ b \in Seq(Bytes) /\ Len(b) = Len(buffer) + 1 /\ b # <<>>
      /\ b[Len(b)] = PROTOCOL_TERMINATOR
      /\ r \in Seq(Bytes) /\ Len(pipe) = Len(r) + 1
      /\ OnWay(b, r, o) = OnWay(buffer, pipe, o)
      /\ Len(got) < Len(sent)
      /\ sent[Len(got) + 1] \in Messages
      /\ IsNext(b, line)
  BY <1>2, <1>3, ByteRead
<1>5. IsLine(line)
  BY <1>2, <1>4, BuildsLine
<1>6. b = line
  BY <1>4, <1>5, WholeRead
<1>7. o \in Seq(Bytes) /\ sent \in Seq(Messages) /\ got \in Seq(Received)
  BY <1>1, <1>2 DEF Types
<1>8. /\ got' \in Seq(Received) /\ Len(got') = Len(got) + 1 /\ Len(got) \in Nat
      /\ \A i \in 1..Len(got) : got'[i] = got[i]
      /\ got'[Len(got) + 1].raw = b
  <2>1. OneMore(Append(got, Message(b)), got, b)
    BY <1>4, <1>7, ReceivedOne
  <2> QED BY <1>3, <2>1 DEF OneMore
<1>9. Types'
  BY <1>1, <1>3, <1>4, <1>8 DEF Types
<1>10. Bounds'
  <2>1. Len(r) <= Capacity
    BY <1>1, <1>4, Sizes, WireAssumption DEF Bounds
  <2> QED BY <1>1, <1>3, <2>1 DEF Bounds
<1>11. Gone' /\ Partial' /\ TooLong'
  <2>1. Len(buffer') = 0
    BY <1>3
  <2>2. 0 < MAX_MESSAGE_SIZE /\ 0 < MAX_MESSAGE_SIZE - 1
    BY WireAssumption
  <2> QED BY <1>1, <1>3, <2>1, <2>2 DEF Gone, Partial, TooLong
<1>12. InOrder(got', sent', open')
  <2>1. WholeLine(got', sent, Len(got) + 1)
    BY <1>2, <1>6, <1>8 DEF WholeLine
  <2>2. PICK g2 : g2 = got'
    OBVIOUS
  <2>3. InOrder(g2, sent, open)
    BY <1>1, <1>4, <1>7, <1>8, <2>1, <2>2, InOrderGrows
  <2> QED BY <1>3, <2>2, <2>3
<1>13. Flow(t)'
  <2>1. PICK k \in Nat, n \in Nat : k = Len(got) /\ n = Len(sent)
    BY <1>1, Sizes
  <2>2. PICK l \in Nat : l = Len(b)
    BY <1>4
  <2>3. PICK S, S2 : S = OnWay(b, r, o) /\ S2 = OnWay(<<>>, r, o)
    OBVIOUS
  <2>4. PICK e : OnTheWay(e, sent, k, S, Len(buffer) + Len(pipe), open)
    BY <1>1, <1>2, <1>3, <1>4, <2>1, <2>3 DEF Flow
  <2>5. IsCat(r \o o, r, o) /\ r \o o \in Seq(Bytes)
    BY <1>4, <1>7, CatIs DEF IsCat
  <2>6. S2 = r \o o /\ S2 \in Seq(Bytes)
    BY <2>3, <2>5, ConcatEmptySeq DEF OnWay
  <2>7. IsCat(S, b, S2)
    BY <1>4, <2>3, <2>6, CatIs DEF OnWay
  <2>8. S \in Seq(Bytes) /\ Len(S) = l + Len(S2) /\ Behind(S2, S, l)
    BY <2>2, <2>7 DEF IsCat, Behind
  <2>9. /\ Ledger(e, sent) /\ Stream(e, sent, k, S) /\ Len(S) <= e[n] - e[k]
        /\ open => Len(S) = e[n] - e[k]
        /\ k < n => Len(buffer) + Len(pipe) > e[n - 1] - e[k]
    BY <2>1, <2>4 DEF OnTheWay
  <2>10. l = Len(protocol_build_message(sent[k + 1])) /\ k < Len(sent)
    BY <1>2, <1>4, <1>6, <2>1, <2>2
  <2>11. Stream(e, sent, k + 1, S2) /\ e[k + 1] = e[k] + l
    <3>1. sent \in Seq(Messages) /\ S \in Seq(Bytes) /\ S2 \in Seq(Bytes) /\ k < Len(sent)
          /\ Ledger(e, sent) /\ Stream(e, sent, k, S) /\ Behind(S2, S, l)
      BY <1>7, <2>6, <2>8, <2>9, <2>10
    <3>2. l = Len(protocol_build_message(sent[k + 1]))
      BY <2>10
    <3>3. \A x \in Nat : x = Len(protocol_build_message(sent[k + 1])) /\ Behind(S2, S, x)
              => Stream(e, sent, k + 1, S2) /\ e[k + 1] = e[k] + x
      BY <3>1, StreamGoesOn
    <3> QED BY <3>1, <3>2, <3>3
  <2>12. e[k] \in Nat /\ e[n] \in Nat /\ e[k + 1] \in Nat /\ (k + 1 < n => e[n - 1] \in Nat)
    <3> k \in 0..n /\ n \in 0..n /\ k + 1 \in 0..n /\ (k + 1 < n => n - 1 \in 0..n)
      BY <2>1, <2>10
    <3> QED BY <2>1, <2>9 DEF Ledger
  <2>13. PICK a \in Nat, c \in Nat : a = e[n] /\ c = e[k]
    BY <2>12
  <2>14. Len(S2) \in Nat
    BY <2>6
  <2>15. Len(S2) <= e[n] - e[k + 1] /\ (open => Len(S2) = e[n] - e[k + 1])
    <3>1. Len(S) <= a - c /\ (open => Len(S) = a - c)
      BY <2>9, <2>13
    <3>2. l + Len(S2) <= a - c /\ (open => l + Len(S2) = a - c)
      BY <2>8, <3>1
    <3>3. Len(S2) <= a - (c + l) /\ (open => Len(S2) = a - (c + l))
      BY <2>14, <3>2
    <3> QED BY <2>11, <2>13, <3>3
  <2>16. k + 1 < n => Len(r) > e[n - 1] - e[k + 1]
    <3> SUFFICES ASSUME k + 1 < n PROVE Len(r) > e[n - 1] - e[k + 1]
      OBVIOUS
    <3>1. Len(r) \in Nat /\ Len(buffer) \in Nat
      BY <1>1, <1>4, Sizes
    <3>2. Len(buffer) + Len(pipe) = l + Len(r)
      BY <1>4, <2>2, <3>1
    <3>3. PICK d \in Nat : d = e[n - 1]
      BY <2>12
    <3>4. l + Len(r) > d - c
      BY <2>9, <2>13, <3>2, <3>3
    <3>5. Len(r) > d - (c + l)
      BY <3>1, <3>4
    <3> QED BY <2>11, <2>13, <3>3, <3>5
  <2>17. 0 + Len(r) = Len(r)
    BY <1>4
  <2>18. Len(<<>>) = 0
    OBVIOUS
  <2>19. OnTheWay(e, sent, k + 1, S2, Len(<<>>) + Len(r), open)
    BY <2>1, <2>9, <2>11, <2>15, <2>16, <2>17, <2>18 DEF OnTheWay
  <2> QED BY <1>2, <1>3, <1>8, <2>1, <2>3, <2>19 DEF Flow
<1> QED BY <1>9, <1>10, <1>11, <1>12, <1>13 DEF Inv

\* What ReceiveByte does with another byte.
LEMMA InvReceiveMore ==
    ASSUME NEW t, Threads = {t}, Inv(t), ReceiveByte, Head(pipe) # PROTOCOL_TERMINATOR
    PROVE  Inv(t)'
<1>1. Types /\ Bounds /\ Gone /\ Partial /\ InOrder(got, sent, open) /\ Flow(t) /\ TooLong
  BY DEF Inv
<1>2. PICK b, r, o, line : /\ b = Append(buffer, Head(pipe)) /\ r = Tail(pipe) /\ o = out[t]
                           /\ line = protocol_build_message(sent[Len(got) + 1])
  OBVIOUS
<1>3. /\ reading /\ pipe # <<>> /\ pipe' = r /\ buffer' = b /\ reading' = ~Full(b)
      /\ got' = got /\ out' = out /\ open' = open /\ sent' = sent /\ count' = count
  BY <1>2 DEF ReceiveByte
<1>4. /\ b \in Seq(Bytes) /\ Len(b) = Len(buffer) + 1 /\ b # <<>>
      /\ b[Len(b)] # PROTOCOL_TERMINATOR
      /\ \A p \in 1..(Len(b) - 1) : b[p] # PROTOCOL_TERMINATOR
      /\ r \in Seq(Bytes) /\ Len(pipe) = Len(r) + 1
      /\ OnWay(b, r, o) = OnWay(buffer, pipe, o)
      /\ Len(got) < Len(sent)
      /\ sent[Len(got) + 1] \in Messages
      /\ IsNext(b, line)
  BY <1>2, <1>3, ByteRead
<1>5. IsLine(line)
  BY <1>2, <1>4, BuildsLine
<1>6. Len(b) < Len(line) /\ Len(line) \in Nat /\ Len(b) \in Nat
  <2>1. Len(b) < Len(line)
    BY <1>4, <1>5, CutRead
  <2>2. Len(line) \in Nat
    BY <1>5 DEF IsLine
  <2>3. Len(b) \in Nat
    BY <1>4
  <2> QED BY <2>1, <2>2, <2>3
<1>7. Types'
  BY <1>1, <1>3, <1>4 DEF Types
<1>8. Bounds'
  <2>1. Len(r) <= Capacity
    BY <1>1, <1>4, Sizes, WireAssumption DEF Bounds
  <2> QED BY <1>1, <1>3, <2>1 DEF Bounds
<1>9. Gone' /\ InOrder(got', sent', open')
  BY <1>1, <1>3 DEF Gone
<1>10. Len(b) < MAX_MESSAGE_SIZE
  BY <1>1, <1>3, <1>4, Sizes, WireAssumption DEF Partial
<1>11. Partial'
  <2>1. \A p \in 1..Len(b) : b[p] # PROTOCOL_TERMINATOR
    BY <1>4, <1>6
  <2>2. ~Full(b) => Len(b) < MAX_MESSAGE_SIZE - 1
    BY <1>6, <1>10, WireAssumption DEF Full
  <2> QED BY <1>3, <1>10, <2>1, <2>2 DEF Partial
<1>12. TooLong'
  <2>1. Full(b) => Len(line) >= MAX_MESSAGE_SIZE
    BY <1>6, WireAssumption DEF Full
  <2> QED BY <1>2, <1>3, <1>4, <2>1 DEF TooLong
<1>13. Flow(t)'
  <2>1. PICK e : OnTheWay(e, sent, Len(got), OnWay(buffer, pipe, o), Len(buffer) + Len(pipe), open)
    BY <1>1, <1>2, <1>3 DEF Flow
  <2>2. Len(b) + Len(r) = Len(buffer) + Len(pipe)
    BY <1>1, <1>4, Sizes
  <2>3. OnTheWay(e, sent, Len(got), OnWay(b, r, o), Len(b) + Len(r), open)
    BY <1>4, <2>1, <2>2
  <2> QED BY <1>2, <1>3, <2>3 DEF Flow
<1> QED BY <1>7, <1>8, <1>9, <1>11, <1>12, <1>13 DEF Inv

\* What ReceiveEnd does with the beginning of a message.
LEMMA InvReceiveCut ==
    ASSUME NEW t, Threads = {t}, Inv(t), reading, pipe = <<>>, ~open, buffer # <<>>,
           Deliver(buffer), UNCHANGED <<reading, out, pipe, open, sent, count>>
    PROVE  Inv(t)'
<1>1. Types /\ Bounds /\ Gone /\ Partial /\ InOrder(got, sent, open) /\ Flow(t) /\ TooLong
  BY DEF Inv
<1>2. PICK b : b = buffer
  OBVIOUS
<1>3. /\ buffer' = <<>> /\ got' = Append(got, Message(b))
      /\ reading' = reading /\ out' = out /\ pipe' = pipe /\ open' = open
      /\ sent' = sent /\ count' = count
  BY <1>2 DEF Deliver, Message
<1>4. b \in Seq(Bytes) /\ b # <<>> /\ sent \in Seq(Messages) /\ got \in Seq(Received)
      /\ out[t] = <<>>
  BY <1>1, <1>2 DEF Types, Gone
<1>5. PICK k \in Nat, n \in Nat : k = Len(got) /\ n = Len(sent) /\ k <= n
  BY <1>1, Sizes DEF InOrder
<1>6. PICK e : OnTheWay(e, sent, k, b, Len(b), open)
  <2>1. PICK e : OnTheWay(e, sent, k, OnWay(b, <<>>, <<>>), Len(b) + 0, open)
    <3> Len(<<>>) = 0
      OBVIOUS
    <3> QED BY <1>1, <1>2, <1>4, <1>5 DEF Flow
  <2>2. OnWay(b, <<>>, <<>>) = b
    <3>1. <<>> \o <<>> = <<>>
      OBVIOUS
    <3>2. b \o <<>> = b
      BY <1>4, ConcatEmptySeq
    <3> QED BY <3>1, <3>2 DEF OnWay
  <2>3. Len(b) + 0 = Len(b)
    BY <1>4
  <2> QED BY <2>1, <2>2, <2>3
<1>7. \A p \in 1..(Len(b) - 1) : b[p] # PROTOCOL_TERMINATOR
  BY <1>1, <1>2, <1>4 DEF Partial
<1>8. Begins(b, b)
  BY <1>4 DEF Begins
<1>9. k < n /\ IsNext(b, protocol_build_message(sent[k + 1]))
  BY <1>4, <1>5, <1>6, <1>7, <1>8, NextRead
<1>10. PICK line : line = protocol_build_message(sent[k + 1])
  OBVIOUS
<1>11. IsLine(line)
  <2> k + 1 \in 1..Len(sent)
    BY <1>5, <1>9
  <2> QED BY <1>4, <1>10, SentLine
<1>12. Len(b) \in Nat /\ Len(b) >= 1 /\ b[Len(b)] # PROTOCOL_TERMINATOR
  <2>1. Len(b) \in Nat /\ Len(b) >= 1
    BY <1>4
  <2>2. Len(b) \in 1..Len(b)
    BY <2>1
  <2> QED BY <1>1, <1>2, <2>1, <2>2 DEF Partial
<1>13. Len(b) < Len(line) /\ Len(line) \in Nat /\ IsStrictPrefix(b, line)
  BY <1>4, <1>9, <1>10, <1>11, <1>12, CutRead DEF IsLine
<1>14. Ledger(e, sent) /\ (k < n => Len(b) > e[n - 1] - e[k])
  BY <1>5, <1>6 DEF OnTheWay
<1>15. k + 1 = n
  <2> SUFFICES ASSUME k + 1 < n PROVE FALSE
    BY <1>5, <1>9
  <2>1. k + 1 \in 1..Len(sent) /\ k + 1 \in 0..Len(sent) /\ n - 1 \in 0..Len(sent)
        /\ k + 1 <= n - 1 /\ k \in 0..Len(sent) /\ (k + 1) - 1 = k
    BY <1>5
  <2>2. e[k + 1] = e[k] + Len(line)
    BY <1>10, <1>14, <2>1 DEF Ledger
  <2>3. e[k + 1] <= e[n - 1]
    BY <1>4, <1>14, <2>1, LedgerGrows
  <2>4. PICK a \in Nat, c \in Nat, d \in Nat : a = e[n - 1] /\ c = e[k] /\ d = e[k + 1]
    BY <1>14, <2>1 DEF Ledger
  <2>5. Len(b) > a - c /\ d = c + Len(line) /\ d <= a
    BY <1>9, <1>14, <2>2, <2>3, <2>4
  <2> QED BY <1>12, <1>13, <2>5
<1>16. OneMore(got', got, b)
  BY <1>3, <1>4, ReceivedOne
<1>17. Types'
  BY <1>1, <1>3, <1>16 DEF Types, OneMore
<1>18. Bounds' /\ Gone' /\ TooLong'
  BY <1>1, <1>3 DEF Bounds, Gone, TooLong
<1>19. Partial'
  <2>1. Len(buffer') = 0
    BY <1>3
  <2>2. 0 < MAX_MESSAGE_SIZE /\ 0 < MAX_MESSAGE_SIZE - 1
    BY WireAssumption
  <2> QED BY <2>1, <2>2 DEF Partial
<1>20. InOrder(got', sent', open')
  <2>1. PICK g2 : g2 = got'
    OBVIOUS
  <2>2. /\ Len(g2) = Len(got) + 1 /\ \A i \in 1..Len(got) : g2[i] = got[i]
        /\ g2[Len(got) + 1].raw = b
    BY <1>16, <2>1 DEF OneMore
  <2>3. CutLine(g2, sent, Len(got) + 1, open)
    BY <1>5, <1>10, <1>13, <1>15, <2>2 DEF CutLine
  <2>4. Len(got) < Len(sent)
    BY <1>5, <1>9
  <2>5. InOrder(g2, sent, open)
    BY <1>1, <1>4, <2>2, <2>3, <2>4, InOrderGrows
  <2> QED BY <1>3, <2>1, <2>5
<1>21. Flow(t)'
  <2>1. e[n] \in Nat /\ e[n] - e[n] = 0
    <3>1. n \in 0..Len(sent)
      BY <1>5
    <3>2. e[n] \in Nat
      BY <1>14, <3>1 DEF Ledger
    <3> QED BY <3>2
  <2>2. Stream(e, sent, n, <<>>)
    BY <1>5 DEF Stream
  <2>3. Len(<<>>) = 0
    OBVIOUS
  <2>4. OnTheWay(e, sent, n, <<>>, 0, open)
    BY <1>5, <1>14, <2>1, <2>2, <2>3 DEF OnTheWay
  <2>5. OnWay(<<>>, <<>>, <<>>) = <<>> /\ Len(<<>>) + Len(<<>>) = 0
    BY DEF OnWay
  <2>6. Len(got') = n
    BY <1>5, <1>15, <1>16 DEF OneMore
  <2> QED BY <1>3, <1>4, <2>4, <2>5, <2>6 DEF Flow
<1> QED BY <1>17, <1>18, <1>19, <1>20, <1>21 DEF Inv

\* What ReceiveEnd and ReceiveError do when the receiver gives the connection up.
LEMMA InvReceiveOver ==
    ASSUME NEW t, Threads = {t}, Inv(t), ~open, reading' = FALSE,
           pipe' = pipe \/ pipe' = <<>>, buffer' = buffer \/ buffer' = <<>>,
           UNCHANGED <<out, open, got, sent, count>>
    PROVE  Inv(t)'
<1>1. Types /\ Bounds /\ Gone /\ Partial /\ InOrder(got, sent, open)
  BY DEF Inv
<1>2. out' = out /\ open' = open /\ got' = got /\ sent' = sent /\ count' = count
  OBVIOUS
<1>3. Types'
  <2>1. pipe \in Seq(Bytes) /\ buffer \in Seq(Bytes) /\ <<>> \in Seq(Bytes)
    BY <1>1 DEF Types
  <2>2. pipe' \in Seq(Bytes) /\ buffer' \in Seq(Bytes)
    BY <2>1
  <2> QED BY <1>1, <1>2, <2>2 DEF Types
<1>4. Bounds'
  <2> Len(<<>>) = 0
    OBVIOUS
  <2> QED BY <1>1, <1>2, WireAssumption DEF Bounds
<1>5. Gone' /\ InOrder(got', sent', open') /\ TooLong' /\ Flow(t)'
  BY <1>1, <1>2 DEF Gone, TooLong, Flow
<1>6. Partial'
  <2>1. CASE buffer' = buffer
    BY <1>1, <2>1 DEF Partial
  <2>2. CASE buffer' = <<>>
    <3>1. Len(buffer') = 0
      BY <2>2
    <3> QED BY <3>1, WireAssumption DEF Partial
  <2> QED BY <2>1, <2>2
<1> QED BY <1>3, <1>4, <1>5, <1>6 DEF Inv

LEMMA InvNext ==
    ASSUME NEW t, Threads = {t}, Inv(t), [Next]_vars
    PROVE  Inv(t)'
<1>1. CASE UNCHANGED vars
  BY <1>1 DEF vars, Inv, Types, Bounds, Gone, Partial, Flow, TooLong
<1>2. ASSUME NEW u \in Threads, NEW m \in Messages, Begin(u, m) PROVE Inv(t)'
  BY <1>2, InvBegin
<1>3. ASSUME NEW u \in Threads, Send(u) PROVE Inv(t)'
  BY <1>3, InvSend
<1>4. ASSUME NEW u \in Threads, SendFails(u) PROVE Inv(t)'
  BY <1>4, InvSendFails
<1>5. CASE Close
  BY <1>5, InvClose
<1>6. CASE ReceiveByte
  BY <1>6, InvReceiveLast, InvReceiveMore
<1>7. CASE ReceiveEnd
  <2>1. /\ reading /\ pipe = <<>> /\ ~open /\ UNCHANGED <<out, pipe, open, sent, count>>
    BY <1>7 DEF ReceiveEnd
  <2>2. CASE buffer # <<>> /\ Deliver(buffer) /\ UNCHANGED reading
    BY <2>1, <2>2, InvReceiveCut
  <2>3. CASE buffer = <<>> /\ reading' = FALSE /\ UNCHANGED <<buffer, got>>
    BY <2>1, <2>3, InvReceiveOver
  <2> QED BY <1>7, <2>2, <2>3 DEF ReceiveEnd
<1>8. CASE ReceiveError
  BY <1>8, InvReceiveOver DEF ReceiveError
<1> QED BY <1>1, <1>2, <1>3, <1>4, <1>5, <1>6, <1>7, <1>8 DEF Next, Receive

-----------------------------------------------------------------------------
(* Pieces: the delimiters of a line, counted *)

Cuts(line) == {p \in DOMAIN line : line[p] = PROTOCOL_DELIMITER}
CutsUpTo(line, p) == {q \in Cuts(line) : q <= p}
Rank(line, p) == Cardinality(CutsUpTo(line, p))
CutAt(line, i) == CHOOSE p \in Cuts(line) : Rank(line, p) = i
PieceFrom(line, i) == IF i = 1 THEN 1 ELSE CutAt(line, i - 1) + 1
PieceTo(line, i) == IF i > Cardinality(Cuts(line)) THEN Len(line) ELSE CutAt(line, i) - 1

LEMMA PiecesDef ==
    ASSUME NEW line
    PROVE  Pieces(line) = [i \in 1..(Cardinality(Cuts(line)) + 1) |->
                              SubSeq(line, PieceFrom(line, i), PieceTo(line, i))]
BY DEF Pieces, Cuts, CutsUpTo, Rank, CutAt, PieceFrom, PieceTo

LEMMA CutsFinite ==
    ASSUME NEW line \in Seq(Bytes), NEW p \in Int
    PROVE  /\ Cuts(line) \subseteq 1..Len(line) /\ IsFiniteSet(Cuts(line))
           /\ Cardinality(Cuts(line)) \in Nat
           /\ IsFiniteSet(CutsUpTo(line, p)) /\ Rank(line, p) \in Nat
           /\ Rank(line, p) <= Cardinality(Cuts(line))
<1>1. Cuts(line) \subseteq 1..Len(line) /\ Len(line) \in Nat
  BY DEF Cuts
<1> IsFiniteSet(1..Len(line))
  BY <1>1, FS_Interval
<1>2. IsFiniteSet(Cuts(line)) /\ CutsUpTo(line, p) \subseteq Cuts(line)
  BY <1>1, FS_Subset DEF CutsUpTo
<1>3. IsFiniteSet(CutsUpTo(line, p)) /\ Cardinality(CutsUpTo(line, p)) <= Cardinality(Cuts(line))
  BY <1>2, FS_Subset
<1> QED BY <1>1, <1>2, <1>3, FS_CardinalityType DEF Rank

\* Where there is no delimiter the rank stays.
LEMMA RankFlat ==
    ASSUME NEW line \in Seq(Bytes), NEW p \in Int, NEW q \in Int, p <= q,
           \A r \in Cuts(line) : ~(p < r /\ r <= q)
    PROVE  Rank(line, p) = Rank(line, q)
<1>1. Cuts(line) \subseteq Int
  BY DEF Cuts
<1>2. CutsUpTo(line, p) = CutsUpTo(line, q)
  BY <1>1 DEF CutsUpTo
<1> QED BY <1>2 DEF Rank

\* At a delimiter it grows by one.
LEMMA RankStep ==
    ASSUME NEW line \in Seq(Bytes), NEW p \in Cuts(line)
    PROVE  p \in 1..Len(line) /\ Rank(line, p) = Rank(line, p - 1) + 1
<1>1. Cuts(line) \subseteq 1..Len(line) /\ p \in 1..Len(line) /\ p \in Int /\ p - 1 \in Int
  BY DEF Cuts
<1>2. p \notin CutsUpTo(line, p - 1) /\ CutsUpTo(line, p) = CutsUpTo(line, p - 1) \cup {p}
  BY <1>1 DEF CutsUpTo
<1>3. IsFiniteSet(CutsUpTo(line, p - 1))
  BY <1>1, CutsFinite
<1> QED BY <1>1, <1>2, <1>3, FS_AddElement DEF Rank

\* It never falls.
LEMMA RankGrows ==
    ASSUME NEW line \in Seq(Bytes), NEW p \in Int, NEW q \in Int, p <= q
    PROVE  Rank(line, p) <= Rank(line, q)
<1>1. Cuts(line) \subseteq Int
  BY DEF Cuts
<1>2. CutsUpTo(line, p) \subseteq CutsUpTo(line, q)
  BY <1>1 DEF CutsUpTo
<1>3. IsFiniteSet(CutsUpTo(line, q))
  BY CutsFinite
<1> QED BY <1>2, <1>3, FS_Subset DEF Rank

\* A delimiter has a greater rank than all before it.
LEMMA RankStrict ==
    ASSUME NEW line \in Seq(Bytes), NEW p \in Int, NEW q \in Cuts(line), p < q
    PROVE  Rank(line, p) < Rank(line, q)
<1>1. q \in Int /\ q - 1 \in Int /\ p <= q - 1 /\ Rank(line, q) = Rank(line, q - 1) + 1
  BY RankStep
<1>2. Rank(line, p) <= Rank(line, q - 1)
  BY <1>1, RankGrows
<1>3. Rank(line, p) \in Nat /\ Rank(line, q - 1) \in Nat
  BY <1>1, CutsFinite
<1> QED BY <1>1, <1>2, <1>3

\* There is one delimiter of every rank.
LEMMA CutOfRank ==
    ASSUME NEW line \in Seq(Bytes), NEW i \in 1..Cardinality(Cuts(line))
    PROVE  CutAt(line, i) \in Cuts(line) /\ Rank(line, CutAt(line, i)) = i
<1>1. /\ Len(line) \in Nat /\ Cardinality(Cuts(line)) \in Nat
      /\ Cuts(line) \subseteq 1..Len(line) /\ Cuts(line) \subseteq Int
  <2>1. 0 \in Int /\ Len(line) \in Nat
    OBVIOUS
  <2>2. Cardinality(Cuts(line)) \in Nat /\ Cuts(line) \subseteq 1..Len(line)
    BY <2>1, CutsFinite
  <2> QED BY <2>1, <2>2
<1>2. Rank(line, 0) = 0
  <2>1. CutsUpTo(line, 0) = {}
    BY <1>1 DEF CutsUpTo
  <2> QED BY <2>1, FS_EmptySet DEF Rank
<1>3. Rank(line, Len(line)) = Cardinality(Cuts(line))
  <2>1. CutsUpTo(line, Len(line)) = Cuts(line)
    BY <1>1 DEF CutsUpTo
  <2> QED BY <2>1 DEF Rank
<1> DEFINE T == {p \in Nat : Rank(line, p) >= i}
<1>4. T \in SUBSET Nat /\ T # {}
  <2>1. Len(line) \in T
    BY <1>1, <1>3
  <2> QED BY <2>1
<1>5. PICK p \in T : \A q \in T : p <= q
  <2> HIDE DEF T
  <2> QED BY <1>4, LeastNat
<1>6. p \in Nat /\ Rank(line, p) >= i /\ i \in Nat /\ i >= 1
  BY <1>1, <1>5
<1>7. p # 0
  BY <1>2, <1>6
<1>8. p - 1 \in Nat /\ p - 1 \in Int /\ p \in Int /\ p - 1 <= p /\ p - 1 \notin T
  BY <1>5, <1>6, <1>7
<1>9. Rank(line, p - 1) < i /\ Rank(line, p - 1) \in Nat
  <2>1. Rank(line, p - 1) \in Nat
    BY <1>8, CutsFinite
  <2> QED BY <1>6, <1>8, <2>1
<1>10. p \in Cuts(line)
  <2> SUFFICES ASSUME p \notin Cuts(line) PROVE FALSE
    OBVIOUS
  <2>1. \A r \in Cuts(line) : ~(p - 1 < r /\ r <= p)
    BY <1>1, <1>8
  <2>2. Rank(line, p - 1) = Rank(line, p)
    BY <1>8, <2>1, RankFlat
  <2> QED BY <1>6, <1>9, <2>2
<1>11. Rank(line, p) = Rank(line, p - 1) + 1
  BY <1>10, RankStep
<1>12. Rank(line, p) = i
  BY <1>6, <1>9, <1>11
<1> QED BY <1>10, <1>12 DEF CutAt

LEMMA CutUnique ==
    ASSUME NEW line \in Seq(Bytes), NEW p \in Cuts(line), NEW i, i = Rank(line, p)
    PROVE  CutAt(line, i) = p
<1>1. PICK q : q = CutAt(line, i)
  OBVIOUS
<1>2. q \in Cuts(line) /\ Rank(line, q) = i
  BY <1>1 DEF CutAt
<1>3. p \in Int /\ q \in Int /\ Rank(line, p) \in Nat
  BY <1>2, RankStep, CutsFinite
<1>4. ~(p < q)
  BY <1>2, <1>3, RankStrict
<1>5. ~(q < p)
  BY <1>2, <1>3, RankStrict
<1> QED BY <1>1, <1>3, <1>4, <1>5

\* A piece lies within the line and has no delimiter.
LEMMA PieceClean ==
    ASSUME NEW line \in Seq(Bytes), NEW i \in 1..(Cardinality(Cuts(line)) + 1)
    PROVE  /\ PieceFrom(line, i) \in Nat /\ PieceFrom(line, i) >= 1
           /\ PieceTo(line, i) \in Int /\ PieceTo(line, i) <= Len(line)
           /\ \A x \in PieceFrom(line, i)..PieceTo(line, i) :
                 x \in 1..Len(line) /\ x \notin Cuts(line)
<1> DEFINE n == Cardinality(Cuts(line))
<1>1. n \in Nat /\ Len(line) \in Nat /\ Cuts(line) \subseteq 1..Len(line)
  <2>1. 0 \in Int
    OBVIOUS
  <2>2. Cardinality(Cuts(line)) \in Nat /\ Cuts(line) \subseteq 1..Len(line)
    BY <2>1, CutsFinite
  <2> QED BY <2>2
<1> HIDE DEF n
<1>2. PICK a, z : a = PieceFrom(line, i) /\ z = PieceTo(line, i)
  OBVIOUS
<1>3. i \in 1..(n + 1) /\ i \in Nat /\ i >= 1
  BY <1>1 DEF n
<1>4. a \in Nat /\ a >= 1 /\ \A x \in Cuts(line) : x >= a => Rank(line, x) >= i
  <2>1. CASE i = 1
    <3>1. a = 1
      BY <1>2, <2>1 DEF PieceFrom
    <3>2. ASSUME NEW x \in Cuts(line) PROVE Rank(line, x) >= 1
      <4>1. x \in 1..Len(line) /\ Rank(line, x) = Rank(line, x - 1) + 1 /\ x - 1 \in Int
        BY RankStep
      <4>2. Rank(line, x - 1) \in Nat
        BY <4>1, CutsFinite
      <4> QED BY <4>1, <4>2
    <3> QED BY <2>1, <3>1, <3>2
  <2>2. CASE i # 1
    <3>1. i - 1 \in 1..n /\ a = CutAt(line, i - 1) + 1
      BY <1>1, <1>2, <1>3, <2>2 DEF PieceFrom
    <3>2. PICK c : c = CutAt(line, i - 1)
      OBVIOUS
    <3>3. c \in Cuts(line) /\ Rank(line, c) = i - 1
      BY <3>1, <3>2, CutOfRank DEF n
    <3>4. c \in 1..Len(line) /\ c \in Nat /\ a = c + 1
      BY <1>1, <3>1, <3>2, <3>3
    <3>5. ASSUME NEW x \in Cuts(line), x >= a PROVE Rank(line, x) >= i
      <4>1. x \in Int /\ c < x
        BY <1>1, <3>4, <3>5
      <4>2. Rank(line, c) < Rank(line, x) /\ Rank(line, x) \in Nat
        BY <3>4, <4>1, RankStrict, CutsFinite
      <4> QED BY <1>3, <3>3, <4>2
    <3> QED BY <3>4, <3>5
  <2> QED BY <2>1, <2>2
<1>5. z \in Int /\ z <= Len(line) /\ \A x \in Cuts(line) : x <= z => Rank(line, x) < i
  <2>1. CASE i > n
    <3>1. z = Len(line)
      BY <1>2, <2>1 DEF PieceTo, n
    <3>2. ASSUME NEW x \in Cuts(line) PROVE Rank(line, x) < i
      <4>1. x \in Int
        BY <1>1
      <4>2. Rank(line, x) \in Nat /\ Rank(line, x) <= n
        BY <4>1, CutsFinite DEF n
      <4> QED BY <1>1, <1>3, <2>1, <4>2
    <3> QED BY <1>1, <3>1, <3>2
  <2>2. CASE ~(i > n)
    <3>1. i \in 1..n /\ z = CutAt(line, i) - 1
      BY <1>1, <1>2, <1>3, <2>2 DEF PieceTo, n
    <3>2. PICK c : c = CutAt(line, i)
      OBVIOUS
    <3>3. c \in Cuts(line) /\ Rank(line, c) = i
      BY <3>1, <3>2, CutOfRank DEF n
    <3>4. c \in 1..Len(line) /\ c \in Nat /\ z = c - 1
      BY <1>1, <3>1, <3>2, <3>3
    <3>5. ASSUME NEW x \in Cuts(line), x <= z PROVE Rank(line, x) < i
      <4>1. x \in Int /\ x < c
        BY <1>1, <3>4, <3>5
      <4> QED BY <3>3, <4>1, RankStrict
    <3> QED BY <1>1, <3>4, <3>5
  <2> QED BY <2>1, <2>2
<1>6. ASSUME NEW x \in a..z PROVE x \in 1..Len(line) /\ x \notin Cuts(line)
  <2>1. x \in Int /\ x >= a /\ x <= z
    BY <1>4, <1>5
  <2>2. x \in 1..Len(line)
    BY <1>1, <1>4, <1>5, <2>1
  <2>3. x \notin Cuts(line)
    <3> SUFFICES ASSUME x \in Cuts(line) PROVE FALSE
      OBVIOUS
    <3>1. Rank(line, x) >= i /\ Rank(line, x) < i /\ Rank(line, x) \in Nat
      BY <1>4, <1>5, <2>1, CutsFinite
    <3> QED BY <1>3, <3>1
  <2> QED BY <2>2, <2>3
<1> QED BY <1>2, <1>4, <1>5, <1>6

-----------------------------------------------------------------------------
(* protocol_parse_message *)

\* The line without its terminator.
Bare(raw) == IF Last(raw) = PROTOCOL_TERMINATOR THEN Front(raw) ELSE raw
Kept(n) == IF n < MAX_FIELDS THEN n ELSE MAX_FIELDS

LEMMA ParseDef ==
    ASSUME NEW raw
    PROVE  protocol_parse_message(raw)
              = SubSeq(Pieces(Bare(raw)), 1, Kept(Len(Pieces(Bare(raw)))))
BY DEF protocol_parse_message, Bare, Kept

\* Bytes whose terminator, if there is one, is the last.
IsRaw(raw) ==
    /\ raw \in Seq(Bytes) /\ Len(raw) >= 1
    /\ \A p \in 1..(Len(raw) - 1) : raw[p] # PROTOCOL_TERMINATOR

LEMMA BareIsPlain ==
    ASSUME NEW raw, IsRaw(raw)
    PROVE  Bare(raw) \in Seq(Plain)
<1>1. /\ raw \in Seq(Bytes) /\ Len(raw) \in Nat /\ Len(raw) >= 1
      /\ \A p \in 1..(Len(raw) - 1) : raw[p] # PROTOCOL_TERMINATOR
  BY DEF IsRaw
<1>2. CASE raw[Len(raw)] = PROTOCOL_TERMINATOR
  <2>1. PICK f : f = SubSeq(raw, 1, Len(raw) - 1)
    OBVIOUS
  <2>2. /\ f \in Seq(Bytes) /\ Len(f) = Len(raw) - 1
        /\ \A p \in 1..(Len(raw) - 1) : f[p] = raw[p]
    <3>1. PICK n : n = Len(raw) - 1
      OBVIOUS
    <3>2. n \in Nat /\ n <= Len(raw)
      BY <1>1, <3>1
    <3>3. f = SubSeq(raw, 1, n)
      BY <2>1, <3>1
    <3>4. f \in Seq(Bytes) /\ Len(f) = n /\ \A p \in 1..n : f[p] = raw[p]
      BY <1>1, <3>2, <3>3
    <3> QED BY <3>1, <3>4
  <2>3. \A p \in 1..Len(f) : f[p] \in Plain
    BY <1>1, <2>2 DEF Plain
  <2>4. f \in Seq(Plain)
    <3> HIDE DEF Plain
    <3>1. f \in [1..Len(f) -> Plain] /\ Len(f) \in Nat
      BY <1>1, <2>2, <2>3
    <3> QED BY <3>1, SeqDef
  <2> QED BY <1>2, <2>1, <2>4 DEF Bare, Last, Front
<1>3. CASE raw[Len(raw)] # PROTOCOL_TERMINATOR
  <2>1. \A p \in 1..Len(raw) : raw[p] \in Plain
    BY <1>1, <1>3 DEF Plain
  <2>2. raw \in Seq(Plain)
    <3> HIDE DEF Plain
    <3>1. raw \in [1..Len(raw) -> Plain]
      BY <1>1, <2>1
    <3> QED BY <1>1, <3>1, SeqDef
  <2> QED BY <1>3, <2>2 DEF Bare, Last
<1> QED BY <1>2, <1>3

\* What a piece of a line, and a field, is made of.
Free == Plain \ {PROTOCOL_DELIMITER}

LEMMA PiecesFree ==
    ASSUME NEW line \in Seq(Plain)
    PROVE  /\ Pieces(line) \in Seq(Seq(Free))
           /\ Len(Pieces(line)) = Cardinality(Cuts(line)) + 1
<1>1. line \in Seq(Bytes)
  <2> Plain \subseteq Bytes
    BY DEF Plain
  <2> HIDE DEF Plain
  <2> QED OBVIOUS
<1>2. PICK n : n = Cardinality(Cuts(line)) + 1
  OBVIOUS
<1>3. n \in Nat /\ Len(line) \in Nat
  <2>1. 0 \in Int
    OBVIOUS
  <2>2. Cardinality(Cuts(line)) \in Nat
    BY <1>1, <2>1, CutsFinite
  <2> QED BY <1>2, <2>2
<1>4. PICK ps : ps = Pieces(line)
  OBVIOUS
<1>5. ps = [i \in 1..n |-> SubSeq(line, PieceFrom(line, i), PieceTo(line, i))]
  BY <1>2, <1>4, PiecesDef
<1>6. ASSUME NEW i \in 1..n
      PROVE  SubSeq(line, PieceFrom(line, i), PieceTo(line, i)) \in Seq(Free)
  <2>1. PICK a, z : a = PieceFrom(line, i) /\ z = PieceTo(line, i)
    OBVIOUS
  <2>2. a \in Int /\ z \in Int /\ \A x \in a..z : x \in 1..Len(line) /\ x \notin Cuts(line)
    <3>1. i \in 1..(Cardinality(Cuts(line)) + 1)
      BY <1>2
    <3>2. a \in Nat /\ z \in Int /\ \A x \in a..z : x \in 1..Len(line) /\ x \notin Cuts(line)
      BY <1>1, <2>1, <3>1, PieceClean
    <3> QED BY <3>2
  <2>3. \A x \in a..z : line[x] \in Free
    <3> SUFFICES ASSUME NEW x \in a..z PROVE line[x] \in Free
      OBVIOUS
    <3>1. x \in 1..Len(line) /\ x \notin Cuts(line)
      BY <2>2
    <3>2. line[x] \in Plain
      <4> HIDE DEF Plain
      <4> QED BY <3>1
    <3>3. x \in DOMAIN line
      BY <3>1
    <3> QED BY <3>1, <3>2, <3>3 DEF Free, Cuts
  <2>4. SubSeq(line, a, z) \in Seq(Free)
    <3> HIDE DEF Free
    <3> QED BY <2>2, <2>3, SubSeqProperties
  <2> QED BY <2>1, <2>4
<1>7. ps \in [1..n -> Seq(Free)]
  BY <1>5, <1>6
<1>8. ps \in Seq(Seq(Free)) /\ Len(ps) = n
  <2> HIDE DEF Free
  <2>1. ps \in Seq(Seq(Free))
    BY <1>3, <1>7, SeqDef
  <2>2. DOMAIN ps = 1..n
    BY <1>7
  <2>3. DOMAIN ps = 1..Len(ps) /\ Len(ps) \in Nat
    BY <2>1, LenProperties
  <2> QED BY <1>3, <2>1, <2>2, <2>3
<1> QED BY <1>2, <1>4, <1>8

\* No field that was received holds a delimiter or a terminator.
LEMMA FieldsFree ==
    ASSUME NEW raw, IsRaw(raw), NEW fields, fields = protocol_parse_message(raw),
           NEW k \in DOMAIN fields
    PROVE  {PROTOCOL_DELIMITER, PROTOCOL_TERMINATOR} \cap Range(fields[k]) = {}
<1>1. PICK ps : ps = Pieces(Bare(raw))
  OBVIOUS
<1>2. ps \in Seq(Seq(Free)) /\ Len(ps) \in Nat
  <2>1. ps \in Seq(Seq(Free))
    BY <1>1, BareIsPlain, PiecesFree
  <2> QED BY <2>1
<1>3. PICK c : c = Kept(Len(ps))
  OBVIOUS
<1>4. c \in Nat /\ c <= Len(ps)
  BY <1>2, <1>3, WireAssumption DEF Kept
<1>5. fields = SubSeq(ps, 1, c)
  BY <1>1, <1>3, ParseDef
<1>6. fields[k] \in Seq(Free)
  <2> HIDE DEF Free
  <2>1. fields \in Seq(Seq(Free))
    BY <1>2, <1>4, <1>5
  <2> QED BY <2>1
<1>7. \A x \in DOMAIN fields[k] : fields[k][x] \in Free
  <2> HIDE DEF Free
  <2> PICK f : f = fields[k]
    OBVIOUS
  <2> f \in Seq(Free)
    BY <1>6
  <2> \A x \in DOMAIN f : f[x] \in Free
    OBVIOUS
  <2> QED OBVIOUS
<1> QED BY <1>7 DEF Range, Free, Plain

-----------------------------------------------------------------------------
(* Fields without delimiters come back *)

\* The line of a message begins with the lines of its first fields.
LEMMA LinesNest ==
    ASSUME NEW m \in Messages, NEW L, LineOf(m, L), NEW N \in Nat, N = Len(m) - 1,
           NEW i \in 0..N, NEW k \in 0..N, i <= k
    PROVE  Begins(L[i], L[k])
<1>1. \A j \in 0..N : L[j] \in Seq(Plain) /\ Len(L[j]) \in Nat
  <2>1. \A j \in 0..N : L[j] \in Seq(Plain)
    BY DEF LineOf
  <2> HIDE DEF Plain
  <2> QED BY <2>1
<1>2. \A j \in 1..N : L[j] = Join(L[j - 1], m[j + 1]) /\ m[j + 1] \in Seq(Plain)
  <2> SUFFICES ASSUME NEW j \in 1..N PROVE L[j] = Join(L[j - 1], m[j + 1]) /\ m[j + 1] \in Seq(Plain)
    OBVIOUS
  <2>1. Len(m) \in Nat /\ j + 1 \in 1..Len(m)
    BY MessageType
  <2> QED BY <2>1, MessageType DEF LineOf, IsLines
<1> DEFINE T == {k_1 \in 0..N : i <= k_1 /\ ~Begins(L[i], L[k_1])}
<1>3. T = {}
  <2> SUFFICES ASSUME T # {} PROVE FALSE
    OBVIOUS
  <2>1. PICK j \in T : \A l \in T : j <= l
    <3>1. T \in SUBSET Nat
      OBVIOUS
    <3> HIDE DEF T
    <3> QED BY <3>1, LeastNat
  <2>2. j \in 0..N /\ i <= j /\ ~Begins(L[i], L[j])
    BY <2>1
  <2>3. j # i
    BY <1>1, <2>2 DEF Begins
  <2>4. j \in 1..N /\ j - 1 \in 0..N /\ i <= j - 1 /\ j - 1 \notin T
    BY <2>1, <2>2, <2>3
  <2>5. Begins(L[i], L[j - 1])
    BY <2>4
  <2>6. PICK a, f : a = L[j - 1] /\ f = m[j + 1]
    OBVIOUS
  <2>7. a \in Seq(Plain) /\ f \in Seq(Plain) /\ Len(a) \in Nat /\ Len(f) \in Nat /\ Len(L[i]) \in Nat
    <3>1. a \in Seq(Plain) /\ f \in Seq(Plain) /\ Len(L[i]) \in Nat
      BY <1>1, <1>2, <2>4, <2>6
    <3> HIDE DEF Plain
    <3> QED BY <3>1
  <2>8. /\ Len(Join(a, f)) = Len(a) + 1 + Len(f)
        /\ \A p \in 1..Len(a) : Join(a, f)[p] = a[p]
    BY <2>7, JoinPlain
  <2>9. L[j] = Join(a, f)
    BY <1>2, <2>4, <2>6
  <2>10. Len(L[i]) <= Len(a) /\ \A p \in 1..Len(L[i]) : L[i][p] = a[p]
    BY <2>5, <2>6 DEF Begins
  <2>11. Begins(L[i], L[j])
    <3>1. Len(L[i]) <= Len(L[j])
      BY <2>7, <2>8, <2>9, <2>10
    <3>2. \A p \in 1..Len(L[i]) : p \in 1..Len(a)
      BY <2>7, <2>10
    <3> QED BY <2>8, <2>9, <2>10, <3>1, <3>2 DEF Begins
  <2> QED BY <2>2, <2>11
<1> QED BY <1>3

\* The last line of a message: field i + 1 begins behind its i-th delimiter.
FieldsAt(m, L, N, line) ==
    /\ line \in Seq(Plain) /\ Len(line) = Len(L[N])
    /\ \A i \in 0..N : Len(L[i]) \in Nat /\ Len(L[i]) <= Len(line)
    /\ \A i \in 1..(N + 1) : m[i] \in Seq(Plain) /\ Len(m[i]) \in Nat
    /\ Len(L[0]) = Len(m[1]) /\ \A p \in 1..Len(m[1]) : line[p] = m[1][p]
    /\ \A i \in 1..N : /\ Len(L[i]) = Len(L[i - 1]) + 1 + Len(m[i + 1])
                       /\ line[Len(L[i - 1]) + 1] = PROTOCOL_DELIMITER
                       /\ \A p \in 1..Len(m[i + 1]) : line[Len(L[i - 1]) + 1 + p] = m[i + 1][p]

LEMMA LineFields ==
    ASSUME NEW m \in Messages, NEW L, LineOf(m, L), NEW N \in Nat, N = Len(m) - 1,
           NEW line, line = L[N]
    PROVE  FieldsAt(m, L, N, line)
<1>1. Len(m) = N + 1 /\ \A i \in 1..(N + 1) : m[i] \in Seq(Plain)
  <2> Len(m) \in Nat /\ \A i \in 1..Len(m) : m[i] \in Seq(Plain)
    BY MessageType
  <2> QED OBVIOUS
<1>2. \A i \in 0..N : L[i] \in Seq(Plain)
  BY DEF LineOf
<1>3. L[0] = m[1] /\ \A i \in 1..N : L[i] = Join(L[i - 1], m[i + 1])
  BY DEF LineOf, IsLines
<1> HIDE DEF Plain
<1>4. \A i \in 0..N : Len(L[i]) \in Nat
  BY <1>2
<1>5. \A i \in 1..(N + 1) : Len(m[i]) \in Nat
  BY <1>1
<1>6. line \in Seq(Plain)
  BY <1>2
<1>7. ASSUME NEW i \in 0..N
      PROVE  Len(L[i]) <= Len(line) /\ \A p \in 1..Len(L[i]) : line[p] = L[i][p]
  <2>1. Begins(L[i], L[N])
    BY LinesNest
  <2> QED BY <2>1 DEF Begins
<1>8. ASSUME NEW i \in 1..N
      PROVE  /\ Len(L[i]) = Len(L[i - 1]) + 1 + Len(m[i + 1])
             /\ line[Len(L[i - 1]) + 1] = PROTOCOL_DELIMITER
             /\ \A p \in 1..Len(m[i + 1]) : line[Len(L[i - 1]) + 1 + p] = m[i + 1][p]
  <2>1. PICK a, f, b : a = L[i - 1] /\ f = m[i + 1] /\ b = L[i]
    OBVIOUS
  <2>2. a \in Seq(Plain) /\ f \in Seq(Plain) /\ Len(a) \in Nat /\ Len(f) \in Nat /\ i \in 0..N
    <3>1. i - 1 \in 0..N /\ i + 1 \in 1..(N + 1)
      OBVIOUS
    <3> QED BY <1>1, <1>2, <1>4, <1>5, <2>1, <3>1
  <2>3. b = Join(a, f)
    BY <1>3, <2>1
  <2>4. /\ Len(b) = Len(a) + 1 + Len(f)
        /\ b[Len(a) + 1] = PROTOCOL_DELIMITER
        /\ \A p \in 1..Len(f) : b[Len(a) + 1 + p] = f[p]
    BY <2>2, <2>3, JoinPlain
  <2>5. \A p \in 1..Len(b) : line[p] = b[p]
    BY <1>7, <2>1, <2>2
  <2>6. Len(a) + 1 \in 1..Len(b) /\ \A p \in 1..Len(f) : Len(a) + 1 + p \in 1..Len(b)
    BY <2>2, <2>4
  <2>7. line[Len(a) + 1] = PROTOCOL_DELIMITER /\ \A p \in 1..Len(f) : line[Len(a) + 1 + p] = f[p]
    BY <2>4, <2>5, <2>6
  <2> QED BY <2>1, <2>4, <2>7
<1>9. \A p \in 1..Len(m[1]) : line[p] = m[1][p]
  <2>1. 0 \in 0..N
    OBVIOUS
  <2> QED BY <1>3, <1>7, <2>1
<1> QED BY <1>1, <1>3, <1>4, <1>5, <1>6, <1>7, <1>8, <1>9 DEF FieldsAt

\* No field of m holds a delimiter.
NoDelimiters(m, N) == \A i \in 1..(N + 1) : \A p \in 1..Len(m[i]) : m[i][p] # PROTOCOL_DELIMITER

\* So the delimiters of its line are those between its fields.
LEMMA FieldRanks ==
    ASSUME NEW m, NEW L, NEW N \in Nat, NEW line, FieldsAt(m, L, N, line), NoDelimiters(m, N)
    PROVE  /\ line \in Seq(Bytes)
           /\ Cardinality(Cuts(line)) = N
           /\ \A i \in 1..N : CutAt(line, i) = Len(L[i - 1]) + 1
<1>1. /\ line \in Seq(Plain) /\ Len(line) = Len(L[N])
      /\ \A i \in 0..N : Len(L[i]) \in Nat /\ Len(L[i]) <= Len(line)
      /\ \A i \in 1..(N + 1) : Len(m[i]) \in Nat
      /\ Len(L[0]) = Len(m[1]) /\ \A p \in 1..Len(m[1]) : line[p] = m[1][p]
      /\ \A i \in 1..N : /\ Len(L[i]) = Len(L[i - 1]) + 1 + Len(m[i + 1])
                         /\ line[Len(L[i - 1]) + 1] = PROTOCOL_DELIMITER
                         /\ \A p \in 1..Len(m[i + 1]) : line[Len(L[i - 1]) + 1 + p] = m[i + 1][p]
  BY DEF FieldsAt
<1>2. line \in Seq(Bytes) /\ DOMAIN line = 1..Len(line) /\ Len(line) \in Nat
  <2>1. line \in Seq(Bytes)
    <3> Plain \subseteq Bytes
      BY DEF Plain
    <3> HIDE DEF Plain
    <3> QED BY <1>1
  <2> QED BY <2>1
<1>3. Cuts(line) \subseteq 1..Len(line)
  BY <1>2 DEF Cuts
<1>4. Rank(line, 0) = 0
  <2>1. CutsUpTo(line, 0) = {}
    BY <1>2, <1>3 DEF CutsUpTo
  <2> QED BY <2>1, FS_EmptySet DEF Rank
<1>5. Rank(line, Len(L[0])) = 0
  <2>1. ASSUME NEW r \in Cuts(line), 0 < r, r <= Len(L[0]) PROVE FALSE
    <3>1. 1 \in 1..(N + 1) /\ r \in 1..Len(m[1])
      BY <1>1, <1>2, <1>3, <2>1
    <3>2. line[r] # PROTOCOL_DELIMITER
      BY <1>1, <3>1 DEF NoDelimiters
    <3> QED BY <3>2 DEF Cuts
  <2>2. 0 \in 0..N /\ Len(L[0]) \in Nat
    BY <1>1
  <2>3. Len(L[0]) \in Int /\ 0 \in Int /\ 0 <= Len(L[0])
    BY <2>2
  <2>4. \A r \in Cuts(line) : ~(0 < r /\ r <= Len(L[0]))
    BY <2>1
  <2>5. Rank(line, 0) = Rank(line, Len(L[0]))
    BY <1>2, <2>3, <2>4, RankFlat
  <2> QED BY <1>4, <2>5
<1>6. ASSUME NEW i \in 1..N
      PROVE  /\ Len(L[i - 1]) + 1 \in Cuts(line)
             /\ Rank(line, Len(L[i - 1]) + 1) = Rank(line, Len(L[i - 1])) + 1
             /\ Rank(line, Len(L[i])) = Rank(line, Len(L[i - 1]) + 1)
  <2>1. i - 1 \in 0..N /\ i \in 0..N /\ i + 1 \in 1..(N + 1)
    OBVIOUS
  <2>2. PICK a \in Nat, z \in Nat, l \in Nat :
            a = Len(L[i - 1]) /\ z = Len(L[i]) /\ l = Len(m[i + 1])
    BY <1>1, <2>1
  <2>3. /\ z = a + 1 + l /\ z <= Len(line) /\ line[a + 1] = PROTOCOL_DELIMITER
        /\ \A p \in 1..l : line[a + 1 + p] = m[i + 1][p]
    BY <1>1, <2>1, <2>2
  <2>4. a + 1 \in 1..Len(line)
    BY <1>2, <2>3
  <2>5. a + 1 \in Cuts(line)
    BY <1>2, <2>3, <2>4 DEF Cuts
  <2>6. Rank(line, a + 1) = Rank(line, (a + 1) - 1) + 1
    BY <1>2, <2>5, RankStep
  <2>7. (a + 1) - 1 = a
    OBVIOUS
  <2>8. ASSUME NEW r \in Cuts(line), a + 1 < r, r <= z PROVE FALSE
    <3>1. r \in 1..Len(line)
      BY <1>3
    <3>2. PICK p : p = r - (a + 1)
      OBVIOUS
    <3>3. p \in 1..l /\ a + 1 + p = r
      BY <1>2, <2>3, <2>8, <3>1, <3>2
    <3>4. line[r] = m[i + 1][p] /\ p \in 1..Len(m[i + 1])
      BY <2>2, <2>3, <3>3
    <3>5. m[i + 1][p] # PROTOCOL_DELIMITER
      BY <2>1, <3>4 DEF NoDelimiters
    <3> QED BY <3>4, <3>5 DEF Cuts
  <2>9. \A r \in Cuts(line) : ~(a + 1 < r /\ r <= z)
    BY <2>8
  <2>10. a + 1 \in Int /\ z \in Int /\ a + 1 <= z
    BY <2>3
  <2>11. Rank(line, a + 1) = Rank(line, z)
    BY <1>2, <2>9, <2>10, RankFlat
  <2> QED BY <2>2, <2>5, <2>6, <2>7, <2>11
<1> DEFINE T == {i \in 0..N : Rank(line, Len(L[i])) # i}
<1>7. T = {}
  <2> SUFFICES ASSUME T # {} PROVE FALSE
    OBVIOUS
  <2>1. PICK i \in T : \A j \in T : i <= j
    <3>1. T \in SUBSET Nat
      OBVIOUS
    <3> HIDE DEF T
    <3> QED BY <3>1, LeastNat
  <2>2. i \in 0..N /\ Rank(line, Len(L[i])) # i /\ i # 0
    BY <1>5, <2>1
  <2>3. i \in 1..N /\ i - 1 \in 0..N /\ i - 1 \notin T
    BY <2>1, <2>2
  <2>4. Rank(line, Len(L[i - 1])) = i - 1
    BY <2>3
  <2>5. Rank(line, Len(L[i])) = (i - 1) + 1
    BY <1>6, <2>3, <2>4
  <2> QED BY <2>2, <2>5
<1>8. \A i \in 0..N : Rank(line, Len(L[i])) = i
  BY <1>7
<1>9. Cardinality(Cuts(line)) = N
  <2>1. CutsUpTo(line, Len(line)) = Cuts(line)
    BY <1>2, <1>3 DEF CutsUpTo
  <2>2. Rank(line, Len(line)) = N
    BY <1>1, <1>8
  <2> QED BY <2>1, <2>2 DEF Rank
<1>10. ASSUME NEW i \in 1..N PROVE CutAt(line, i) = Len(L[i - 1]) + 1
  <2>1. PICK p : p = Len(L[i - 1]) + 1
    OBVIOUS
  <2>2. i - 1 \in 0..N /\ (i - 1) + 1 = i
    OBVIOUS
  <2>3. Rank(line, Len(L[i - 1])) = i - 1
    BY <1>8, <2>2
  <2>4. p \in Cuts(line) /\ Rank(line, p) = i
    BY <1>6, <2>1, <2>2, <2>3
  <2>5. CutAt(line, i) = p
    BY <1>2, <2>4, CutUnique
  <2> QED BY <2>1, <2>5
<1> QED BY <1>2, <1>9, <1>10

LEMMA PiecesAreFields ==
    ASSUME NEW m \in Messages, NEW L, NEW N \in Nat, N = Len(m) - 1, NEW line,
           FieldsAt(m, L, N, line), NoDelimiters(m, N)
    PROVE  Pieces(line) = m
<1>1. /\ line \in Seq(Bytes) /\ Cardinality(Cuts(line)) = N
      /\ \A i \in 1..N : CutAt(line, i) = Len(L[i - 1]) + 1
  BY FieldRanks
<1>2. /\ line \in Seq(Plain) /\ Len(line) = Len(L[N])
      /\ \A i \in 0..N : Len(L[i]) \in Nat /\ Len(L[i]) <= Len(line)
      /\ \A i \in 1..(N + 1) : m[i] \in Seq(Plain) /\ Len(m[i]) \in Nat
      /\ Len(L[0]) = Len(m[1]) /\ \A p \in 1..Len(m[1]) : line[p] = m[1][p]
      /\ \A i \in 1..N : /\ Len(L[i]) = Len(L[i - 1]) + 1 + Len(m[i + 1])
                         /\ \A p \in 1..Len(m[i + 1]) : line[Len(L[i - 1]) + 1 + p] = m[i + 1][p]
  BY DEF FieldsAt
<1>3. PICK ps : ps = Pieces(line)
  OBVIOUS
<1>4. ps = [i \in 1..(N + 1) |-> SubSeq(line, PieceFrom(line, i), PieceTo(line, i))]
  BY <1>1, <1>3, PiecesDef
<1>5. m = [i \in 1..(N + 1) |-> m[i]]
  <2>1. m \in Seq(Seq(Plain)) /\ Len(m) \in Nat
    BY MessageType
  <2> HIDE DEF Plain
  <2>2. m \in [1..Len(m) -> Seq(Plain)] /\ Len(m) = N + 1
    BY <2>1, LenProperties
  <2> QED BY <2>2
<1>6. ASSUME NEW i \in 1..(N + 1)
      PROVE  SubSeq(line, PieceFrom(line, i), PieceTo(line, i)) = m[i]
  <2>1. PICK a, z, f : a = PieceFrom(line, i) /\ z = PieceTo(line, i) /\ f = m[i]
    OBVIOUS
  <2>2. f \in Seq(Plain) /\ Len(f) \in Nat /\ i - 1 \in 0..N
    BY <1>2, <2>1
  <2>3. z = Len(L[i - 1]) /\ z \in Nat
    <3>1. CASE i = N + 1
      <4>1. i > Cardinality(Cuts(line)) /\ i - 1 = N
        BY <1>1, <3>1
      <4>2. z = Len(line)
        BY <2>1, <4>1 DEF PieceTo
      <4> QED BY <1>2, <2>2, <4>1, <4>2
    <3>2. CASE i # N + 1
      <4>1. ~(i > Cardinality(Cuts(line))) /\ i \in 1..N
        BY <1>1, <3>2
      <4>2. z = (Len(L[i - 1]) + 1) - 1
        BY <1>1, <2>1, <4>1 DEF PieceTo
      <4>3. Len(L[i - 1]) \in Nat
        BY <1>2, <2>2
      <4> QED BY <4>2, <4>3
    <3> QED BY <3>1, <3>2
  <2>4. /\ a \in Nat /\ a >= 1 /\ z = a - 1 + Len(f)
        /\ \A p \in 1..Len(f) : line[a - 1 + p] = f[p]
    <3>1. CASE i = 1
      <4>1. a = 1 /\ i - 1 = 0 /\ a - 1 = 0
        BY <2>1, <3>1 DEF PieceFrom
      <4>2. z = Len(m[1]) /\ f = m[1]
        BY <1>2, <2>1, <2>3, <3>1, <4>1
      <4>3. \A p \in 1..Len(f) : 0 + p = p
        BY <2>2
      <4>4. \A p \in 1..Len(f) : line[p] = f[p]
        BY <1>2, <4>2
      <4>5. \A p \in 1..Len(f) : line[a - 1 + p] = f[p]
        BY <4>1, <4>3, <4>4
      <4>6. z = a - 1 + Len(f)
        BY <2>2, <4>1, <4>2
      <4> QED BY <4>1, <4>5, <4>6
    <3>2. CASE i # 1
      <4>1. PICK j : j = i - 1
        OBVIOUS
      <4>2. j \in 1..N /\ j + 1 = i /\ j \in 0..N /\ j - 1 \in 0..N
        BY <3>2, <4>1
      <4>3. PICK c \in Nat : c = Len(L[j - 1])
        BY <1>2, <4>2
      <4>4. a = c + 1 + 1
        BY <1>1, <2>1, <3>2, <4>1, <4>2, <4>3 DEF PieceFrom
      <4>5. z = c + 1 + Len(f) /\ \A p \in 1..Len(f) : line[c + 1 + p] = f[p]
        <5>1. /\ Len(L[j]) = Len(L[j - 1]) + 1 + Len(m[j + 1])
              /\ \A p \in 1..Len(m[j + 1]) : line[Len(L[j - 1]) + 1 + p] = m[j + 1][p]
          BY <1>2, <4>2
        <5>2. m[j + 1] = f /\ z = Len(L[j])
          BY <2>1, <2>3, <4>1, <4>2
        <5> QED BY <4>3, <5>1, <5>2
      <4>6. a - 1 = c + 1
        BY <4>4
      <4> QED BY <4>4, <4>5, <4>6
    <3> QED BY <3>1, <3>2
  <2>5. z <= Len(line) /\ Len(line) \in Nat
    <3>1. Len(line) \in Nat
      BY <1>1
    <3> QED BY <1>2, <2>2, <2>3, <3>1
  <2>6. PICK g : g = SubSeq(line, a, z)
    OBVIOUS
  <2>7. g \in Seq(Plain) /\ Len(g) = Len(f) /\ \A p \in 1..Len(f) : g[p] = line[a + p - 1]
    <3> HIDE DEF Plain
    <3>1. \A x \in a..z : line[x] \in Plain
      <4>1. \A x \in a..z : x \in 1..Len(line)
        BY <2>3, <2>4, <2>5
      <4>2. \A x \in 1..Len(line) : line[x] \in Plain
        BY <1>2
      <4> QED BY <4>1, <4>2
    <3>2. a \in Int /\ z \in Int /\ z - a + 1 = Len(f)
      BY <2>2, <2>3, <2>4
    <3>3. /\ g \in Seq(Plain)
          /\ Len(g) = IF a <= z THEN z - a + 1 ELSE 0
          /\ \A p \in 1..(z - a + 1) : g[p] = line[a + p - 1]
      BY <2>6, <3>1, <3>2, SubSeqProperties
    <3>4. Len(g) = Len(f)
      BY <2>2, <2>3, <2>4, <3>2, <3>3
    <3> QED BY <3>2, <3>3, <3>4
  <2>8. \A p \in 1..Len(g) : g[p] = f[p]
    <3> SUFFICES ASSUME NEW p \in 1..Len(g) PROVE g[p] = f[p]
      OBVIOUS
    <3>1. a + p - 1 = a - 1 + p /\ p \in 1..Len(f)
      BY <2>2, <2>4, <2>7
    <3> QED BY <2>4, <2>7, <3>1
  <2>9. g = f
    BY <2>2, <2>7, <2>8, SeqEqual
  <2> QED BY <2>1, <2>6, <2>9
<1>7. ps = m
  BY <1>4, <1>5, <1>6
<1> QED BY <1>3, <1>7

\* A whole line has the fields it was built from, as many as are kept.
LEMMA FieldsBack ==
    ASSUME NEW m \in Messages, \A k \in DOMAIN m : PROTOCOL_DELIMITER \notin Range(m[k])
    PROVE  protocol_parse_message(protocol_build_message(m)) = SubSeq(m, 1, Kept(Len(m)))
<1>1. PICK N : N = Len(m) - 1
  OBVIOUS
<1>2. N \in Nat /\ Len(m) = N + 1 /\ DOMAIN m = 1..(N + 1) /\ \A i \in 1..(N + 1) : m[i] \in Seq(Plain)
  <2>1. m \in Seq(Seq(Plain)) /\ Len(m) \in Nat /\ Len(m) >= 1
        /\ \A i \in 1..Len(m) : m[i] \in Seq(Plain)
    BY MessageType
  <2> HIDE DEF Plain
  <2>2. DOMAIN m = 1..Len(m)
    BY <2>1
  <2>3. N \in Nat /\ Len(m) = N + 1
    BY <1>1, <2>1
  <2> QED BY <2>1, <2>2, <2>3
<1>3. PICK L : LineOf(m, L)
  BY LinesExist
<1>4. PICK line, raw : line = L[N] /\ raw = protocol_build_message(m)
  OBVIOUS
<1>5. FieldsAt(m, L, N, line)
  BY <1>1, <1>2, <1>3, <1>4, LineFields
<1>6. NoDelimiters(m, N)
  <2> SUFFICES ASSUME NEW i \in 1..(N + 1), NEW p \in 1..Len(m[i])
               PROVE  m[i][p] # PROTOCOL_DELIMITER
    BY DEF NoDelimiters
  <2> HIDE DEF Plain
  <2>1. p \in DOMAIN m[i]
    BY <1>2
  <2>2. PROTOCOL_DELIMITER \notin Range(m[i])
    BY <1>2
  <2> QED BY <2>1, <2>2 DEF Range
<1>7. Pieces(line) = m
  BY <1>1, <1>2, <1>5, <1>6, PiecesAreFields
<1>8. raw = line \o <<PROTOCOL_TERMINATOR>>
  BY <1>1, <1>3, <1>4 DEF LineOf
<1>9. line \in Seq(Plain)
  BY <1>5 DEF FieldsAt
<1>10. line \in Seq(Bytes) /\ PROTOCOL_TERMINATOR \in Bytes
  <2>1. Plain \subseteq Bytes /\ PROTOCOL_TERMINATOR \in Bytes
    BY DEF Plain, Bytes
  <2> HIDE DEF Plain
  <2> QED BY <1>9, <2>1
<1>11. /\ raw \in Seq(Bytes) /\ Len(raw) = Len(line) + 1 /\ Len(line) \in Nat
       /\ raw[Len(line) + 1] = PROTOCOL_TERMINATOR
       /\ \A p \in 1..Len(line) : raw[p] = line[p]
  BY <1>8, <1>10
<1>12. SubSeq(raw, 1, Len(line)) = line
  <2>1. PICK n \in Nat : n = Len(line) /\ n <= Len(raw)
    BY <1>11
  <2>2. PICK g : g = SubSeq(raw, 1, n)
    OBVIOUS
  <2>3. g \in Seq(Bytes) /\ Len(g) = n /\ \A p \in 1..n : g[p] = raw[p]
    BY <1>11, <2>1, <2>2
  <2>4. \A p \in 1..Len(g) : g[p] = line[p]
    BY <1>11, <2>1, <2>3
  <2>5. g = line
    BY <1>10, <2>1, <2>3, <2>4, SeqEqual
  <2> QED BY <2>1, <2>2, <2>5
<1>13. Bare(raw) = line
  <2>1. Len(raw) - 1 = Len(line)
    BY <1>11
  <2> QED BY <1>11, <1>12, <2>1 DEF Bare, Last, Front
<1> QED BY <1>4, <1>7, <1>13, ParseDef

-----------------------------------------------------------------------------
(* The theorems *)

\* One thread of the process writes to the socket: protocol.h asks its callers to
\* see to that, and without it the pieces of two lines may alternate.
OneThread == \E t : Threads = {t}

LEMMA Invariance ==
    ASSUME NEW t, Threads = {t}
    PROVE  Spec => []Inv(t)
<1>1. Init => Inv(t)
  BY InvInit
<1>2. Inv(t) /\ [Next]_vars => Inv(t)'
  BY InvNext
<1> QED BY <1>1, <1>2, PTL DEF Spec

\* What is received is the beginning of a line.
LEMMA GotRaw ==
    ASSUME NEW t, Inv(t), NEW i \in DOMAIN got
    PROVE  /\ i \in 1..Len(got) /\ i \in 1..Len(sent) /\ sent[i] \in Messages
           /\ got[i].raw \in Seq(Bytes) \ {<<>>}
           /\ got[i].fields = protocol_parse_message(got[i].raw)
           /\ WholeLine(got, sent, i) \/ CutLine(got, sent, i, open)
<1>1. Types /\ InOrder(got, sent, open)
  BY DEF Inv
<1>2. got \in Seq(Received) /\ sent \in Seq(Messages)
  BY <1>1 DEF Types
<1>3. i \in 1..Len(got) /\ got[i] \in Received /\ Len(got) \in Nat /\ Len(sent) \in Nat
  BY <1>2
<1>4. PICK x : x = got[i]
  OBVIOUS
<1>5. x.raw \in Seq(Bytes) \ {<<>>} /\ x.fields = protocol_parse_message(x.raw)
  BY <1>3, <1>4 DEF Received, Message
<1>6. i \in 1..Len(sent) /\ (WholeLine(got, sent, i) \/ CutLine(got, sent, i, open))
  BY <1>1, <1>3 DEF InOrder
<1>7. sent[i] \in Messages
  BY <1>2, <1>6
<1> QED BY <1>3, <1>4, <1>5, <1>6, <1>7

LEMMA InvFrames ==
    ASSUME NEW t, Inv(t)
    PROVE  FramesKept
<1>1. ASSUME NEW i \in DOMAIN got
      PROVE  /\ i <= Len(sent)
             /\ \/ got[i].raw = protocol_build_message(sent[i])
                \/ /\ i = Len(got) /\ i = Len(sent) /\ ~open
                   /\ IsStrictPrefix(got[i].raw, protocol_build_message(sent[i]))
  <2>1. i \in 1..Len(sent) /\ (WholeLine(got, sent, i) \/ CutLine(got, sent, i, open))
    BY GotRaw
  <2>2. Types
    BY DEF Inv
  <2>3. i <= Len(sent)
    BY <2>1, <2>2, Sizes
  <2> QED BY <2>1, <2>3 DEF WholeLine, CutLine
<1> QED BY <1>1 DEF FramesKept

LEMMA InvFields ==
    ASSUME NEW t, Inv(t)
    PROVE  FieldsKept
<1> SUFFICES ASSUME NEW i \in DOMAIN got
             PROVE  /\ \A k \in DOMAIN got[i].fields :
                          {PROTOCOL_DELIMITER, PROTOCOL_TERMINATOR} \cap Range(got[i].fields[k]) = {}
                    /\ (/\ Last(got[i].raw) = PROTOCOL_TERMINATOR
                        /\ \A k \in DOMAIN sent[i] : PROTOCOL_DELIMITER \notin Range(sent[i][k]))
                       => got[i].fields = SubSeq(sent[i], 1, Kept(Len(sent[i])))
  BY DEF FieldsKept, Kept
<1>1. /\ sent[i] \in Messages
      /\ got[i].raw \in Seq(Bytes) \ {<<>>}
      /\ got[i].fields = protocol_parse_message(got[i].raw)
      /\ WholeLine(got, sent, i) \/ CutLine(got, sent, i, open)
  BY GotRaw
<1>2. PICK raw, m, line : raw = got[i].raw /\ m = sent[i] /\ line = protocol_build_message(m)
  OBVIOUS
<1>3. raw \in Seq(Bytes) /\ raw # <<>> /\ Len(raw) \in Nat /\ Len(raw) >= 1
  BY <1>1, <1>2
<1>4. /\ line \in Seq(Bytes) /\ Len(line) \in Nat
      /\ \A p \in 1..(Len(line) - 1) : line[p] # PROTOCOL_TERMINATOR
  BY <1>1, <1>2, BuildsLine DEF IsLine
<1>5. raw = line \/ IsStrictPrefix(raw, line)
  BY <1>1, <1>2 DEF WholeLine, CutLine
<1>6. raw # line => /\ Len(raw) < Len(line)
                    /\ \A p \in 1..Len(raw) : raw[p] = line[p]
  <2> SUFFICES ASSUME raw # line
               PROVE  Len(raw) < Len(line) /\ \A p \in 1..Len(raw) : raw[p] = line[p]
    OBVIOUS
  <2>1. /\ Len(raw) <= Len(line)
        /\ SubSeq(raw, 1, Len(raw)) = SubSeq(line, 1, Len(raw))
    BY <1>5 DEF IsStrictPrefix, IsPrefix
  <2>2. PICK n \in Nat : n = Len(raw) /\ n <= Len(line)
    BY <1>3, <2>1
  <2>3. PICK x, y : x = SubSeq(raw, 1, n) /\ y = SubSeq(line, 1, n)
    OBVIOUS
  <2>4. \A p \in 1..n : x[p] = raw[p]
    BY <1>3, <2>2, <2>3
  <2>5. \A p \in 1..n : y[p] = line[p]
    BY <1>4, <2>2, <2>3
  <2>6. \A p \in 1..Len(raw) : raw[p] = line[p]
    BY <2>1, <2>2, <2>3, <2>4, <2>5
  <2>7. Len(raw) # Len(line)
    <3> SUFFICES ASSUME Len(raw) = Len(line) PROVE FALSE
      OBVIOUS
    <3>1. raw = line
      BY <1>3, <1>4, <2>6, SeqEqual
    <3> QED BY <3>1
  <2> QED BY <1>3, <1>4, <2>1, <2>6, <2>7
<1>7. IsRaw(raw) /\ (raw # line => raw[Len(raw)] # PROTOCOL_TERMINATOR)
  <2>1. CASE raw = line
    BY <1>3, <1>4, <2>1 DEF IsRaw
  <2>2. CASE raw # line
    <3>1. \A p \in 1..Len(raw) : p \in 1..(Len(line) - 1)
      BY <1>3, <1>4, <1>6, <2>2
    <3>2. \A p \in 1..Len(raw) : raw[p] # PROTOCOL_TERMINATOR
      BY <1>4, <1>6, <2>2, <3>1
    <3>3. Len(raw) \in 1..Len(raw) /\ \A p \in 1..(Len(raw) - 1) : p \in 1..Len(raw)
      BY <1>3
    <3> QED BY <1>3, <3>2, <3>3 DEF IsRaw
  <2> QED BY <2>1, <2>2
<1>8. PICK fields : fields = got[i].fields
  OBVIOUS
<1>9. fields = protocol_parse_message(raw)
  BY <1>1, <1>2, <1>8
<1>10. \A k \in DOMAIN fields :
          {PROTOCOL_DELIMITER, PROTOCOL_TERMINATOR} \cap Range(fields[k]) = {}
  BY <1>7, <1>9, FieldsFree
<1>11. ASSUME Last(raw) = PROTOCOL_TERMINATOR, \A k \in DOMAIN m : PROTOCOL_DELIMITER \notin Range(m[k])
       PROVE  fields = SubSeq(m, 1, Kept(Len(m)))
  <2>1. raw = line
    BY <1>7, <1>11 DEF Last
  <2>2. m \in Messages
    BY <1>1, <1>2
  <2>3. protocol_parse_message(protocol_build_message(m)) = SubSeq(m, 1, Kept(Len(m)))
    BY <1>11, <2>2, FieldsBack
  <2> QED BY <1>2, <1>9, <2>1, <2>3
<1> QED BY <1>2, <1>8, <1>10, <1>11

\* Types of all variables, and the room of the socket buffers.
THEOREM TypeCorrect ==
    ASSUME OneThread
    PROVE  Spec => []TypeOK
<1>1. PICK t : Threads = {t}
  BY DEF OneThread
<1>2. Spec => []Inv(t)
  BY <1>1, Invariance
<1>3. Inv(t) => TypeOK
  <2> SUFFICES ASSUME Inv(t) PROVE TypeOK
    OBVIOUS
  <2>1. Types /\ Bounds
    BY DEF Inv
  <2>2. \A i \in DOMAIN got : got[i].raw \in Seq(Bytes) \ {<<>>}
    BY GotRaw
  <2> QED BY <2>1, <2>2 DEF TypeOK, Types, Bounds
<1> QED BY <1>2, <1>3, PTL

\* protocol_send_message and protocol_receive_message keep the frames: whatever
\* pieces send() takes and recv() sees, the n-th message received is the n-th one
\* sent, byte for byte, and only the last one may be cut, by the sender's end.
THEOREM FramesAreKept ==
    ASSUME OneThread
    PROVE  Spec => []FramesKept
<1>1. PICK t : Threads = {t}
  BY DEF OneThread
<1>2. Spec => []Inv(t)
  BY <1>1, Invariance
<1>3. Inv(t) => FramesKept
  BY InvFrames
<1> QED BY <1>2, <1>3, PTL

\* protocol_parse_message gives back the fields that protocol_build_message joined,
\* when none of them holds a delimiter, and never one that holds a delimiter or a
\* terminator.
THEOREM FieldsAreKept ==
    ASSUME OneThread
    PROVE  Spec => []FieldsKept
<1>1. PICK t : Threads = {t}
  BY DEF OneThread
<1>2. Spec => []Inv(t)
  BY <1>1, Invariance
<1>3. Inv(t) => FieldsKept
  BY InvFields
<1> QED BY <1>2, <1>3, PTL

\* The buffer of protocol_receive_message never overflows, and the receiver gives
\* up an open connection only over a line that does not fit.
THEOREM SizeIsLimited ==
    ASSUME OneThread
    PROVE  Spec => []SizeLimit
<1>1. PICK t : Threads = {t}
  BY DEF OneThread
<1>2. Spec => []Inv(t)
  BY <1>1, Invariance
<1>3. Inv(t) => SizeLimit
  BY DEF Inv, Partial, TooLong, SizeLimit
<1> QED BY <1>2, <1>3, PTL

-----------------------------------------------------------------------------
(* The name server's request channel: storage_server_send_and_wait and     *)
(* run_ss_loop, and the storage server at the other end of the connection. *)

\* The part of the type invariant that the arguments below rest on.
SlotTypes ==
    /\ awaiting_response \in BOOLEAN /\ response_ready \in BOOLEAN
    /\ response_raw \in ChannelMessages \cup {NoMsg}
    /\ pc \in [Handlers -> {"idle", "check", "turn", "wait", "return"}]
    /\ result \in [Handlers -> ChannelMessages \cup {NoMsg, Failed}]
    /\ toSS \in Seq(Responses) /\ toNS \in Seq(ChannelMessages)
    /\ asked \in 0..MaxRequests

LEMMA SlotTypesStep == SlotTypes /\ [ChannelNext]_channel => SlotTypes'
<1> SUFFICES ASSUME SlotTypes, [ChannelNext]_channel PROVE SlotTypes'
    OBVIOUS
<1>t. SlotTypes /\ MaxRequests \in Nat
    BY ChannelAssumption
<1>m. /\ \A s \in Seq(ChannelMessages) : s # <<>> => Head(s) \in ChannelMessages
                                               /\ Tail(s) \in Seq(ChannelMessages)
      /\ \A s \in Seq(Responses) : s # <<>> => Head(s) \in Responses
                                                /\ Tail(s) \in Seq(Responses)
      /\ Push \in ChannelMessages /\ Responses \subseteq ChannelMessages
      /\ <<>> \in Seq(Responses)
    BY DEF ChannelMessages
<1>1. ASSUME NEW h \in Handlers, storage_server_acquire(h) PROVE SlotTypes'
    BY <1>1, <1>t DEF storage_server_acquire, SlotTypes, slot, handler, server
<1>2. ASSUME NEW h \in Handlers, CheckAlive(h) PROVE SlotTypes'
    BY <1>2, <1>t DEF CheckAlive, SlotTypes, slot, handler, server
<1>3. ASSUME NEW h \in Handlers, SendRequest(h) PROVE SlotTypes'
  <2>1. CASE is_alive /\ asked < MaxRequests /\ pc' = [pc EXCEPT ![h] = "wait"]
               /\ asked' = asked + 1 /\ awaiting_response' = TRUE
               /\ toSS' = (IF ssUp THEN Append(toSS, asked + 1) ELSE toSS)
               /\ UNCHANGED result
    <3>1. asked + 1 \in Responses /\ asked' \in 0..MaxRequests
        BY <1>t, <2>1 DEF SlotTypes, Responses
    <3>2. toSS' \in Seq(Responses)
        BY <1>t, <2>1, <3>1 DEF SlotTypes
    <3> QED
        BY <1>3, <1>t, <2>1, <3>1, <3>2 DEF SendRequest, SendOrFail, EmptySlot,
            SlotTypes
  <2>2. CASE /\ pc' = [pc EXCEPT ![h] = "return"]
             /\ result' = [result EXCEPT ![h] = Failed]
             /\ UNCHANGED <<awaiting_response, asked, toSS, request>>
      BY <1>3, <1>t, <2>2 DEF SendRequest, SendOrFail, EmptySlot, SlotTypes
  <2> QED
      BY <1>3, <2>1, <2>2 DEF SendRequest, SendOrFail
<1>4. ASSUME NEW h \in Handlers, Take(h) PROVE SlotTypes'
  <2>1. Outcome \in ChannelMessages \cup {NoMsg, Failed}
      BY <1>t DEF Outcome, SlotTypes
  <2> QED
      BY <1>4, <1>t, <2>1 DEF Take, SlotTypes, server
<1>5. ASSUME NEW h \in Handlers, storage_server_release(h) PROVE SlotTypes'
    BY <1>5, <1>t DEF storage_server_release, SlotTypes, slot, handler, server
<1>6. ASSUME ReceiveMessage PROVE SlotTypes'
    BY <1>6, <1>t, <1>m DEF ReceiveMessage, SlotTypes, slot, handler, server
<1>7. ASSUME UpdateStats PROVE SlotTypes'
    BY <1>7, <1>t DEF UpdateStats, SlotTypes, slot, handler, server
<1>8. ASSUME storage_server_signal_failure PROVE SlotTypes'
    BY <1>8, <1>t DEF storage_server_signal_failure, SlotTypes, slot, handler,
        server
<1>9. ASSUME Serve PROVE SlotTypes'
    BY <1>9, <1>t, <1>m DEF Serve, SlotTypes, slot, handler, server
<1>10. ASSUME ss_sync_metadata_to_ns PROVE SlotTypes'
    BY <1>10, <1>t, <1>m DEF ss_sync_metadata_to_ns, SlotTypes, slot, handler, server
<1>11. ASSUME Fail PROVE SlotTypes'
    BY <1>11, <1>t, <1>m DEF Fail, SlotTypes, slot, handler, server
<1>12. ASSUME Finished \/ Hang PROVE SlotTypes'
    BY <1>12, <1>t DEF Finished, Hang, channel, SlotTypes, slot, handler, server
<1>u. CASE UNCHANGED channel
    BY <1>u, <1>t DEF channel, SlotTypes, slot, handler, server
<1> QED
    BY <1>u, <1>1, <1>2, <1>3, <1>4, <1>5, <1>6, <1>7, <1>8, <1>9, <1>10,
        <1>11, <1>12 DEF ChannelNext, HandlerStep, ReaderStep

\* awaiting_response is set only by a handler that then waits, and whoever
\* fills the slot resets it before a waiter can leave.
LEMMA AwaitingStep ==
    SlotTypes /\ AwaitingHasWaiter /\ [ChannelNext]_channel => AwaitingHasWaiter'
<1> SUFFICES ASSUME SlotTypes, AwaitingHasWaiter, [ChannelNext]_channel
             PROVE  AwaitingHasWaiter'
    OBVIOUS
<1>t. SlotTypes /\ AwaitingHasWaiter
    OBVIOUS
<1>1. ASSUME NEW h \in Handlers, storage_server_acquire(h) PROVE AwaitingHasWaiter'
    BY <1>1, <1>t DEF storage_server_acquire, SlotTypes, AwaitingHasWaiter,
        slot, handler
<1>2. ASSUME NEW h \in Handlers, CheckAlive(h) PROVE AwaitingHasWaiter'
    BY <1>2, <1>t DEF CheckAlive, SlotTypes, AwaitingHasWaiter, slot, handler
<1>3. ASSUME NEW h \in Handlers, SendRequest(h) PROVE AwaitingHasWaiter'
    BY <1>3, <1>t DEF SendRequest, SendOrFail, EmptySlot, SlotTypes,
        AwaitingHasWaiter, slot, handler
<1>4. ASSUME NEW h \in Handlers, Take(h) PROVE AwaitingHasWaiter'
    BY <1>4, <1>t DEF Take, Outcome, SlotTypes, AwaitingHasWaiter, slot,
        handler
<1>5. ASSUME NEW h \in Handlers, storage_server_release(h) PROVE AwaitingHasWaiter'
    BY <1>5, <1>t DEF storage_server_release, SlotTypes, AwaitingHasWaiter,
        slot, handler
<1>6. ASSUME ReceiveMessage PROVE AwaitingHasWaiter'
    BY <1>6, <1>t DEF ReceiveMessage, SlotTypes, AwaitingHasWaiter, slot, handler
<1>7. ASSUME UpdateStats PROVE AwaitingHasWaiter'
    BY <1>7, <1>t DEF UpdateStats, SlotTypes, AwaitingHasWaiter, slot, handler
<1>8. ASSUME storage_server_signal_failure PROVE AwaitingHasWaiter'
    BY <1>8, <1>t DEF storage_server_signal_failure, SlotTypes,
        AwaitingHasWaiter, slot, handler
<1>9. ASSUME Serve PROVE AwaitingHasWaiter'
    BY <1>9, <1>t DEF Serve, SlotTypes, AwaitingHasWaiter, slot, handler
<1>10. ASSUME ss_sync_metadata_to_ns PROVE AwaitingHasWaiter'
    BY <1>10, <1>t DEF ss_sync_metadata_to_ns, SlotTypes, AwaitingHasWaiter,
        slot, handler
<1>11. ASSUME Fail PROVE AwaitingHasWaiter'
    BY <1>11, <1>t DEF Fail, SlotTypes, AwaitingHasWaiter, slot, handler
<1>12. ASSUME Finished \/ Hang PROVE AwaitingHasWaiter'
    BY <1>12, <1>t DEF Finished, Hang, channel, SlotTypes, AwaitingHasWaiter, slot,
        handler
<1>u. CASE UNCHANGED channel
    BY <1>u, <1>t DEF channel, SlotTypes, AwaitingHasWaiter, slot, handler
<1> QED
    BY <1>u, <1>1, <1>2, <1>3, <1>4, <1>5, <1>6, <1>7, <1>8, <1>9, <1>10,
        <1>11, <1>12 DEF ChannelNext, HandlerStep, ReaderStep

-----------------------------------------------------------------------------
(* Every message is delivered once *)

\* Message m, if an answer, precedes all those that are still to be read.
Precedes(m) ==
    m \in Responses =>
        /\ m <= asked
        /\ \A i \in 1..Len(toSS) : m < toSS[i]
        /\ \A i \in 1..Len(toNS) : toNS[i] # Push => m < toNS[i]

\* Requests and answers travel in the order of their numbers, so an answer
\* taken out of the connection is none of those that are still in it.
ChannelInOrder ==
    /\ \A i \in 1..Len(toSS) : toSS[i] <= asked
    /\ \A i, j \in 1..Len(toSS) : i < j => toSS[i] < toSS[j]
    /\ \A i \in 1..Len(toNS) : toNS[i] <= asked
    /\ \A i \in 1..Len(toNS), j \in 1..Len(toSS) : toNS[i] < toSS[j]
    /\ \A i, j \in 1..Len(toNS) : i < j /\ toNS[j] # Push => toNS[i] < toNS[j]
    /\ Precedes(response_raw)
    /\ \A h \in Handlers : Precedes(result[h])

\* The answer in the slot has been returned by nobody.
SlotIsNew ==
    response_raw \in Responses =>
        \A h \in Handlers : result[h] # response_raw

OnceInv == ChannelInOrder /\ SlotIsNew /\ DeliveredOnce

LEMMA OnceStep == SlotTypes /\ OnceInv /\ [ChannelNext]_channel => OnceInv'
<1> SUFFICES ASSUME SlotTypes, OnceInv, [ChannelNext]_channel PROVE OnceInv'
    OBVIOUS
<1>t. /\ SlotTypes /\ ChannelInOrder /\ SlotIsNew /\ DeliveredOnce
      /\ MaxRequests \in Nat
      /\ NoMsg \notin Responses /\ Failed \notin Responses
      /\ Push \notin Responses
      /\ Responses \subseteq Nat /\ ChannelMessages \subseteq Nat /\ Push \in Nat
    BY ChannelAssumption DEF OnceInv, Responses, ChannelMessages, NoMsg, Failed, Push
<1>q. Len(toSS) \in Nat /\ Len(toNS) \in Nat
    BY <1>t DEF SlotTypes
<1>r. /\ \A i \in 1..Len(toSS) : toSS[i] \in Nat
      /\ \A i \in 1..Len(toNS) : toNS[i] \in Nat
  <2>1. /\ \A i \in 1..Len(toSS) : toSS[i] \in Responses
        /\ \A i \in 1..Len(toNS) : toNS[i] \in ChannelMessages
      BY <1>t DEF SlotTypes
  <2> QED
      BY <1>t, <2>1
<1>1. ASSUME NEW h \in Handlers, storage_server_acquire(h) PROVE OnceInv'
  <2>1. /\ UNCHANGED <<toSS, toNS, asked, response_raw>>
        /\ \E m \in {NoMsg, Failed} :
              result' = [result EXCEPT ![h] = m] \/ result' = result
      BY <1>1 DEF storage_server_acquire, server, slot
  <2>2. \A x : Precedes(x) => Precedes(x)'
      BY <2>1 DEF Precedes
  <2>3. Precedes(Failed) /\ Precedes(NoMsg)
      BY <1>t DEF Precedes
  <2>4. ChannelInOrder'
      BY <1>t, <2>1, <2>2, <2>3 DEF ChannelInOrder, SlotTypes
  <2>5. SlotIsNew' /\ DeliveredOnce'
      BY <1>t, <2>1 DEF SlotIsNew, DeliveredOnce, SlotTypes
  <2> QED
      BY <2>4, <2>5 DEF OnceInv
<1>2. ASSUME NEW h \in Handlers, CheckAlive(h) PROVE OnceInv'
  <2>1. /\ UNCHANGED <<toSS, toNS, asked, response_raw>>
        /\ \E m \in {NoMsg, Failed} :
              result' = [result EXCEPT ![h] = m] \/ result' = result
      BY <1>2 DEF CheckAlive, server, slot
  <2>2. \A x : Precedes(x) => Precedes(x)'
      BY <2>1 DEF Precedes
  <2>3. Precedes(Failed) /\ Precedes(NoMsg)
      BY <1>t DEF Precedes
  <2>4. ChannelInOrder'
      BY <1>t, <2>1, <2>2, <2>3 DEF ChannelInOrder, SlotTypes
  <2>5. SlotIsNew' /\ DeliveredOnce'
      BY <1>t, <2>1 DEF SlotIsNew, DeliveredOnce, SlotTypes
  <2> QED
      BY <2>4, <2>5 DEF OnceInv
<1>3. ASSUME NEW h \in Handlers, SendRequest(h) PROVE OnceInv'
  <2>0. UNCHANGED toNS /\ response_raw' = NoMsg
      BY <1>3 DEF SendRequest, SendOrFail, EmptySlot
  <2>1. CASE /\ asked < MaxRequests /\ asked' = asked + 1
             /\ toSS' = (IF ssUp THEN Append(toSS, asked + 1) ELSE toSS)
             /\ UNCHANGED result
    <3>1. asked + 1 \in Responses /\ asked \in Nat
        BY <1>t, <2>1 DEF SlotTypes, Responses
    <3>2. /\ \A i \in 1..Len(toSS') :
                \/ i \in 1..Len(toSS) /\ toSS'[i] = toSS[i]
                \/ i = Len(toSS) + 1 /\ toSS'[i] = asked + 1
      <4>1. CASE ssUp
          BY <1>t, <1>q, <2>1, <3>1, <4>1 DEF SlotTypes
      <4>2. CASE ~ssUp
          BY <2>1, <4>2
      <4> QED
          BY <4>1, <4>2
    <3>3. /\ \A i \in 1..Len(toSS) : toSS[i] \in Nat
          /\ \A i \in 1..Len(toNS) : toNS[i] \in Nat
        BY <1>r
    <3>4. \A x \in Nat : x <= asked => x < asked + 1
        BY <3>1
    <3>5. ASSUME NEW x, Precedes(x) PROVE Precedes(x)'
        BY <1>t, <2>0, <2>1, <3>1, <3>2, <3>4, <3>5 DEF Precedes
    <3>6. /\ \A i \in 1..Len(toSS') : toSS'[i] <= asked'
          /\ \A i \in 1..Len(toNS') : toNS'[i] <= asked'
        BY <1>t, <2>0, <2>1, <3>1, <3>2, <3>3 DEF ChannelInOrder
    <3>7. \A i, j \in 1..Len(toSS') : i < j => toSS'[i] < toSS'[j]
      <4> SUFFICES ASSUME NEW i \in 1..Len(toSS'), NEW j \in 1..Len(toSS'),
                          i < j
                   PROVE  toSS'[i] < toSS'[j]
          OBVIOUS
      <4>1. i \in 1..Len(toSS) /\ toSS'[i] = toSS[i]
          BY <1>q, <3>2
      <4>2. CASE j \in 1..Len(toSS) /\ toSS'[j] = toSS[j]
          BY <1>t, <4>1, <4>2 DEF ChannelInOrder
      <4>3. CASE toSS'[j] = asked + 1
          BY <1>t, <3>3, <3>4, <4>1, <4>3 DEF ChannelInOrder
      <4> QED
          BY <3>2, <4>2, <4>3
    <3>8. \A i \in 1..Len(toNS'), j \in 1..Len(toSS') : toNS'[i] < toSS'[j]
        BY <1>t, <2>0, <3>2, <3>3, <3>4 DEF ChannelInOrder
    <3>9. Precedes(NoMsg)
        BY <1>t DEF Precedes
    <3>10. ChannelInOrder'
        BY <1>t, <2>0, <2>1, <3>5, <3>6, <3>7, <3>8, <3>9 DEF ChannelInOrder
    <3> QED
        BY <1>t, <2>0, <2>1, <3>10 DEF OnceInv, SlotIsNew, DeliveredOnce
  <2>2. CASE /\ result' = [result EXCEPT ![h] = Failed]
             /\ UNCHANGED <<asked, toSS>>
    <3>1. \A x : Precedes(x) => Precedes(x)'
        BY <2>0, <2>2 DEF Precedes
    <3>2. Precedes(Failed) /\ Precedes(NoMsg)
        BY <1>t DEF Precedes
    <3>3. ChannelInOrder'
        BY <1>t, <2>0, <2>2, <3>1, <3>2 DEF ChannelInOrder, SlotTypes
    <3>4. SlotIsNew' /\ DeliveredOnce'
        BY <1>t, <2>0, <2>2 DEF SlotIsNew, DeliveredOnce, SlotTypes
    <3> QED
        BY <3>3, <3>4 DEF OnceInv
  <2> QED
      BY <1>3, <2>1, <2>2 DEF SendRequest, SendOrFail
<1>4. ASSUME NEW h \in Handlers, Take(h) PROVE OnceInv'
  <2>1. /\ UNCHANGED <<toSS, toNS, asked>>
        /\ response_raw' = NoMsg
        /\ result' = [result EXCEPT ![h] = Outcome]
      BY <1>4 DEF Take, server
  <2>2. Outcome = response_raw \/ Outcome = Failed
      BY DEF Outcome
  <2>3. \A x : Precedes(x) => Precedes(x)'
      BY <2>1 DEF Precedes
  <2>4. Precedes(Failed) /\ Precedes(NoMsg)
      BY <1>t DEF Precedes
  <2>5. ChannelInOrder'
      BY <1>t, <2>1, <2>2, <2>3, <2>4 DEF ChannelInOrder, SlotTypes
  <2>6. SlotIsNew'
      BY <1>t, <2>1 DEF SlotIsNew
  <2>7. DeliveredOnce'
      BY <1>t, <2>1, <2>2 DEF SlotIsNew, DeliveredOnce, SlotTypes
  <2> QED
      BY <2>5, <2>6, <2>7 DEF OnceInv
<1>5. ASSUME NEW h \in Handlers, storage_server_release(h) PROVE OnceInv'
  <2>1. UNCHANGED <<toSS, toNS, asked, response_raw, result>>
      BY <1>5 DEF storage_server_release, server, slot, handler, channel
  <2>2. \A x : Precedes(x) => Precedes(x)'
      BY <2>1 DEF Precedes
  <2> QED
      BY <1>t, <2>1, <2>2 DEF OnceInv, ChannelInOrder, SlotIsNew, DeliveredOnce
<1>6. ASSUME ReceiveMessage PROVE OnceInv'
  <2>m. PICK m : m = Head(toNS)
      OBVIOUS
  <2>1. /\ toNS # <<>> /\ toNS' = Tail(toNS) /\ m = toNS[1]
        /\ Len(toNS') = Len(toNS) - 1 /\ Len(toNS) >= 1
        /\ \A i \in 1..Len(toNS') : toNS'[i] = toNS[i + 1]
        /\ UNCHANGED <<toSS, asked, result>>
      BY <1>6, <1>t, <1>q, <2>m DEF ReceiveMessage, SlotTypes, handler
  <2>2. response_raw' = response_raw \/ response_raw' = m
      BY <1>6, <2>m DEF ReceiveMessage, slot
  <2>3. /\ Len(toNS') \in Nat
        /\ \A i \in 1..Len(toNS') : i + 1 \in 1..Len(toNS) /\ 1 < i + 1
        /\ 1 \in 1..Len(toNS)
      BY <1>q, <2>1
  <2>o. m \in ChannelMessages /\ \A i \in 1..Len(toNS) : toNS[i] \in ChannelMessages
      BY <1>t, <1>q, <2>1, <2>3 DEF SlotTypes
  <2>a. /\ \A i \in 1..Len(toNS') : toNS'[i] <= asked'
        /\ \A i \in 1..Len(toNS'), j \in 1..Len(toSS') : toNS'[i] < toSS'[j]
        /\ \A i, j \in 1..Len(toNS') :
              i < j /\ toNS'[j] # Push => toNS'[i] < toNS'[j]
      BY <1>t, <2>1, <2>3 DEF ChannelInOrder
  <2>b. Precedes(m)'
      BY <1>t, <2>1, <2>3 DEF ChannelInOrder, Precedes
  <2>c. \A x : Precedes(x) => Precedes(x)'
      BY <2>1, <2>3 DEF Precedes
  <2>d. ChannelInOrder'
      BY <1>t, <2>1, <2>2, <2>a, <2>b, <2>c DEF ChannelInOrder
  <2>e. m \in Responses => \A h \in Handlers : result[h] # m
    <3> SUFFICES ASSUME m \in Responses, NEW h \in Handlers, result[h] = m
                 PROVE  FALSE
        OBVIOUS
    <3>1. m # Push /\ m \in Nat
        BY <1>t
    <3>2. m < m
        BY <1>t, <2>1, <2>3, <3>1 DEF ChannelInOrder, Precedes
    <3> QED
        BY <3>1, <3>2
  <2>f. SlotIsNew' /\ DeliveredOnce'
      BY <1>t, <2>1, <2>2, <2>e DEF SlotIsNew, DeliveredOnce
  <2> QED
      BY <2>d, <2>f DEF OnceInv
<1>7. ASSUME UpdateStats PROVE OnceInv'
  <2>1. UNCHANGED <<toSS, toNS, asked, response_raw, result>>
      BY <1>7 DEF UpdateStats, server, slot, handler, channel
  <2>2. \A x : Precedes(x) => Precedes(x)'
      BY <2>1 DEF Precedes
  <2> QED
      BY <1>t, <2>1, <2>2 DEF OnceInv, ChannelInOrder, SlotIsNew, DeliveredOnce
<1>8. ASSUME storage_server_signal_failure PROVE OnceInv'
  <2>1. /\ UNCHANGED <<toSS, toNS, asked, result>>
        /\ response_raw' = response_raw \/ response_raw' = NoMsg
      BY <1>8 DEF storage_server_signal_failure, slot, handler, server
  <2>2. \A x : Precedes(x) => Precedes(x)'
      BY <2>1 DEF Precedes
  <2>3. Precedes(NoMsg)
      BY <1>t DEF Precedes
  <2> QED
      BY <1>t, <2>1, <2>2, <2>3 DEF OnceInv, ChannelInOrder, SlotIsNew, DeliveredOnce
<1>9. ASSUME Serve PROVE OnceInv'
  <2>m. PICK m : m = Head(toSS)
      OBVIOUS
  <2>1. /\ toSS # <<>> /\ toSS' = Tail(toSS) /\ m = toSS[1]
        /\ Len(toSS') = Len(toSS) - 1 /\ Len(toSS) >= 1
        /\ \A i \in 1..Len(toSS') : toSS'[i] = toSS[i + 1]
        /\ UNCHANGED <<asked, result, response_raw>>
      BY <1>9, <1>t, <1>q, <2>m DEF Serve, SlotTypes, handler, slot
  <2>2. m \in ChannelMessages /\ m \in Responses
      BY <1>t, <1>q, <2>1 DEF SlotTypes, ChannelMessages
  <2>3. /\ Len(toSS') \in Nat
        /\ \A i \in 1..Len(toSS') : i + 1 \in 1..Len(toSS) /\ 1 < i + 1
        /\ 1 \in 1..Len(toSS)
      BY <1>q, <2>1
  <2>4. /\ Len(toNS') = Len(toNS) + 1 /\ toNS'[Len(toNS) + 1] = m
        /\ \A i \in 1..Len(toNS) : toNS'[i] = toNS[i]
    <3>1. toNS' = Append(toNS, m)
        BY <1>9, <2>m DEF Serve
    <3> QED
        BY <1>t, <2>2, <3>1 DEF SlotTypes
  <2>5. \A i \in 1..Len(toNS') : i = Len(toNS) + 1 \/ i \in 1..Len(toNS)
      BY <1>q, <2>4
  <2>o. m \in Nat /\ \A i \in 1..Len(toNS) : toNS[i] \in Nat
      BY <1>t, <1>r, <2>2
  <2>p. \A i, j \in 1..Len(toNS') :
              i < j => i \in 1..Len(toNS)
      BY <1>q, <2>4
  <2>a. /\ \A i \in 1..Len(toSS') : toSS'[i] <= asked'
        /\ \A i, j \in 1..Len(toSS') : i < j => toSS'[i] < toSS'[j]
        /\ \A i \in 1..Len(toSS') : m < toSS'[i]
        /\ m <= asked'
      BY <1>t, <2>1, <2>3 DEF ChannelInOrder
  <2>b. \A i \in 1..Len(toNS') : toNS'[i] <= asked'
      BY <1>t, <2>1, <2>4, <2>5, <2>a DEF ChannelInOrder
  <2>g. \A i \in 1..Len(toNS) : toNS[i] < m
      BY <1>t, <2>1, <2>3 DEF ChannelInOrder
  <2>c. \A i \in 1..Len(toNS'), j \in 1..Len(toSS') : toNS'[i] < toSS'[j]
      BY <1>t, <2>1, <2>3, <2>4, <2>5, <2>a DEF ChannelInOrder
  <2>d. \A i, j \in 1..Len(toNS') :
              i < j /\ toNS'[j] # Push => toNS'[i] < toNS'[j]
      BY <1>t, <2>4, <2>5, <2>p, <2>g DEF ChannelInOrder
  <2>e. \A x : Precedes(x) => Precedes(x)'
    <3>1. ASSUME NEW x, Precedes(x), x \in Responses PROVE x < m
        BY <2>1, <2>3, <3>1 DEF Precedes
    <3> QED
        BY <2>1, <2>3, <2>4, <2>5, <3>1 DEF Precedes
  <2>f. ChannelInOrder'
      BY <1>t, <2>1, <2>a, <2>b, <2>c, <2>d, <2>e DEF ChannelInOrder
  <2> QED
      BY <1>t, <2>1, <2>f DEF OnceInv, SlotIsNew, DeliveredOnce
<1>10. ASSUME ss_sync_metadata_to_ns PROVE OnceInv'
  <2>1. UNCHANGED <<toSS, asked, result, response_raw>>
      BY <1>10 DEF ss_sync_metadata_to_ns, handler, slot
  <2>4. /\ Len(toNS') = Len(toNS) + 1 /\ toNS'[Len(toNS) + 1] = Push
        /\ \A i \in 1..Len(toNS) : toNS'[i] = toNS[i]
    <3>1. toNS' = Append(toNS, Push) /\ Push \in ChannelMessages
        BY <1>10 DEF ss_sync_metadata_to_ns, ChannelMessages
    <3> QED
        BY <1>t, <3>1 DEF SlotTypes
  <2>5. \A i \in 1..Len(toNS') : i = Len(toNS) + 1 \/ i \in 1..Len(toNS)
      BY <1>q, <2>4
  <2>p. \A i, j \in 1..Len(toNS') : i < j => i \in 1..Len(toNS)
      BY <1>q, <2>4
  <2>o. /\ Push <= asked /\ \A j \in 1..Len(toSS) : Push < toSS[j]
      BY <1>t DEF SlotTypes, Responses, Push
  <2>e. \A x : Precedes(x) => Precedes(x)'
      BY <2>1, <2>4, <2>5 DEF Precedes
  <2>a. /\ \A i \in 1..Len(toNS') : toNS'[i] <= asked'
        /\ \A i \in 1..Len(toNS'), j \in 1..Len(toSS') : toNS'[i] < toSS'[j]
        /\ \A i, j \in 1..Len(toNS') :
              i < j /\ toNS'[j] # Push => toNS'[i] < toNS'[j]
      BY <1>t, <2>1, <2>4, <2>5, <2>p, <2>o DEF ChannelInOrder
  <2>f. ChannelInOrder'
      BY <1>t, <2>1, <2>a, <2>e DEF ChannelInOrder
  <2> QED
      BY <1>t, <2>1, <2>f DEF OnceInv, SlotIsNew, DeliveredOnce
<1>11. ASSUME Fail PROVE OnceInv'
  <2>1. /\ UNCHANGED <<toNS, asked, response_raw, result>>
        /\ Len(toSS') = 0
      BY <1>11 DEF Fail, slot, handler
  <2>2. \A x : Precedes(x) => Precedes(x)'
      BY <2>1 DEF Precedes
  <2> QED
      BY <1>t, <2>1, <2>2 DEF OnceInv, ChannelInOrder, SlotIsNew, DeliveredOnce
<1>12. ASSUME Finished \/ Hang PROVE OnceInv'
  <2>1. UNCHANGED <<toSS, toNS, asked, response_raw, result>>
      BY <1>12 DEF Finished, Hang, server, slot, handler, channel
  <2>2. \A x : Precedes(x) => Precedes(x)'
      BY <2>1 DEF Precedes
  <2> QED
      BY <1>t, <2>1, <2>2 DEF OnceInv, ChannelInOrder, SlotIsNew, DeliveredOnce
<1>u. CASE UNCHANGED channel
  <2>1. UNCHANGED <<toSS, toNS, asked, response_raw, result>>
      BY <1>u DEF server, slot, handler, channel
  <2>2. \A x : Precedes(x) => Precedes(x)'
      BY <2>1 DEF Precedes
  <2> QED
      BY <1>t, <2>1, <2>2 DEF OnceInv, ChannelInOrder, SlotIsNew, DeliveredOnce
<1> QED
    BY <1>u, <1>1, <1>2, <1>3, <1>4, <1>5, <1>6, <1>7, <1>8, <1>9, <1>10,
        <1>11, <1>12 DEF ChannelNext, HandlerStep, ReaderStep

-----------------------------------------------------------------------------

ChannelInv == SlotTypes /\ AwaitingHasWaiter /\ OnceInv

LEMMA ChannelInvariant == ChannelSpec => []ChannelInv
<1>1. ChannelInit => ChannelInv
  <2> SUFFICES ASSUME ChannelInit PROVE ChannelInv
      OBVIOUS
  <2>1. SlotTypes
    <3>1. 0 \in 0..MaxRequests
        BY ChannelAssumption
    <3>2. toSS \in Seq(Responses) /\ toNS \in Seq(ChannelMessages)
        BY DEF ChannelInit
    <3>3. result \in [Handlers -> ChannelMessages \cup {NoMsg, Failed}]
        BY DEF ChannelInit
    <3>4. pc \in [Handlers -> {"idle", "check", "turn", "wait", "return"}]
        BY DEF ChannelInit
    <3> QED
        BY <3>1, <3>2, <3>3, <3>4 DEF ChannelInit, SlotTypes
  <2>2. AwaitingHasWaiter
      BY DEF ChannelInit, AwaitingHasWaiter
  <2>3. NoMsg \notin Responses /\ Len(toSS) = 0 /\ Len(toNS) = 0
      BY ChannelAssumption DEF ChannelInit, NoMsg, Responses
  <2>4. ChannelInOrder
      BY <2>3 DEF ChannelInit, ChannelInOrder, Precedes
  <2>5. SlotIsNew /\ DeliveredOnce
      BY <2>3 DEF ChannelInit, SlotIsNew, DeliveredOnce
  <2> QED
      BY <2>1, <2>2, <2>4, <2>5 DEF ChannelInv, OnceInv
<1>2. ChannelInv /\ [ChannelNext]_channel => ChannelInv'
    BY SlotTypesStep, AwaitingStep, OnceStep DEF ChannelInv
<1> QED
    BY <1>1, <1>2, PTL DEF ChannelSpec

\* The slot is never left reserved by nobody: while awaiting_response is set,
\* some handler is inside storage_server_send_and_wait, whatever the number of
\* handlers and however the storage server fails.
THEOREM AwaitingIsWaiting == ChannelSpec => []AwaitingHasWaiter
<1>1. ChannelInv => AwaitingHasWaiter
    BY DEF ChannelInv
<1> QED
    BY <1>1, ChannelInvariant, PTL

\* An answer of the storage server reaches at most one handler, whichever
\* waiter is woken first and whatever else the storage server sends.
THEOREM OnceDelivered == ChannelSpec => []DeliveredOnce
<1>1. ChannelInv => DeliveredOnce
    BY DEF ChannelInv, OnceInv
<1> QED
    BY <1>1, ChannelInvariant, PTL

-----------------------------------------------------------------------------
(* What the channel keeps while the storage server sends nothing but answers *)

LEMMA NonEmptySeq ==
    ASSUME NEW S, NEW s \in Seq(S), s # <<>>
    PROVE  /\ Len(s) \in Nat /\ Len(s) >= 1
           /\ Head(s) = s[1] /\ s[1] \in S
           /\ Tail(s) \in Seq(S) /\ Len(Tail(s)) = Len(s) - 1
           /\ \A i \in 1..Len(Tail(s)) : Tail(s)[i] = s[i + 1]
    OBVIOUS

\* The reader thread has ended exactly when the entry is not alive, and then the
\* storage server is gone; request numbers are those of requests sent.
ReaderAlive ==
    /\ is_alive \in BOOLEAN /\ ssUp \in BOOLEAN /\ pushed \in Nat
    /\ request \in [Handlers -> 0..MaxRequests]
    /\ is_alive <=> reader # "ended"
    /\ is_alive \/ ~ssUp
    /\ \A h \in Handlers : request[h] <= asked

\* What is in the connection or in the slot is the answer to the last request,
\* and as long as the entry is alive somebody awaits what is in the connection.
NewestOnly ==
    pushed = 0 =>
        /\ Len(toSS) + Len(toNS) <= 1
        /\ Len(toSS) + Len(toNS) = 1 => awaiting_response \/ ~is_alive
        /\ \A i \in 1..Len(toSS) : toSS[i] = asked
        /\ \A i \in 1..Len(toNS) : toNS[i] = asked /\ toNS[i] \in Responses
        /\ response_raw \in Responses => response_raw = asked

\* Handlers inside a command are those that hold a reference to the entry.
Active == {h \in Handlers : pc[h] # "idle"}
RefsCounted == IsFiniteSet(Active) /\ refcount = Cardinality(Active)

\* The last sender waits until the answer to its request is taken.
SenderWaits ==
    pushed = 0 /\ is_alive =>
        /\ response_ready <=> response_raw # NoMsg
        /\ response_raw # NoMsg => response_raw \in Responses /\ response_status = 0
        /\ awaiting_response \/ response_ready =>
              \E k \in Handlers : pc[k] = "wait" /\ request[k] = asked

\* A handler that waits for an answer that others have taken or discarded.
Orphan(g) ==
    /\ pc[g] = "wait"
    /\ request[g] < asked \/ (~awaiting_response /\ response_raw = NoMsg)

\* Whoever returns with the answer to another request leaves somebody behind.
SwapLeavesOrphan ==
    pushed = 0 /\ is_alive =>
        \A h \in Handlers :
            pc[h] = "return" /\ result[h] # Failed /\ result[h] # request[h] =>
                \E g \in Handlers : Orphan(g)


LEMMA ReaderAliveStep == SlotTypes /\ ReaderAlive /\ [ChannelNext]_channel => ReaderAlive'
<1> SUFFICES ASSUME SlotTypes, ReaderAlive, [ChannelNext]_channel PROVE ReaderAlive'
    OBVIOUS
<1>t. SlotTypes /\ ReaderAlive /\ MaxRequests \in Nat /\ asked \in Nat
    BY ChannelAssumption DEF SlotTypes
<1>1. ASSUME NEW h \in Handlers, storage_server_acquire(h) PROVE ReaderAlive'
    BY <1>1, <1>t DEF storage_server_acquire, ReaderAlive, server
<1>2. ASSUME NEW h \in Handlers, CheckAlive(h) PROVE ReaderAlive'
    BY <1>2, <1>t DEF CheckAlive, ReaderAlive, server
<1>3. ASSUME NEW h \in Handlers, SendRequest(h) PROVE ReaderAlive'
  <2>1. CASE asked' = asked + 1 /\ request' = [request EXCEPT ![h] = asked + 1]
               /\ asked < MaxRequests
    <3>1. /\ request' \in [Handlers -> 0..MaxRequests]
          /\ \A g \in Handlers : request'[g] <= asked'
        BY <1>t, <2>1 DEF ReaderAlive
    <3> QED
        BY <1>3, <1>t, <3>1 DEF SendRequest, SendOrFail, ReaderAlive
  <2>2. CASE UNCHANGED <<asked, request>>
      BY <1>3, <1>t, <2>2 DEF SendRequest, SendOrFail, ReaderAlive
  <2> QED
      BY <1>3, <2>1, <2>2 DEF SendRequest, SendOrFail
<1>4. ASSUME NEW h \in Handlers, Take(h) PROVE ReaderAlive'
    BY <1>4, <1>t DEF Take, ReaderAlive, server
<1>5. ASSUME NEW h \in Handlers, storage_server_release(h) PROVE ReaderAlive'
    BY <1>5, <1>t DEF storage_server_release, ReaderAlive, server
<1>6. ASSUME ReceiveMessage PROVE ReaderAlive'
    BY <1>6, <1>t DEF ReceiveMessage, ReaderAlive, slot, handler
<1>7. ASSUME UpdateStats PROVE ReaderAlive'
    BY <1>7, <1>t DEF UpdateStats, ReaderAlive, handler, server
<1>8. ASSUME storage_server_signal_failure PROVE ReaderAlive'
    BY <1>8, <1>t DEF storage_server_signal_failure, ReaderAlive, handler, server
<1>9. ASSUME Serve PROVE ReaderAlive'
    BY <1>9, <1>t DEF Serve, ReaderAlive, handler
<1>10. ASSUME ss_sync_metadata_to_ns PROVE ReaderAlive'
    BY <1>10, <1>t DEF ss_sync_metadata_to_ns, ReaderAlive, handler
<1>11. ASSUME Fail PROVE ReaderAlive'
    BY <1>11, <1>t DEF Fail, ReaderAlive, handler
<1>12. ASSUME Finished \/ Hang \/ UNCHANGED channel PROVE ReaderAlive'
    BY <1>12, <1>t DEF Finished, Hang, channel, ReaderAlive, handler, server
<1> QED
    BY <1>1, <1>2, <1>3, <1>4, <1>5, <1>6, <1>7, <1>8, <1>9, <1>10, <1>11, <1>12
        DEF ChannelNext, HandlerStep, ReaderStep

\* Pushed messages are counted and never taken back.
LEMMA PushesGrow == ReaderAlive /\ [ChannelNext]_channel /\ pushed' = 0 => pushed = 0
<1> SUFFICES ASSUME ReaderAlive, [ChannelNext]_channel, pushed' = 0 PROVE pushed = 0
    OBVIOUS
<1> QED
    BY DEF ReaderAlive, ChannelNext, HandlerStep, ReaderStep, storage_server_acquire,
        CheckAlive, SendRequest, SendOrFail, Take, storage_server_release, ReceiveMessage,
        UpdateStats, storage_server_signal_failure, Serve,
        ss_sync_metadata_to_ns, Fail, Hang, Finished, channel, server

LEMMA NewestOnlyStep ==
    SlotTypes /\ AwaitingHasWaiter /\ ReaderAlive /\ NewestOnly /\ [ChannelNext]_channel
        => NewestOnly'
<1> SUFFICES ASSUME SlotTypes, AwaitingHasWaiter, ReaderAlive, NewestOnly, [ChannelNext]_channel,
                    pushed' = 0
             PROVE  NewestOnly'
    BY DEF NewestOnly
<1>t. /\ SlotTypes /\ ReaderAlive /\ MaxRequests \in Nat /\ asked \in Nat
      /\ Len(toSS) \in Nat /\ Len(toNS) \in Nat /\ NoMsg \notin Responses
    BY ChannelAssumption DEF SlotTypes, NoMsg, Responses
<1>p. /\ Len(toSS) + Len(toNS) <= 1
      /\ Len(toSS) + Len(toNS) = 1 => awaiting_response \/ ~is_alive
      /\ \A i \in 1..Len(toSS) : toSS[i] = asked
      /\ \A i \in 1..Len(toNS) : toNS[i] = asked /\ toNS[i] \in Responses
      /\ response_raw \in Responses => response_raw = asked
    BY PushesGrow DEF NewestOnly
<1>1. ASSUME NEW h \in Handlers,
             storage_server_acquire(h) \/ CheckAlive(h) \/ storage_server_release(h)
      PROVE  NewestOnly'
    BY <1>1, <1>p DEF storage_server_acquire, CheckAlive, storage_server_release,
        NewestOnly, slot, server
<1>2. ASSUME NEW h \in Handlers, SendRequest(h) PROVE NewestOnly'
  <2>1. response_raw' = NoMsg /\ UNCHANGED <<toNS, is_alive>> /\ ~awaiting_response
      BY <1>2 DEF SendRequest, EmptySlot, SendOrFail
  <2>2. CASE /\ is_alive /\ awaiting_response' = TRUE /\ asked' = asked + 1
             /\ toSS' = (IF ssUp THEN Append(toSS, asked + 1) ELSE toSS)
             /\ asked < MaxRequests
    <3>1. Len(toSS) = 0 /\ Len(toNS) = 0
        BY <1>t, <1>p, <2>1, <2>2
    <3>2. asked + 1 \in Responses
        BY <1>t, <2>2 DEF Responses
    <3>3. /\ Len(toSS') <= 1 /\ Len(toSS') \in Nat
          /\ \A i \in 1..Len(toSS') : toSS'[i] = asked + 1
        BY <1>t, <2>2, <3>1, <3>2 DEF SlotTypes
    <3> QED
        BY <1>t, <2>1, <2>2, <3>1, <3>3 DEF NewestOnly
  <2>3. CASE UNCHANGED <<awaiting_response, asked, toSS>>
      BY <1>t, <1>p, <2>1, <2>3 DEF NewestOnly
  <2> QED
      BY <1>2, <2>2, <2>3 DEF SendRequest, SendOrFail
<1>3. ASSUME NEW h \in Handlers, Take(h) PROVE NewestOnly'
  <2>1. /\ response_raw' = NoMsg /\ UNCHANGED <<toSS, toNS, asked, is_alive>>
        /\ ~awaiting_response
      BY <1>3 DEF Take, server, AwaitingHasWaiter
  <2> QED
      BY <1>3, <1>t, <1>p, <2>1 DEF NewestOnly
<1>4. ASSUME ReceiveMessage PROVE NewestOnly'
  <2>1. /\ toNS # <<>> /\ toNS' = Tail(toNS)
        /\ UNCHANGED <<toSS, asked, is_alive>>
      BY <1>4 DEF ReceiveMessage
  <2>2. Len(toNS) = 1 /\ Len(toSS) = 0 /\ Head(toNS) = toNS[1] /\ Len(toNS') = 0
    <3>1. /\ Len(toNS) >= 1 /\ Head(toNS) = toNS[1] /\ Len(toNS') = Len(toNS) - 1
        BY <2>1, NonEmptySeq DEF SlotTypes
    <3> QED
        BY <1>t, <1>p, <3>1
  <2>3. awaiting_response' = awaiting_response \/ awaiting_response' = FALSE
      BY <1>4 DEF ReceiveMessage, slot
  <2>4. response_raw' = response_raw \/ response_raw' = toNS[1]
      BY <1>4, <2>2 DEF ReceiveMessage, slot
  <2>5. /\ toNS[1] = asked /\ UNCHANGED <<toSS, asked>>
        /\ Len(toSS') = 0 /\ Len(toNS') = 0
      BY <1>p, <2>1, <2>2
  <2>6. response_raw' \in Responses => response_raw' = asked'
      BY <1>p, <2>4, <2>5
  <2> QED
      BY <2>5, <2>6 DEF NewestOnly
<1>5. ASSUME UpdateStats \/ storage_server_signal_failure PROVE NewestOnly'
    BY <1>5, <1>t, <1>p DEF UpdateStats, storage_server_signal_failure,
        NewestOnly, slot, server
<1>6. ASSUME Serve PROVE NewestOnly'
  <2>1. /\ toSS # <<>> /\ toSS' = Tail(toSS) /\ toNS' = Append(toNS, Head(toSS))
        /\ UNCHANGED <<asked, is_alive, response_raw, awaiting_response>>
      BY <1>6 DEF Serve, slot
  <2>2. Len(toSS) = 1 /\ Len(toNS) = 0 /\ Head(toSS) = toSS[1] /\ toSS[1] \in Responses
        /\ Len(toSS') = 0
    <3>1. /\ Len(toSS) >= 1 /\ Head(toSS) = toSS[1] /\ Len(toSS') = Len(toSS) - 1
          /\ toSS[1] \in Responses
        BY <2>1, NonEmptySeq DEF SlotTypes
    <3> QED
        BY <1>t, <1>p, <3>1
  <2>3. Len(toNS') = 1 /\ toNS'[1] = toSS[1]
    <3>1. toSS[1] \in ChannelMessages
        BY <2>2 DEF ChannelMessages
    <3> QED
        BY <1>t, <2>1, <2>2, <3>1 DEF SlotTypes
  <2> QED
      BY <1>t, <1>p, <2>1, <2>2, <2>3 DEF NewestOnly
<1>7. ASSUME ss_sync_metadata_to_ns PROVE NewestOnly'
    BY <1>7 DEF ss_sync_metadata_to_ns, ReaderAlive
<1>8. ASSUME Fail PROVE NewestOnly'
    BY <1>8, <1>t, <1>p DEF Fail, NewestOnly, slot
<1>9. ASSUME Finished \/ Hang \/ UNCHANGED channel PROVE NewestOnly'
    BY <1>9, <1>p DEF Finished, Hang, channel, NewestOnly, slot, server
<1> QED
    BY <1>1, <1>2, <1>3, <1>4, <1>5, <1>6, <1>7, <1>8, <1>9 DEF ChannelNext, HandlerStep,
        ReaderStep

LEMMA NeverStaleStep ==
    SlotTypes /\ ReaderAlive /\ NewestOnly /\ NeverStale /\ [ChannelNext]_channel => NeverStale'
<1> SUFFICES ASSUME SlotTypes, ReaderAlive, NewestOnly, NeverStale, [ChannelNext]_channel,
                    pushed' = 0
             PROVE  NeverStale'
    BY DEF NeverStale
<1>t. /\ SlotTypes /\ ReaderAlive /\ asked \in Nat
      /\ NoMsg \notin Responses /\ Failed \notin Responses
    BY ChannelAssumption DEF SlotTypes, NoMsg, Failed, Responses
<1>p. /\ \A h \in Handlers :
            pc[h] = "return" /\ result[h] \in Responses => result[h] >= request[h]
      /\ response_raw \in Responses => response_raw = asked
    BY PushesGrow DEF NeverStale, NewestOnly
<1>1. ASSUME NEW h \in Handlers, storage_server_acquire(h) PROVE NeverStale'
    BY <1>1, <1>t, <1>p DEF storage_server_acquire, NeverStale, SlotTypes
<1>2. ASSUME NEW h \in Handlers, CheckAlive(h) PROVE NeverStale'
    BY <1>2, <1>t, <1>p DEF CheckAlive, NeverStale, SlotTypes
<1>3. ASSUME NEW h \in Handlers, SendRequest(h) PROVE NeverStale'
    BY <1>3, <1>t, <1>p DEF SendRequest, SendOrFail, NeverStale, SlotTypes, ReaderAlive
<1>4. ASSUME NEW h \in Handlers, Take(h) PROVE NeverStale'
  <2>1. /\ result' = [result EXCEPT ![h] = Outcome] /\ pc' = [pc EXCEPT ![h] = "return"]
        /\ UNCHANGED request
      BY <1>4 DEF Take
  <2>2. Outcome \in Responses => Outcome >= request[h]
      BY <1>t, <1>p DEF Outcome, ReaderAlive
  <2> QED
      BY <1>t, <1>p, <2>1, <2>2 DEF NeverStale, SlotTypes
<1>5. ASSUME NEW h \in Handlers, storage_server_release(h) PROVE NeverStale'
    BY <1>5, <1>t, <1>p DEF storage_server_release, NeverStale, SlotTypes
<1>6. ASSUME UNCHANGED handler PROVE NeverStale'
    BY <1>6, <1>p DEF handler, NeverStale
<1> QED
    BY <1>1, <1>2, <1>3, <1>4, <1>5, <1>6 DEF ChannelNext, HandlerStep, ReaderStep, ReceiveMessage,
        UpdateStats, storage_server_signal_failure, Serve, ss_sync_metadata_to_ns,
        Fail, Hang, Finished, channel

LEMMA RefsCountedStep == SlotTypes /\ RefsCounted /\ [ChannelNext]_channel => RefsCounted'
<1> SUFFICES ASSUME SlotTypes, RefsCounted, [ChannelNext]_channel PROVE RefsCounted'
    OBVIOUS
<1>t. SlotTypes /\ IsFiniteSet(Active) /\ refcount = Cardinality(Active)
    BY DEF RefsCounted
<1>n. Cardinality(Active) \in Nat
    BY <1>t, FS_CardinalityType
<1>1. ASSUME NEW h \in Handlers, storage_server_acquire(h) PROVE RefsCounted'
  <2>1. Active' = Active \cup {h} /\ h \notin Active /\ refcount' = refcount + 1
      BY <1>1, <1>t DEF storage_server_acquire, Active, SlotTypes
  <2> QED
      BY <1>t, <2>1, FS_AddElement DEF RefsCounted
<1>2. ASSUME NEW h \in Handlers, storage_server_release(h) PROVE RefsCounted'
  <2>1. Active' = Active \ {h} /\ h \in Active /\ refcount' = refcount - 1
      BY <1>2, <1>t DEF storage_server_release, Active, SlotTypes
  <2> QED
      BY <1>t, <2>1, FS_RemoveElement DEF RefsCounted
<1>3. ASSUME NEW h \in Handlers, CheckAlive(h) \/ SendRequest(h) \/ Take(h) PROVE RefsCounted'
  <2>1. Active' = Active /\ UNCHANGED refcount
      BY <1>3, <1>t DEF CheckAlive, SendRequest, SendOrFail, Take, Active, SlotTypes
  <2> QED
      BY <1>t, <2>1 DEF RefsCounted
<1>4. ASSUME UNCHANGED <<pc, refcount>> PROVE RefsCounted'
  <2>1. Active' = Active
      BY <1>4 DEF Active
  <2> QED
      BY <1>t, <1>4, <2>1 DEF RefsCounted
<1> QED
    BY <1>1, <1>2, <1>3, <1>4 DEF ChannelNext, HandlerStep, ReaderStep, ReceiveMessage,
        UpdateStats, storage_server_signal_failure, Serve, ss_sync_metadata_to_ns,
        Fail, Hang, Finished, channel, handler

LEMMA SenderWaitsStep ==
    SlotTypes /\ ReaderAlive /\ NewestOnly /\ SenderWaits /\ AwaitingHasWaiter
        /\ [ChannelNext]_channel => SenderWaits'
<1> SUFFICES ASSUME SlotTypes, ReaderAlive, NewestOnly, SenderWaits, AwaitingHasWaiter,
                    [ChannelNext]_channel, pushed' = 0, is_alive'
             PROVE  SenderWaits'
    BY DEF SenderWaits
<1>a. is_alive
    BY DEF ReaderAlive, ChannelNext, HandlerStep, ReaderStep, storage_server_acquire,
        CheckAlive, SendRequest, SendOrFail, Take, storage_server_release, ReceiveMessage,
        UpdateStats, storage_server_signal_failure, Serve,
        ss_sync_metadata_to_ns, Fail, Hang, Finished, channel
<1>t. /\ SlotTypes /\ ReaderAlive /\ asked \in Nat /\ NoMsg \notin Responses
      /\ awaiting_response => ~response_ready
    BY ChannelAssumption DEF SlotTypes, NoMsg, Responses, AwaitingHasWaiter
<1>p. /\ response_ready <=> response_raw # NoMsg
      /\ response_raw # NoMsg => response_raw \in Responses /\ response_status = 0
      /\ awaiting_response \/ response_ready =>
            \E k \in Handlers : pc[k] = "wait" /\ request[k] = asked
      /\ \A i \in 1..Len(toNS) : toNS[i] \in Responses
    BY <1>a, PushesGrow DEF SenderWaits, NewestOnly
<1>1. ASSUME NEW h \in Handlers,
             storage_server_acquire(h) \/ CheckAlive(h) \/ storage_server_release(h)
      PROVE  SenderWaits'
  <2>1. /\ UNCHANGED <<slot, request, asked>> /\ pc[h] # "wait"
        /\ \A k \in Handlers : k # h => pc'[k] = pc[k]
      BY <1>1, <1>t DEF storage_server_acquire, CheckAlive, storage_server_release,
          SlotTypes, server
  <2> QED
      BY <1>p, <2>1 DEF SenderWaits, slot
<1>2. ASSUME NEW h \in Handlers, SendRequest(h) PROVE SenderWaits'
  <2>1. response_raw' = NoMsg /\ response_ready' = FALSE /\ pc[h] = "turn"
        /\ ~awaiting_response
      BY <1>2 DEF SendRequest, EmptySlot
  <2>2. CASE pc' = [pc EXCEPT ![h] = "wait"] /\ request' = [request EXCEPT ![h] = asked + 1]
             /\ asked' = asked + 1
    <3>1. pc'[h] = "wait" /\ request'[h] = asked'
        BY <1>t, <2>2 DEF SlotTypes, ReaderAlive
    <3> QED
        BY <2>1, <3>1 DEF SenderWaits
  <2>3. CASE UNCHANGED awaiting_response
      BY <2>1, <2>3 DEF SenderWaits
  <2> QED
      BY <1>2, <2>2, <2>3 DEF SendRequest, SendOrFail
<1>3. ASSUME NEW h \in Handlers, Take(h) PROVE SenderWaits'
    BY <1>3 DEF Take, SenderWaits
<1>4. ASSUME ReceiveMessage PROVE SenderWaits'
  <2>1. Head(toNS) \in Responses
    <3>1. toNS # <<>> /\ toNS \in Seq(ChannelMessages)
        BY <1>4, <1>t DEF ReceiveMessage, SlotTypes
    <3>2. Len(toNS) \in Nat /\ Len(toNS) >= 1 /\ Head(toNS) = toNS[1]
        BY <3>1, NonEmptySeq
    <3> QED
        BY <1>p, <3>2
  <2>2. UNCHANGED <<pc, request, asked>>
      BY <1>4 DEF ReceiveMessage, handler
  <2>3. CASE /\ awaiting_response /\ response_raw' = Head(toNS) /\ response_status' = 0
             /\ response_ready' = TRUE
      BY <1>t, <1>p, <2>1, <2>2, <2>3 DEF SenderWaits
  <2>4. CASE UNCHANGED slot
      BY <1>p, <2>2, <2>4 DEF SenderWaits, slot
  <2> QED
      BY <1>4, <2>3, <2>4 DEF ReceiveMessage
<1>5. ASSUME storage_server_signal_failure PROVE SenderWaits'
    BY <1>5 DEF storage_server_signal_failure
<1>6. ASSUME UNCHANGED <<slot, pc, request, asked>> PROVE SenderWaits'
    BY <1>6, <1>p DEF slot, SenderWaits
<1> QED
    BY <1>1, <1>2, <1>3, <1>4, <1>5, <1>6 DEF ChannelNext, HandlerStep, ReaderStep,
        UpdateStats, Serve, ss_sync_metadata_to_ns, Fail, Hang, Finished, channel, handler, server

LEMMA SwapLeavesOrphanStep ==
    SlotTypes /\ ReaderAlive /\ NewestOnly /\ SenderWaits /\ SwapLeavesOrphan
        /\ AwaitingHasWaiter /\ [ChannelNext]_channel => SwapLeavesOrphan'
<1> SUFFICES ASSUME SlotTypes, ReaderAlive, NewestOnly, SenderWaits, SwapLeavesOrphan,
                    AwaitingHasWaiter, [ChannelNext]_channel, pushed' = 0, is_alive'
             PROVE  SwapLeavesOrphan'
    BY DEF SwapLeavesOrphan
<1>a. is_alive
    BY DEF ReaderAlive, ChannelNext, HandlerStep, ReaderStep, storage_server_acquire,
        CheckAlive, SendRequest, SendOrFail, Take, storage_server_release, ReceiveMessage,
        UpdateStats, storage_server_signal_failure, Serve,
        ss_sync_metadata_to_ns, Fail, Hang, Finished, channel
<1>t. /\ SlotTypes /\ asked \in Nat /\ NoMsg \notin Responses
      /\ \A h \in Handlers : request[h] \in Nat /\ request[h] <= asked
      /\ request \in [Handlers -> 0..MaxRequests]
      /\ awaiting_response => ~response_ready
    BY ChannelAssumption DEF SlotTypes, NoMsg, Responses, AwaitingHasWaiter, ReaderAlive
<1>p. /\ response_ready <=> response_raw # NoMsg
      /\ response_raw # NoMsg => response_raw = asked /\ response_status = 0
      /\ awaiting_response \/ response_ready =>
            \E k \in Handlers : pc[k] = "wait" /\ request[k] = asked
    BY <1>a, PushesGrow DEF SenderWaits, NewestOnly
<1>s. \A h \in Handlers :
          pc[h] = "return" /\ result[h] # Failed /\ result[h] # request[h] =>
              \E g \in Handlers : Orphan(g)
    BY <1>a, PushesGrow DEF SwapLeavesOrphan
<1>1. ASSUME NEW h \in Handlers,
             storage_server_acquire(h) \/ CheckAlive(h) \/ storage_server_release(h)
      PROVE  SwapLeavesOrphan'
  <2>1. /\ UNCHANGED <<slot, request, asked>> /\ pc[h] # "wait"
        /\ \A k \in Handlers : k # h => pc'[k] = pc[k] /\ result'[k] = result[k]
        /\ pc'[h] # "return" \/ result'[h] = Failed
      BY <1>1, <1>t DEF storage_server_acquire, CheckAlive, storage_server_release,
          SlotTypes, server
  <2>2. \A g \in Handlers : Orphan(g) => Orphan(g)'
      BY <2>1 DEF Orphan, slot
  <2> QED
      BY <1>s, <2>1, <2>2 DEF SwapLeavesOrphan
<1>2. ASSUME NEW h \in Handlers, SendRequest(h) PROVE SwapLeavesOrphan'
  <2>1. /\ response_raw' = NoMsg /\ pc[h] = "turn"
        /\ \A k \in Handlers : k # h => /\ pc'[k] = pc[k] /\ result'[k] = result[k]
                                        /\ request'[k] = request[k]
        /\ pc'[h] # "return" \/ result'[h] = Failed
        /\ \/ asked' = asked + 1
           \/ asked' = asked /\ awaiting_response' = awaiting_response
        /\ ~awaiting_response
      BY <1>2, <1>t DEF SendRequest, SendOrFail, EmptySlot, SlotTypes
  <2>2. ASSUME NEW g \in Handlers, Orphan(g) PROVE Orphan(g)'
      BY <1>t, <2>1, <2>2 DEF Orphan
  <2> QED
      BY <1>s, <2>1, <2>2 DEF SwapLeavesOrphan
<1>3. ASSUME NEW h \in Handlers, Take(h) PROVE SwapLeavesOrphan'
  <2>1. /\ pc[h] = "wait" /\ response_ready
        /\ result' = [result EXCEPT ![h] = Outcome] /\ pc' = [pc EXCEPT ![h] = "return"]
        /\ response_raw' = NoMsg /\ awaiting_response' = FALSE
        /\ UNCHANGED <<request, asked>>
      BY <1>3 DEF Take, server
  <2>2. response_raw = asked /\ Outcome = asked /\ asked # NoMsg /\ ~awaiting_response
      BY <1>t, <1>p, <2>1 DEF Outcome
  <2>3. CASE request[h] = asked
    <3>1. ASSUME NEW g \in Handlers, Orphan(g) PROVE g # h /\ Orphan(g)'
        BY <1>t, <2>1, <2>2, <2>3, <3>1 DEF Orphan, SlotTypes
    <3>2. result'[h] = request'[h]
        BY <1>t, <2>1, <2>2, <2>3 DEF SlotTypes
    <3>3. \A k \in Handlers : k # h => pc'[k] = pc[k] /\ result'[k] = result[k]
        BY <1>t, <2>1 DEF SlotTypes
    <3> QED
        BY <1>s, <2>1, <3>1, <3>2, <3>3 DEF SwapLeavesOrphan
  <2>4. CASE request[h] # asked
    <3>1. PICK k \in Handlers : pc[k] = "wait" /\ request[k] = asked
        BY <1>p, <2>1
    <3>2. Orphan(k)'
        BY <1>t, <2>1, <2>4, <3>1 DEF Orphan, SlotTypes
    <3> QED
        BY <3>2 DEF SwapLeavesOrphan
  <2> QED
      BY <2>3, <2>4
<1>4. ASSUME ReceiveMessage PROVE SwapLeavesOrphan'
  <2>1. /\ UNCHANGED <<pc, request, result, asked>>
        /\ awaiting_response \/ UNCHANGED <<awaiting_response, response_raw>>
      BY <1>4 DEF ReceiveMessage, handler, slot
  <2>2. ASSUME NEW g \in Handlers, Orphan(g) PROVE Orphan(g)'
      BY <2>1, <2>2 DEF Orphan
  <2> QED
      BY <1>s, <2>1, <2>2 DEF SwapLeavesOrphan
<1>5. ASSUME storage_server_signal_failure PROVE SwapLeavesOrphan'
    BY <1>5 DEF storage_server_signal_failure
<1>6. ASSUME UNCHANGED <<slot, handler, asked>> PROVE SwapLeavesOrphan'
  <2>1. UNCHANGED <<pc, request, result, asked, awaiting_response, response_raw>>
      BY <1>6 DEF handler, slot
  <2>2. \A g \in Handlers : Orphan(g) => Orphan(g)'
      BY <2>1 DEF Orphan
  <2> QED
      BY <1>s, <2>1, <2>2 DEF SwapLeavesOrphan
<1> QED
    BY <1>1, <1>2, <1>3, <1>4, <1>5, <1>6 DEF ChannelNext, HandlerStep, ReaderStep,
        UpdateStats, Serve, ss_sync_metadata_to_ns, Fail, Hang, Finished, channel, server

-----------------------------------------------------------------------------

AnswersInv ==
    /\ ReaderAlive /\ NewestOnly /\ NeverStale
    /\ RefsCounted /\ SenderWaits /\ SwapLeavesOrphan

LEMMA AnswersInvariant == ChannelSpec => []AnswersInv
<1>1. ChannelInit => AnswersInv
  <2> SUFFICES ASSUME ChannelInit PROVE AnswersInv
      OBVIOUS
  <2>1. /\ Len(toSS) = 0 /\ Len(toNS) = 0 /\ NoMsg \notin Responses
        /\ request \in [Handlers -> 0..MaxRequests]
      BY ChannelAssumption DEF ChannelInit, NoMsg, Responses
  <2>2. ReaderAlive /\ NewestOnly
      BY <2>1 DEF ChannelInit, ReaderAlive, NewestOnly
  <2>3. NeverStale /\ SenderWaits /\ SwapLeavesOrphan
      BY DEF ChannelInit, NeverStale, SenderWaits, SwapLeavesOrphan
  <2>4. RefsCounted
    <3>1. Active = {} /\ refcount = 0
        BY DEF ChannelInit, Active
    <3> QED
        BY <3>1, FS_EmptySet DEF RefsCounted
  <2> QED
      BY <2>2, <2>3, <2>4 DEF AnswersInv
<1>2. ChannelInv /\ AnswersInv /\ [ChannelNext]_channel => AnswersInv'
    BY ReaderAliveStep, NewestOnlyStep, NeverStaleStep, RefsCountedStep,
        SenderWaitsStep, SwapLeavesOrphanStep DEF ChannelInv, AnswersInv
<1> QED
    BY <1>1, <1>2, ChannelInvariant, PTL DEF ChannelSpec

\* As long as the storage server sends only answers, at most one request is under
\* way: storage_server_send_and_wait admits no second one before the answer to the
\* first is in the slot, however many handlers wait for their turn.
THEOREM SingleRequest == ChannelSpec => []OneInFlight
<1>1. AnswersInv => OneInFlight
    BY DEF AnswersInv, NewestOnly, OneInFlight
<1> QED
    BY <1>1, AnswersInvariant, PTL

\* ... and no handler returns with the answer to a request older than its own,
\* although a waiter may take the answer meant for a later one.
THEOREM NoStaleAnswer == ChannelSpec => []NeverStale
<1>1. AnswersInv => NeverStale
    BY DEF AnswersInv
<1> QED
    BY <1>1, AnswersInvariant, PTL

\* A handler that returns as the only user of the channel has the answer to its own
\* request: whenever answers were swapped or overwritten before, some other handler
\* is still waiting for one that will not come.
THEOREM LastOnePaired == ChannelSpec => []LastOneIsPaired
<1>1. ChannelInv /\ AnswersInv => LastOneIsPaired
  <2> SUFFICES ASSUME ChannelInv, AnswersInv, NEW h \in Handlers, pc[h] = "return",
                      result[h] # Failed, refcount = 1, is_alive, pushed = 0,
                      result[h] # request[h]
               PROVE  FALSE
      BY DEF LastOneIsPaired
  <2>1. PICK g \in Handlers : Orphan(g)
      BY DEF AnswersInv, SwapLeavesOrphan
  <2>2. g \in Active /\ h \in Active /\ g # h
      BY <2>1 DEF Orphan, Active
  <2>3. PICK x : Active = {x}
      BY FS_Singleton DEF AnswersInv, RefsCounted
  <2> QED
      BY <2>2, <2>3
<1> QED
    BY <1>1, ChannelInvariant, AnswersInvariant, PTL

=============================================================================
