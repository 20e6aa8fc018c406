------------------------ MODULE ClientServer_proofs ------------------------
(***************************************************************************)
(* Proofs about ClientServer: who is online, that a client and the thread  *)
(* that serves it agree where an answer ends, and that a writer has its    *)
(* session.                                                                *)
(*                                                                         *)
(* The three properties speak of a client at a prompt.  To get there the   *)
(* invariant follows the conversation: a request that has not been taken   *)
(* yet, or an answer of which the client has read some types while the     *)
(* rest is under way or still to be sent, and is complete: its last        *)
(* message, and no earlier one, ends it for this client.  Sessions are     *)
(* found by descriptor, so it also says that running threads have          *)
(* different descriptors and that a session ends before its descriptor is  *)
(* closed.                                                                 *)
(***************************************************************************)
EXTENDS ClientServer, FiniteSetTheorems, SequenceTheorems, TLAPS

NsRequests == NsKinds \cup {"hello", "loc"}
SsRequests == {"read", "stream", "whole", "lock", "data", "etirw"}
Programs == {"off", "wait", "prompt", "connect", "write", "dead"}

\* The domains of the tables, and where a thread of the name server may be.
ThreadType ==
    /\ DOMAIN cpc = Procs /\ DOMAIN cmd = Procs /\ DOMAIN task = Procs
    /\ DOMAIN seen = Procs /\ DOMAIN sock = Procs
    /\ copen \in [Links -> BOOLEAN] /\ DOMAIN req = Links /\ DOMAIN rep = Links
    /\ DOMAIN th = Links /\ DOMAIN out = Links
    /\ DOMAIN fd = Conns /\ DOMAIN file = Conns
    /\ \A p \in Procs : th[p] \in {"none", "hello", "refuse", "serve", "send", "closed"}

-----------------------------------------------------------------------------
(* The invariants *)

Serving(p) == th[p] \in {"serve", "send"}

\* A user is marked online while a thread serves the name, and no two do.
OnlineInv ==
    /\ DOMAIN connected = Users
    /\ \A p \in Procs : cpc[p] = "off" => th[p] = "none"
    /\ \A p, q \in Procs : UserOf[p] = UserOf[q] /\ Serving(p) /\ Serving(q) => p = q
    /\ \A u \in Users : connected[u] <=> \E p \in Procs : UserOf[p] = u /\ Serving(p)

Session == [fd : Conns, file : Files, conn : Conns]

\* The descriptors of running threads differ, a session belongs to the thread
\* whose descriptor it names, and no two are on one sentence.
SessionInv ==
    /\ sessions \subseteq Session
    /\ \A c \in Conns : Served(c) => fd[c] \in fds /\ fd[c] \in Conns /\ file[c] \in Files
    /\ \A c, d \in Conns : Served(c) /\ Served(d) /\ fd[c] = fd[d] => c = d
    /\ \A s \in sessions :
          Served(s.conn) /\ th[s.conn] # "close" /\ s.fd = fd[s.conn] /\ s.file = file[s.conn]
    /\ \A s, t \in sessions : s.file = t.file => s = t

Has(c) == \E s \in sessions : s.conn = c

\* Ends, for a request r of whose answer the types in S have been read.
EndsAfter(r, S, m) ==
    IF r = "lock" THEN m = "ERR" \/ {"LOCKED", "ITEM"} \subseteq S \cup {m}
    ELSE m \in Final(r) \/ (r = "info" /\ m = "ITEM" /\ "START" \notin S)

Before(w, i) == {w[j] : j \in 1..(i - 1)}
Last(w) == w[Len(w)]

\* A client that has read S reads w up to its last message, and no further.
Complete(r, S, w) ==
    /\ w \in Seq(Types) /\ w # <<>>
    /\ \A i \in 1..Len(w) : EndsAfter(r, S \cup Before(w, i), w[i]) <=> i = Len(w)

\* The client of an answer that ends with m has a session.
Keeps(r, m) ==
    \/ r = "lock" /\ m # "ERR"
    \/ r = "data"
    \/ r = "etirw" /\ m # "DONE"

\* Nothing is under way.
Idle(k) == Served(k) => th[k] = "serve" /\ req[k] = <<>> /\ rep[k] = <<>> /\ out[k] = <<>>

\* The thread that serves request r, before it answers.
Reads(r) ==
    IF r = "hello" THEN {"hello"}
    ELSE IF r \in {"read", "stream", "whole", "lock"} THEN {"serve", "find"} ELSE {"serve"}

\* The request has not been taken yet.
Asked(p, k) ==
    /\ req[k] = <<cmd[p]>> /\ rep[k] = <<>> /\ out[k] = <<>> /\ seen[p] = {}
    /\ th[k] \in Reads(cmd[p])
    /\ cmd[p] \in {"data", "etirw"} => Has(k)

\* Part of the answer is under way, the rest still to be sent.
Answered(p, k) ==
    /\ req[k] = <<>> /\ rep[k] \in Seq(Types) /\ out[k] \in Seq(Types)
    /\ Complete(cmd[p], seen[p], rep[k] \o out[k])
    /\ \/ th[k] = "send" /\ out[k] # <<>>
       \/ th[k] = "serve" /\ out[k] = <<>>
       \/ th[k] = "refuse" /\ cmd[p] = "hello" /\ Last(rep[k] \o out[k]) = "ERR"
    /\ Keeps(cmd[p], Last(rep[k] \o out[k])) => Has(k)

Conversation(p, k) == Served(k) => Asked(p, k) \/ Answered(p, k)

\* The program waits for an answer on link k.
WaitsOn(p, k) ==
    /\ cpc[p] = "wait"
    /\ \/ k = p /\ cmd[p] \in NsRequests /\ sock[p] = NoConn
       \/ k = sock[p] /\ cmd[p] \in SsRequests /\ sock[p] \in Conns

\* The ends of a program's links.
LinksOpen(p) ==
    /\ cpc[p] \in Programs
    /\ copen[p] <=> cpc[p] \notin {"off", "dead"}
    /\ sock[p] \in Conns \cup {NoConn}
    /\ sock[p] \in Conns => copen[sock[p]] /\ th[sock[p]] # "none" /\ cpc[p] \in {"wait", "write"}
    /\ cpc[p] = "off" => cmd[p] = "hello" /\ seen[p] = {} /\ th[p] = "none"
    /\ cpc[p] = "write" => sock[p] \in Conns
    /\ cpc[p] = "connect" \/ (cpc[p] = "wait" /\ cmd[p] = "loc") => task[p] \in SsKinds \X Files

\* Where a program is, and what is under way on its links.
Talk(p) ==
    /\ LinksOpen(p)
    /\ cpc[p] \in {"prompt", "connect", "write"} \/ sock[p] \in Conns => Idle(p)
    /\ cpc[p] = "write" => Idle(sock[p]) /\ (Served(sock[p]) => Has(sock[p]))
    /\ cpc[p] = "wait" => \E k \in Links : WaitsOn(p, k) /\ Conversation(p, k)

\* A connection is one program's own; one that is not used yet is empty, and
\* without a thread nothing is sent.
LinkInv ==
    /\ \A p, q \in Procs : sock[p] \in Conns /\ sock[p] = sock[q] => p = q
    /\ \A k \in Links : th[k] = "none" => rep[k] = <<>>
    /\ \A k \in Links : ~Served(k) => out[k] = <<>>

\* The inductive invariant.
IInv == ThreadType /\ OnlineInv /\ SessionInv /\ LinkInv /\ \A p \in Procs : Talk(p)

-----------------------------------------------------------------------------
(* Answers *)

\* A message moves from what is to be sent to what is under way.
LEMMA Sent ==
    ASSUME NEW a \in Seq(Types), NEW b \in Seq(Types), b # <<>>
    PROVE  /\ Append(a, Head(b)) \in Seq(Types) /\ Tail(b) \in Seq(Types)
           /\ Append(a, Head(b)) \o Tail(b) = a \o b
<1>1. /\ Head(b) \in Types /\ Tail(b) \in Seq(Types) /\ Len(Tail(b)) = Len(b) - 1
      /\ \A i \in 1..Len(Tail(b)) : Tail(b)[i] = b[i + 1]
  BY HeadTailProperties
<1>2. Head(b) = b[1] /\ Len(b) \in Nat \ {0} /\ Len(a) \in Nat
  BY EmptySeq, LenProperties
<1> DEFINE c == Append(a, Head(b))
           d == Tail(b)
<1>3. /\ c \in Seq(Types) /\ Len(c) = Len(a) + 1
      /\ \A i \in 1..Len(a) : c[i] = a[i]
      /\ c[Len(a) + 1] = b[1]
  BY <1>1, <1>2, AppendProperties
<1>4. d \in Seq(Types) /\ Len(d) = Len(b) - 1 /\ \A i \in 1..Len(d) : d[i] = b[i + 1]
  BY <1>1
<1> HIDE DEF c, d
<1>5. /\ c \o d \in Seq(Types) /\ Len(c \o d) = Len(c) + Len(d)
      /\ \A i \in 1..Len(c) + Len(d) : (c \o d)[i] = IF i <= Len(c) THEN c[i] ELSE d[i - Len(c)]
  BY <1>3, <1>4, ConcatProperties
<1>6. /\ a \o b \in Seq(Types) /\ Len(a \o b) = Len(a) + Len(b)
      /\ \A i \in 1..Len(a) + Len(b) : (a \o b)[i] = IF i <= Len(a) THEN a[i] ELSE b[i - Len(a)]
  BY ConcatProperties
<1>7. Len(c \o d) = Len(a \o b)
  BY <1>2, <1>3, <1>4, <1>5, <1>6
<1>8. ASSUME NEW i \in 1..Len(c \o d) PROVE (c \o d)[i] = (a \o b)[i]
  <2>1. i \in 1..Len(a) + Len(b) /\ i \in 1..Len(c) + Len(d) /\ i \in Nat
    BY <1>2, <1>3, <1>4, <1>5, <1>7, <1>6
  <2>2. CASE i <= Len(a)
    BY <2>1, <2>2, <1>2, <1>3, <1>5, <1>6
  <2>3. CASE i = Len(a) + 1
    BY <2>1, <2>3, <1>2, <1>3, <1>5, <1>6
  <2>4. CASE i > Len(a) + 1
    <3>1. i - Len(c) \in 1..Len(d) /\ (i - Len(c)) + 1 = i - Len(a)
      BY <2>1, <2>4, <1>2, <1>3, <1>4
    <3>2. d[i - Len(c)] = b[i - Len(a)]
      BY <3>1, <1>4
    <3> QED BY <2>1, <2>4, <3>2, <1>2, <1>3, <1>5, <1>6
  <2> QED BY <2>1, <2>2, <2>3, <2>4, <1>2
<1>9. c \o d = a \o b
  BY <1>5, <1>6, <1>7, <1>8, SeqEqual
<1> QED BY <1>3, <1>4, <1>9 DEF c, d

\* The client reads the first message under way.
LEMMA Received ==
    ASSUME NEW a \in Seq(Types), NEW b \in Seq(Types), a # <<>>
    PROVE  /\ Tail(a) \in Seq(Types) /\ Head(a) \in Types
           /\ Head(a \o b) = Head(a) /\ Tail(a \o b) = Tail(a) \o b
<1>1. /\ Head(a) \in Types /\ Tail(a) \in Seq(Types) /\ Len(Tail(a)) = Len(a) - 1
      /\ \A i \in 1..Len(Tail(a)) : Tail(a)[i] = a[i + 1]
  BY HeadTailProperties
<1>2. Head(a) = a[1] /\ Len(a) \in Nat \ {0} /\ Len(b) \in Nat
  BY EmptySeq, LenProperties
<1> DEFINE c == Tail(a)
           w == a \o b
<1>3. /\ w \in Seq(Types) /\ Len(w) = Len(a) + Len(b)
      /\ \A i \in 1..Len(a) + Len(b) : w[i] = IF i <= Len(a) THEN a[i] ELSE b[i - Len(a)]
  BY ConcatProperties
<1>4. c \in Seq(Types) /\ Len(c) = Len(a) - 1 /\ \A i \in 1..Len(c) : c[i] = a[i + 1]
  BY <1>1
<1> HIDE DEF c, w
<1>5. w # <<>>
  BY <1>2, <1>3, EmptySeq
<1>6. /\ Tail(w) \in Seq(Types) /\ Len(Tail(w)) = Len(w) - 1
      /\ \A i \in 1..Len(Tail(w)) : Tail(w)[i] = w[i + 1]
  BY <1>3, <1>5, HeadTailProperties
<1>7. /\ c \o b \in Seq(Types) /\ Len(c \o b) = Len(c) + Len(b)
      /\ \A i \in 1..Len(c) + Len(b) : (c \o b)[i] = IF i <= Len(c) THEN c[i] ELSE b[i - Len(c)]
  BY <1>4, ConcatProperties
<1>8. Len(Tail(w)) = Len(c \o b)
  BY <1>2, <1>3, <1>4, <1>6, <1>7
<1>9. ASSUME NEW i \in 1..Len(Tail(w)) PROVE Tail(w)[i] = (c \o b)[i]
  <2>1. Tail(w)[i] = w[i + 1] /\ i \in Nat /\ i + 1 \in 1..Len(a) + Len(b) /\ i \in 1..Len(c) + Len(b)
    BY <1>2, <1>3, <1>4, <1>6
  <2>2. CASE i <= Len(c)
    BY <2>1, <2>2, <1>2, <1>3, <1>4, <1>7
  <2>3. CASE i > Len(c)
    <3>1. i - Len(c) = (i + 1) - Len(a)
      BY <2>1, <1>2, <1>4
    <3> QED BY <2>1, <2>3, <3>1, <1>2, <1>3, <1>4, <1>7
  <2> QED BY <2>1, <2>2, <2>3, <1>2, <1>4
<1>10. Tail(w) = c \o b
  BY <1>6, <1>7, <1>8, <1>9, SeqEqual
<1>11. Head(w) = a[1]
  BY <1>2, <1>3, <1>5
<1> QED BY <1>1, <1>2, <1>10, <1>11 DEF c, w

\* An answer whose first message does not end it goes on with the others.
LEMMA ReadOn ==
    ASSUME NEW r, NEW S, NEW w, Complete(r, S, w), ~EndsAfter(r, S, Head(w))
    PROVE  Complete(r, S \cup {Head(w)}, Tail(w)) /\ Last(Tail(w)) = Last(w)
<1>1. w \in Seq(Types) /\ w # <<>>
  BY DEF Complete
<1>2. /\ Head(w) = w[1] /\ Len(w) \in Nat \ {0} /\ Tail(w) \in Seq(Types)
      /\ Len(Tail(w)) = Len(w) - 1 /\ \A i \in 1..Len(Tail(w)) : Tail(w)[i] = w[i + 1]
  BY <1>1, HeadTailProperties, EmptySeq
<1> DEFINE v == Tail(w)
           m == Head(w)
<1>3. Before(w, 1) = {}
  BY DEF Before
<1>4. S \cup Before(w, 1) = S
  BY <1>3
<1>5. Len(w) # 1
  <2>1. 1 \in 1..Len(w)
    BY <1>2
  <2>2. EndsAfter(r, S \cup Before(w, 1), w[1]) <=> 1 = Len(w)
    BY <2>1 DEF Complete
  <2> QED BY <2>2, <1>2, <1>4
<1>6. m = w[1] /\ v \in Seq(Types) /\ Len(v) = Len(w) - 1 /\ \A i \in 1..Len(v) : v[i] = w[i + 1]
  BY <1>2
<1> HIDE DEF v, m
<1>7. v # <<>>
  BY <1>2, <1>5, <1>6, EmptySeq
<1>8. ASSUME NEW i \in 1..Len(v)
      PROVE  EndsAfter(r, (S \cup {m}) \cup Before(v, i), v[i]) <=> i = Len(v)
  <2>1. i \in Nat /\ i + 1 \in 1..Len(w) /\ v[i] = w[i + 1]
    BY <1>2, <1>6
  <2>2. Before(w, i + 1) = {m} \cup Before(v, i)
    <3>1. ASSUME NEW x \in Before(w, i + 1) PROVE x \in {m} \cup Before(v, i)
      <4>1. PICK j \in 1..((i + 1) - 1) : x = w[j]
        BY DEF Before
      <4>2. CASE j = 1
        BY <4>1, <4>2, <1>6
      <4>3. CASE j # 1
        <5>1. j - 1 \in 1..(i - 1) /\ j - 1 \in 1..Len(v) /\ (j - 1) + 1 = j
          BY <4>3, <2>1, <1>2, <1>6
        <5>2. x = v[j - 1]
          BY <4>1, <5>1, <1>6
        <5> QED BY <5>1, <5>2 DEF Before
      <4> QED BY <4>2, <4>3
    <3>2. m \in Before(w, i + 1)
      <4>1. 1 \in 1..((i + 1) - 1)
        BY <2>1, <1>2, <1>6
      <4> QED BY <4>1, <1>6 DEF Before
    <3>3. ASSUME NEW x \in Before(v, i) PROVE x \in Before(w, i + 1)
      <4>1. PICK j \in 1..(i - 1) : x = v[j]
        BY DEF Before
      <4>2. j \in 1..Len(v) /\ j + 1 \in 1..((i + 1) - 1)
        BY <2>1, <1>2, <1>6
      <4>3. x = w[j + 1]
        BY <4>1, <4>2, <1>6
      <4> QED BY <4>2, <4>3 DEF Before
    <3> QED BY <3>1, <3>2, <3>3
  <2>3. S \cup Before(w, i + 1) = (S \cup {m}) \cup Before(v, i)
    BY <2>2
  <2>4. EndsAfter(r, S \cup Before(w, i + 1), w[i + 1]) <=> i + 1 = Len(w)
    BY <2>1 DEF Complete
  <2>5. i + 1 = Len(w) <=> i = Len(v)
    BY <2>1, <1>2, <1>6
  <2> QED BY <2>1, <2>3, <2>4, <2>5
<1>9. Complete(r, S \cup {m}, v)
  BY <1>6, <1>7, <1>8 DEF Complete
<1>10. Last(v) = Last(w)
  <2>1. Len(v) \in 1..Len(v) /\ Len(v) + 1 = Len(w)
    BY <1>2, <1>5, <1>6
  <2> QED BY <2>1, <1>6 DEF Last
<1> QED BY <1>9, <1>10 DEF v, m

\* An answer whose first message ends it is that message.
LEMMA ReadLast ==
    ASSUME NEW r, NEW S, NEW w, Complete(r, S, w), EndsAfter(r, S, Head(w))
    PROVE  Tail(w) = <<>> /\ Last(w) = Head(w)
<1>1. w \in Seq(Types) /\ w # <<>>
  BY DEF Complete
<1>2. Head(w) = w[1] /\ Len(w) \in Nat \ {0} /\ Tail(w) \in Seq(Types) /\ Len(Tail(w)) = Len(w) - 1
  BY <1>1, HeadTailProperties, EmptySeq
<1>3. S \cup Before(w, 1) = S
  BY DEF Before
<1>4. Len(w) = 1
  <2>1. 1 \in 1..Len(w)
    BY <1>2
  <2>2. EndsAfter(r, S \cup Before(w, 1), w[1]) <=> 1 = Len(w)
    BY <2>1 DEF Complete
  <2> QED BY <2>2, <1>2, <1>3
<1>5. Len(Tail(w)) = 0
  BY <1>2, <1>4
<1> QED BY <1>2, <1>4, <1>5, EmptySeq DEF Last

\* An answer of one message that ends it is complete.
LEMMA OneMessage ==
    ASSUME NEW r, NEW m \in Types, EndsAfter(r, {}, m)
    PROVE  Complete(r, {}, <<m>>) /\ Last(<<m>>) = m
<1>1. Len(<<m>>) = 1 /\ <<m>>[1] = m /\ <<m>> \in Seq(Types) /\ <<m>> # <<>>
  OBVIOUS
<1>2. {} \cup Before(<<m>>, 1) = {}
  BY DEF Before
<1>3. EndsAfter(r, {} \cup Before(<<m>>, 1), <<m>>[1])
  BY <1>1, <1>2
<1> QED BY <1>1, <1>3 DEF Complete, Last

\* The lines of a listing are entries.
LEMMA Entries ==
    ASSUME NEW s \in Items
    PROVE  s \in Seq(Types) /\ \A i \in 1..Len(s) : s[i] = "ITEM"
<1>1. PICK n \in 0..MaxItems : s = [i \in 1..n |-> "ITEM"]
  BY DEF Items
<1>2. n \in Nat
  BY ClientServerAssumption
<1> QED BY <1>1, <1>2 DEF Types

\* A listing is complete.
LEMMA ListingComplete ==
    ASSUME NEW w \in Listing
    PROVE  Complete("list", {}, w)
<1>1. PICK s \in Items : w = s \o <<"END">>
  BY DEF Listing
<1>2. s \in Seq(Types) /\ Len(s) \in Nat /\ \A i \in 1..Len(s) : s[i] = "ITEM"
  BY Entries
<1>3. <<"END">> \in Seq(Types) /\ Len(<<"END">>) = 1 /\ <<"END">>[1] = "END"
  BY DEF Types
<1>4. /\ w \in Seq(Types) /\ Len(w) = Len(s) + 1
      /\ \A i \in 1..Len(s) + 1 : w[i] = IF i <= Len(s) THEN s[i] ELSE <<"END">>[i - Len(s)]
  BY <1>1, <1>2, <1>3, ConcatProperties
<1>5. \A i \in 1..Len(w) : w[i] = IF i = Len(w) THEN "END" ELSE "ITEM"
  <2> SUFFICES ASSUME NEW i \in 1..Len(w) PROVE w[i] = IF i = Len(w) THEN "END" ELSE "ITEM"
    OBVIOUS
  <2>1. CASE i = Len(w)
    BY <2>1, <1>2, <1>3, <1>4
  <2>2. CASE i # Len(w)
    <3>1. i \in 1..Len(s) /\ i <= Len(s)
      BY <2>2, <1>2, <1>4
    <3> QED BY <2>2, <3>1, <1>2, <1>4
  <2> QED BY <2>1, <2>2
<1>6. \A S : EndsAfter("list", S, "END") /\ ~EndsAfter("list", S, "ITEM")
  BY DEF EndsAfter, Final
<1>7. w # <<>>
  BY <1>2, <1>4, EmptySeq
<1>8. \A i \in 1..Len(w) : EndsAfter("list", {} \cup Before(w, i), w[i]) <=> i = Len(w)
  BY <1>5, <1>6
<1> QED BY <1>4, <1>7, <1>8 DEF Complete

\* So is a report: INFO has read the start before the lines.
LEMMA ReportComplete ==
    ASSUME NEW w \in Report, NEW r \in {"info", "read", "stream"}
    PROVE  Complete(r, {}, w)
<1>1. PICK s \in Items : w = (<<"START">> \o s) \o <<"END">>
  BY DEF Report
<1>2. s \in Seq(Types) /\ Len(s) \in Nat /\ \A i \in 1..Len(s) : s[i] = "ITEM"
  BY Entries
<1>3. /\ <<"END">> \in Seq(Types) /\ Len(<<"END">>) = 1 /\ <<"END">>[1] = "END"
      /\ <<"START">> \in Seq(Types) /\ Len(<<"START">>) = 1 /\ <<"START">>[1] = "START"
  BY DEF Types
<1> DEFINE v == <<"START">> \o s
<1>4. /\ v \in Seq(Types) /\ Len(v) = 1 + Len(s)
      /\ \A i \in 1..1 + Len(s) : v[i] = IF i <= 1 THEN <<"START">>[i] ELSE s[i - 1]
  BY <1>2, <1>3, ConcatProperties
<1>5. w = v \o <<"END">>
  BY <1>1
<1> HIDE DEF v
<1>6. /\ w \in Seq(Types) /\ Len(w) = Len(v) + 1
      /\ \A i \in 1..Len(v) + 1 : w[i] = IF i <= Len(v) THEN v[i] ELSE <<"END">>[i - Len(v)]
  BY <1>3, <1>4, <1>5, ConcatProperties
<1>7. \A i \in 1..Len(w) : w[i] = IF i = Len(w) THEN "END" ELSE IF i = 1 THEN "START" ELSE "ITEM"
  <2> SUFFICES ASSUME NEW i \in 1..Len(w)
               PROVE  w[i] = IF i = Len(w) THEN "END" ELSE IF i = 1 THEN "START" ELSE "ITEM"
    OBVIOUS
  <2>1. CASE i = Len(w)
    BY <2>1, <1>2, <1>3, <1>4, <1>6
  <2>2. CASE i # Len(w)
    <3>1. i \in 1..Len(v) /\ i <= Len(v)
      BY <2>2, <1>2, <1>4, <1>6
    <3>2. w[i] = v[i]
      BY <3>1, <1>2, <1>4, <1>6
    <3>3. CASE i = 1
      BY <2>2, <3>1, <3>2, <3>3, <1>3, <1>4
    <3>4. CASE i # 1
      <4>1. i - 1 \in 1..Len(s)
        BY <3>1, <3>4, <1>2, <1>4
      <4> QED BY <2>2, <3>1, <3>2, <3>4, <4>1, <1>2, <1>4
    <3> QED BY <3>3, <3>4
  <2> QED BY <2>1, <2>2
<1>8. /\ \A S : EndsAfter(r, S, "END") /\ ~EndsAfter(r, S, "START")
      /\ \A S : "START" \in S => ~EndsAfter(r, S, "ITEM")
  BY DEF EndsAfter, Final, Types
<1>9. w # <<>> /\ Len(w) \in Nat /\ Len(w) >= 2
  BY <1>2, <1>4, <1>6, EmptySeq
<1>10. \A i \in 1..Len(w) : i # 1 => "START" \in {} \cup Before(w, i)
  <2> SUFFICES ASSUME NEW i \in 1..Len(w), i # 1 PROVE "START" \in Before(w, i)
    OBVIOUS
  <2>1. 1 \in 1..(i - 1) /\ w[1] = "START"
    BY <1>7, <1>9
  <2> QED BY <2>1 DEF Before
<1>11. \A i \in 1..Len(w) : EndsAfter(r, {} \cup Before(w, i), w[i]) <=> i = Len(w)
  BY <1>7, <1>8, <1>10
<1> QED BY <1>6, <1>9, <1>11 DEF Complete

\* READ sends one report.
LEMMA ReadComplete == Complete("read", {}, <<"START", "ITEM", "END">>)
<1> DEFINE w == <<"START", "ITEM", "END">>
<1>1. /\ w \in Seq(Types) /\ Len(w) = 3 /\ w # <<>>
      /\ w[1] = "START" /\ w[2] = "ITEM" /\ w[3] = "END"
  BY DEF Types
<1> HIDE DEF w
<1>2. \A S : /\ EndsAfter("read", S, "END") /\ ~EndsAfter("read", S, "START")
             /\ ~EndsAfter("read", S, "ITEM")
  BY DEF EndsAfter, Final, Types
<1>3. \A i \in 1..Len(w) : EndsAfter("read", {} \cup Before(w, i), w[i]) <=> i = Len(w)
  <2> SUFFICES ASSUME NEW i \in 1..3
               PROVE  EndsAfter("read", {} \cup Before(w, i), w[i]) <=> i = 3
    BY <1>1
  <2>1. i = 1 \/ i = 2 \/ i = 3
    OBVIOUS
  <2> QED BY <2>1, <1>1, <1>2
<1> QED BY <1>1, <1>3 DEF Complete, w

\* REQ_WRITE_LOCK is answered by OK_LOCKED and the sentence.
LEMMA LockComplete ==
    Complete("lock", {}, <<"LOCKED", "ITEM">>) /\ Last(<<"LOCKED", "ITEM">>) = "ITEM"
<1> DEFINE w == <<"LOCKED", "ITEM">>
<1>1. w \in Seq(Types) /\ Len(w) = 2 /\ w # <<>> /\ w[1] = "LOCKED" /\ w[2] = "ITEM"
  BY DEF Types
<1> HIDE DEF w
<1>2. ~EndsAfter("lock", {} \cup Before(w, 1), w[1])
  <2>1. {} \cup Before(w, 1) = {}
    BY DEF Before
  <2> QED BY <2>1, <1>1 DEF EndsAfter
<1>3. EndsAfter("lock", {} \cup Before(w, 2), w[2])
  <2>1. "LOCKED" \in Before(w, 2)
    BY <1>1 DEF Before
  <2> QED BY <2>1, <1>1 DEF EndsAfter
<1>4. \A i \in 1..Len(w) : EndsAfter("lock", {} \cup Before(w, i), w[i]) <=> i = Len(w)
  <2> SUFFICES ASSUME NEW i \in 1..2
               PROVE  EndsAfter("lock", {} \cup Before(w, i), w[i]) <=> i = 2
    BY <1>1
  <2>1. i = 1 \/ i = 2
    OBVIOUS
  <2> QED BY <2>1, <1>2, <1>3
<1> QED BY <1>1, <1>4 DEF Complete, Last, w

\* Every request takes an error, and the short answers, for the end.
LEMMA ShortAnswers ==
    /\ \A r \in Requests : Complete(r, {}, <<"ERR">>) /\ Last(<<"ERR">>) = "ERR"
    /\ \A r \in {"hello", "simple", "whole", "data"} : Complete(r, {}, <<"OK">>)
    /\ Complete("loc", {}, <<"LOC">>)
    /\ Complete("etirw", {}, <<"DONE">>) /\ Last(<<"DONE">>) = "DONE"
<1>1. \A r \in Requests : EndsAfter(r, {}, "ERR")
  BY DEF EndsAfter, Final, Types, Requests
<1>2. \A r \in {"hello", "simple", "whole", "data"} : EndsAfter(r, {}, "OK")
  BY DEF EndsAfter, Final, Types
<1>3. EndsAfter("loc", {}, "LOC") /\ EndsAfter("etirw", {}, "DONE")
  BY DEF EndsAfter, Final, Types
<1>4. "ERR" \in Types /\ "OK" \in Types /\ "LOC" \in Types /\ "DONE" \in Types
  BY DEF Types
<1>5. \A r \in Requests : Complete(r, {}, <<"ERR">>) /\ Last(<<"ERR">>) = "ERR"
  BY <1>1, <1>4, OneMessage
<1>6. \A r \in {"hello", "simple", "whole", "data"} : Complete(r, {}, <<"OK">>)
  BY <1>2, <1>4, OneMessage
<1>7. /\ Complete("loc", {}, <<"LOC">>)
      /\ Complete("etirw", {}, <<"DONE">>) /\ Last(<<"DONE">>) = "DONE"
  BY <1>3, <1>4, OneMessage
<1> QED BY <1>5, <1>6, <1>7

\* What the name server answers to a command is complete.
LEMMA NsAnswers ==
    ASSUME NEW r \in NsRequests, NEW w \in run_client_loop(r)
    PROVE  Complete(r, {}, w)
<1>1. r \in Requests /\ r \in {"simple", "list", "info", "hello", "loc"}
  BY DEF NsRequests, NsKinds, Requests
<1>2. CASE w = <<"ERR">>
  BY <1>1, <1>2, ShortAnswers
<1>3. CASE w # <<"ERR">>
  <2>1. CASE r = "list"
    BY <2>1, <1>3, ListingComplete DEF run_client_loop, Failed
  <2>2. CASE r = "info"
    <3>1. w \in Report
      BY <2>2, <1>3 DEF run_client_loop, Failed
    <3> QED BY <2>2, <3>1, ReportComplete
  <2>3. CASE r = "loc"
    <3>1. w = <<"LOC">>
      BY <2>3, <1>3 DEF run_client_loop, Failed
    <3> QED BY <2>3, <3>1, ShortAnswers
  <2>4. CASE r \in {"simple", "hello"}
    <3>1. w = <<"OK">>
      BY <2>4, <1>3 DEF run_client_loop, Failed
    <3> QED BY <2>4, <3>1, ShortAnswers
  <2> QED BY <1>1, <2>1, <2>2, <2>3, <2>4
<1> QED BY <1>2, <1>3

\* And so is what the storage server answers.
LEMMA SsAnswers ==
    ASSUME NEW c \in Conns, NEW r \in {"read", "stream", "whole", "lock"},
           NEW w \in handle_client(c, r)
    PROVE  Complete(r, {}, w) /\ (r = "lock" => (w = <<"ERR">> <=> Last(w) = "ERR"))
<1>1. r \in Requests
  BY DEF Requests
<1>2. CASE w = <<"ERR">>
  BY <1>1, <1>2, ShortAnswers
<1>3. CASE w # <<"ERR">>
  <2>1. CASE r = "read"
    <3>1. w = <<"START", "ITEM", "END">>
      BY <2>1, <1>3 DEF handle_client, Failed
    <3> QED BY <2>1, <3>1, ReadComplete
  <2>2. CASE r = "stream"
    <3>1. w \in Report
      BY <2>2, <1>3 DEF handle_client, Failed
    <3> QED BY <2>2, <3>1, ReportComplete
  <2>3. CASE r = "whole"
    <3>1. w = <<"OK">>
      BY <2>3, <1>3 DEF handle_client, Failed
    <3> QED BY <2>3, <3>1, ShortAnswers
  <2>4. CASE r = "lock"
    <3>1. w = <<"LOCKED", "ITEM">>
      BY <2>4, <1>3 DEF handle_client, Failed
    <3> QED BY <2>4, <3>1, <1>3, LockComplete
  <2> QED BY <2>1, <2>2, <2>3, <2>4
<1> QED BY <1>2, <1>3

-----------------------------------------------------------------------------
(* What a step leaves alone *)

\* The links of programs and of connections are different ones.
LEMMA LinkKinds ==
    /\ \A p \in Procs : p \in Links /\ p \notin Conns /\ p # NoConn /\ Server(p) = "ns"
    /\ \A c \in Conns : c \in Links /\ c \notin Procs /\ c # NoConn /\ Server(c) = "ss"
BY ClientServerAssumption DEF Links, Server

\* The requests of the two servers are different ones.
LEMMA RequestKinds ==
    /\ \A r \in NsRequests : r \in Requests /\ r \notin SsRequests
    /\ \A r \in NsRequests : \A m : ~Keeps(r, m) /\ r \notin {"data", "etirw"}
    /\ \A r \in SsRequests : r \in Requests
BY DEF NsRequests, NsKinds, SsRequests, Requests, Keeps

\* A program whose links nobody touches is where it was.
LEMMA TalkSame ==
    ASSUME NEW p \in Procs, Talk(p),
           cpc'[p] = cpc[p], cmd'[p] = cmd[p], task'[p] = task[p], seen'[p] = seen[p],
           sock'[p] = sock[p],
           \A k \in Links : k \in {p, sock[p]} =>
               /\ copen'[k] = copen[k] /\ req'[k] = req[k] /\ rep'[k] = rep[k]
               /\ th'[k] = th[k] /\ out'[k] = out[k],
           \A c \in Conns : c = sock[p] /\ Has(c) => Has(c)'
    PROVE  Talk(p)'
<1>1. LinksOpen(p)'
  BY LinkKinds DEF Talk, LinksOpen
<1>2. \A k \in Links : k \in {p, sock[p]} => (Idle(k)' <=> Idle(k)) /\ (Served(k)' <=> Served(k))
  BY DEF Idle, Served
<1>3. \A k \in Links : WaitsOn(p, k)' <=> WaitsOn(p, k)
  BY DEF WaitsOn
<1>4. ASSUME NEW k \in Links, WaitsOn(p, k), Conversation(p, k) PROVE Conversation(p, k)'
  <2>1. k \in {p, sock[p]} /\ (k \in Conns \/ cmd[p] \in NsRequests)
    BY <1>4 DEF WaitsOn
  <2>2. Asked(p, k) => Asked(p, k)'
    BY <2>1, RequestKinds, LinkKinds DEF Asked
  <2>3. Answered(p, k) => Answered(p, k)'
    BY <2>1, RequestKinds, LinkKinds DEF Answered
  <2> QED BY <1>2, <1>4, <2>1, <2>2, <2>3 DEF Conversation
<1>5. p \in Links /\ (sock[p] \in Conns => sock[p] \in Links)
  BY LinkKinds
<1>6. cpc[p] = "write" => sock[p] \in Conns
  BY DEF Talk, LinksOpen
<1> QED BY <1>1, <1>2, <1>3, <1>4, <1>5, <1>6 DEF Talk

\* Nobody goes online or offline.
LEMMA OnlineSame ==
    ASSUME OnlineInv, connected' = connected,
           \A p \in Procs :
               /\ (Serving(p)' <=> Serving(p)) /\ (th[p] = "none" => th'[p] = "none")
               /\ cpc'[p] = "off" => cpc[p] = "off"
    PROVE  OnlineInv'
BY DEF OnlineInv

\* No session begins or ends.
LEMMA SessionsSame ==
    ASSUME SessionInv, UNCHANGED <<sessions, fd, fds, file>>,
           \A c \in Conns : (Served(c)' <=> Served(c)) /\ (th'[c] = "close" => th[c] = "close")
    PROVE  SessionInv' /\ \A c : Has(c)' <=> Has(c)
<1>1. \A s \in sessions : s.conn \in Conns
  BY DEF SessionInv, Session
<1> QED BY <1>1 DEF SessionInv, Has

\* A step of program p that leaves the servers' threads alone.
LEMMA ClientStep ==
    ASSUME IInv, NEW p \in Procs, Talk(p)',
           UNCHANGED <<th, out, sessions, fd, fds, file, connected>>,
           DOMAIN cpc' = Procs, DOMAIN cmd' = Procs, DOMAIN task' = Procs,
           DOMAIN seen' = Procs, DOMAIN sock' = Procs,
           copen' \in [Links -> BOOLEAN], DOMAIN req' = Links, DOMAIN rep' = Links,
           cpc'[p] # "off", sock'[p] \in {sock[p], NoConn},
           \A q \in Procs \ {p} :
               /\ cpc'[q] = cpc[q] /\ cmd'[q] = cmd[q] /\ task'[q] = task[q]
               /\ seen'[q] = seen[q] /\ sock'[q] = sock[q],
           \A k \in Links : k # p /\ k # sock[p] =>
               copen'[k] = copen[k] /\ req'[k] = req[k] /\ rep'[k] = rep[k],
           \A k \in Links : th[k] = "none" => rep'[k] = <<>>
    PROVE  IInv'
<1>1. ThreadType'
  BY DEF IInv, ThreadType
<1>2. OnlineInv'
  <2>1. \A q \in Procs : Serving(q)' <=> Serving(q)
    BY DEF Serving
  <2> QED BY <2>1, OnlineSame DEF IInv
<1>3. SessionInv' /\ \A c : Has(c)' <=> Has(c)
  <2>1. \A c \in Conns : (Served(c)' <=> Served(c)) /\ (th'[c] = "close" => th[c] = "close")
    BY DEF Served
  <2> QED BY <2>1, SessionsSame DEF IInv
<1>4. LinkInv'
  BY LinkKinds DEF IInv, LinkInv, Served
<1>5. ASSUME NEW q \in Procs, q # p PROVE Talk(q)'
  <2>1. Talk(q) /\ (sock[q] \in Conns => sock[q] # sock[p]) /\ sock[p] \in Conns \cup {NoConn}
    BY <1>5 DEF IInv, LinkInv, Talk, LinksOpen
  <2>2. \A k \in Links : k \in {q, sock[q]} => k # p /\ k # sock[p]
    BY <1>5, <2>1, LinkKinds, ClientServerAssumption DEF Talk, LinksOpen
  <2> QED BY <1>3, <1>5, <2>1, <2>2, TalkSame
<1> QED BY <1>1, <1>2, <1>3, <1>4, <1>5 DEF IInv

\* A step of the thread on link k.  Its client, if it is still there, waits for it.
LEMMA ServerStep ==
    ASSUME IInv, NEW k \in Links, UNCHANGED <<cpc, cmd, task, seen, sock, copen, file>>,
           DOMAIN req' = Links, DOMAIN rep' = Links, DOMAIN th' = Links, DOMAIN out' = Links,
           DOMAIN fd' = Conns, Served(k), th'[k] # "none", th'[k] = "closed" => out'[k] = <<>>,
           k \in Procs => th'[k] \in {"hello", "refuse", "serve", "send", "closed"},
           \A j \in Links \ {k} :
               req'[j] = req[j] /\ rep'[j] = rep[j] /\ th'[j] = th[j] /\ out'[j] = out[j],
           SessionInv', OnlineInv',
           \A c \in Conns \ {k} : Has(c) => Has(c)',
           copen[k] => ~Idle(k),
           \A p \in Procs : WaitsOn(p, k) /\ Conversation(p, k) => Conversation(p, k)'
    PROVE  IInv'
<1>1. ThreadType'
  BY LinkKinds DEF IInv, ThreadType
<1>2. LinkInv'
  BY DEF IInv, LinkInv, Served
<1>3. ASSUME NEW p \in Procs PROVE Talk(p)'
  <2>1. Talk(p) /\ LinksOpen(p)
    BY DEF IInv, Talk
  <2>2. CASE k \notin {p, sock[p]}
    BY <2>1, <2>2, TalkSame
  <2>3. CASE k = p
    <3>1. cpc[p] # "off"
      BY <2>1, <2>3 DEF LinksOpen, Served
    <3>2. LinksOpen(p)'
      BY <2>1, <2>3, <3>1, LinkKinds DEF LinksOpen
    <3>3. cpc[p] \notin {"off", "dead"} => ~Idle(p)
      BY <2>1, <2>3 DEF LinksOpen
    <3>4. cpc[p] \notin {"prompt", "connect", "write"} /\ sock[p] \notin Conns
      BY <2>1, <3>3, LinkKinds DEF Talk, LinksOpen
    <3>5. ASSUME cpc[p] = "wait" PROVE WaitsOn(p, p) /\ Conversation(p, p)
      BY <2>1, <3>4, <3>5 DEF Talk, WaitsOn
    <3>6. WaitsOn(p, p)' <=> WaitsOn(p, p)
      BY DEF WaitsOn
    <3> QED BY <2>3, <3>2, <3>4, <3>5, <3>6 DEF Talk
  <2>4. CASE k = sock[p] /\ k # p
    <3>1. k \in Conns
      BY <2>1, <2>4, ClientServerAssumption DEF LinksOpen
    <3>2. copen[k] /\ cpc[p] \in {"wait", "write"}
      BY <2>1, <2>4, <3>1 DEF LinksOpen
    <3>3. LinksOpen(p)'
      BY <2>1, <2>4, <3>1, <3>2, LinkKinds DEF LinksOpen
    <3>4. cpc[p] = "wait"
      BY <2>1, <2>4, <3>2 DEF Talk
    <3>5. WaitsOn(p, k) /\ Conversation(p, k)
      BY <2>1, <2>4, <3>1, <3>4, LinkKinds DEF Talk, WaitsOn
    <3>6. WaitsOn(p, k)' <=> WaitsOn(p, k)
      BY DEF WaitsOn
    <3>7. Idle(p) /\ p \in Links /\ p # k
      BY <2>1, <2>4, <3>1, LinkKinds DEF Talk
    <3>8. Idle(p)'
      BY <3>7 DEF Idle, Served
    <3> QED BY <3>3, <3>4, <3>5, <3>6, <3>8 DEF Talk
  <2> QED BY <2>2, <2>3, <2>4
<1> QED BY <1>1, <1>2, <1>3 DEF IInv

\* A thread takes the request and has a complete answer to send.
LEMMA AnswerBegins ==
    ASSUME NEW p \in Procs, NEW k \in Links, Conversation(p, k), Served(k), req[k] # <<>>,
           NEW w, Complete(cmd[p], {}, w),
           cmd' = cmd, seen' = seen, rep' = rep, req'[k] = Tail(req[k]), out'[k] = w,
           \/ th'[k] = "send"
           \/ th'[k] = "refuse" /\ cmd[p] = "hello" /\ Last(w) = "ERR",
           Keeps(cmd[p], Last(w)) => Has(k)'
    PROVE  Conversation(p, k)'
<1>1. Asked(p, k)
  BY DEF Conversation, Answered
<1>2. req'[k] = <<>> /\ rep'[k] = <<>> /\ seen'[p] = {}
  BY <1>1 DEF Asked
<1>3. w \in Seq(Types) /\ w # <<>> /\ <<>> \in Seq(Types)
  BY DEF Complete
<1>4. rep'[k] \o out'[k] = w
  BY <1>2, <1>3, ConcatEmptySeq
<1>5. Answered(p, k)'
  BY <1>2, <1>3, <1>4 DEF Answered
<1> QED BY <1>5 DEF Conversation

\* A program that waits on a link has its end open.
LEMMA WaiterIsThere ==
    ASSUME IInv, NEW p \in Procs, NEW k \in Links, WaitsOn(p, k)
    PROVE  /\ copen[k]
           /\ k \in Procs => k = p /\ cmd[p] \in NsRequests
           /\ k \in Conns => k = sock[p] /\ cmd[p] \in SsRequests
<1>1. LinksOpen(p)
  BY DEF IInv, Talk
<1> QED BY <1>1, LinkKinds DEF WaitsOn, LinksOpen

\* A thread of the name server has no session.
LEMMA NsThread ==
    ASSUME IInv, NEW k \in Procs, NEW x, th' = [th EXCEPT ![k] = x],
           UNCHANGED <<sessions, fd, fds, file>>
    PROVE  SessionInv' /\ \A c : Has(c)' <=> Has(c)
<1>1. \A c \in Conns : th'[c] = th[c]
  BY LinkKinds DEF IInv, ThreadType
<1>2. \A c \in Conns : (Served(c)' <=> Served(c)) /\ (th'[c] = "close" => th[c] = "close")
  BY <1>1 DEF Served
<1> QED BY <1>2, SessionsSame DEF IInv

\* A thread of the storage server makes nobody online.
LEMMA SsThread ==
    ASSUME IInv, NEW k \in Conns, NEW x, th' = [th EXCEPT ![k] = x],
           UNCHANGED <<connected, cpc>>
    PROVE  OnlineInv'
<1>1. \A p \in Procs : th'[p] = th[p]
  BY LinkKinds DEF IInv, ThreadType
<1>2. \A p \in Procs : Serving(p)' <=> Serving(p)
  BY <1>1 DEF Serving
<1> QED BY <1>1, <1>2, OnlineSame DEF IInv

-----------------------------------------------------------------------------
(* The name server *)

\* A name is taken only when no other thread serves it.
LEMMA RegisterKeeps ==
    ASSUME IInv, NEW k \in Procs, ns_register_client(k)
    PROVE  IInv'
<1> DEFINE u == UserOf[k]
<1>1. /\ th[k] = "hello" /\ req[k] # <<>> /\ req' = [req EXCEPT ![k] = Tail(req[k])]
      /\ UNCHANGED <<cpc, cmd, task, seen, sock, copen, rep, fd, fds, file, sessions>>
  BY DEF ns_register_client, client
<1>2. \/ th' = [th EXCEPT ![k] = "refuse"] /\ out' = [out EXCEPT ![k] = <<"ERR">>]
         /\ connected' = connected
      \/ th' = [th EXCEPT ![k] = "send"] /\ out' = [out EXCEPT ![k] = <<"OK">>]
         /\ ~connected[u] /\ connected' = [connected EXCEPT ![u] = TRUE]
  BY DEF ns_register_client, At
<1>3. k \in Links /\ Served(k) /\ u \in Users
  BY <1>1, LinkKinds, ClientServerAssumption DEF Served
<1>4. SessionInv' /\ \A c : Has(c)' <=> Has(c)
  BY <1>1, <1>2, NsThread
<1>5. /\ \A j \in Links \ {k} : req'[j] = req[j] /\ th'[j] = th[j] /\ out'[j] = out[j]
      /\ \/ th'[k] = "refuse" /\ out'[k] = <<"ERR">> /\ connected' = connected
         \/ /\ th'[k] = "send" /\ out'[k] = <<"OK">>
            /\ ~connected[u] /\ connected' = [connected EXCEPT ![u] = TRUE]
      /\ req'[k] = Tail(req[k])
      /\ DOMAIN req' = Links /\ DOMAIN th' = Links /\ DOMAIN out' = Links
  BY <1>1, <1>2, <1>3 DEF IInv, ThreadType
<1>6. OnlineInv'
  <2>1. cpc[k] # "off"
    BY <1>1 DEF IInv, OnlineInv
  <2>2. \A p \in Procs \ {k} : th'[p] = th[p]
    BY <1>5, LinkKinds
  <2>3. CASE th'[k] = "refuse" /\ connected' = connected
    <3>1. \A p \in Procs : Serving(p)' <=> Serving(p)
      BY <1>1, <2>2, <2>3 DEF Serving
    <3> QED BY <1>1, <2>2, <2>3, <3>1, OnlineSame DEF IInv
  <2>4. CASE th'[k] = "send" /\ ~connected[u] /\ connected' = [connected EXCEPT ![u] = TRUE]
    <3>1. /\ Serving(k)' /\ ~Serving(k)
          /\ \A p \in Procs \ {k} : Serving(p)' <=> Serving(p)
      BY <1>1, <2>2, <2>4 DEF Serving
    <3>2. \A p \in Procs : UserOf[p] = u => ~Serving(p)
      BY <1>3, <2>4 DEF IInv, OnlineInv
    <3>3. /\ connected'[u] /\ DOMAIN connected' = Users
          /\ \A v \in Users \ {u} : connected'[v] = connected[v]
      BY <1>3, <2>4 DEF IInv, OnlineInv
    <3>4. \A p, q \in Procs : UserOf[p] = UserOf[q] /\ Serving(p)' /\ Serving(q)' => p = q
      BY <3>1, <3>2 DEF IInv, OnlineInv
    <3>5. \A v \in Users : connected'[v] <=> \E p \in Procs : UserOf[p] = v /\ Serving(p)'
      BY <3>1, <3>2, <3>3 DEF IInv, OnlineInv
    <3>6. \A p \in Procs : cpc'[p] = "off" => th'[p] = "none"
      BY <1>1, <2>1, <2>2 DEF IInv, OnlineInv
    <3> QED BY <3>3, <3>4, <3>5, <3>6 DEF OnlineInv
  <2> QED BY <1>5, <2>3, <2>4
<1>7. ASSUME NEW p \in Procs, WaitsOn(p, k), Conversation(p, k) PROVE Conversation(p, k)'
  <2>1. Asked(p, k) /\ cmd[p] \in NsRequests
    BY <1>1, <1>3, <1>7, WaiterIsThere DEF Conversation, Answered
  <2>2. cmd[p] = "hello"
    BY <1>1, <2>1 DEF Asked, Reads
  <2>3. /\ Complete("hello", {}, <<"ERR">>) /\ Last(<<"ERR">>) = "ERR"
        /\ Complete("hello", {}, <<"OK">>)
    BY ShortAnswers DEF Requests
  <2>4. \A m : ~Keeps(cmd[p], m)
    BY <2>1, RequestKinds
  <2>5. CASE th'[k] = "refuse" /\ out'[k] = <<"ERR">>
    BY <1>1, <1>3, <1>5, <1>7, <2>2, <2>3, <2>4, <2>5, AnswerBegins
  <2>6. CASE th'[k] = "send" /\ out'[k] = <<"OK">>
    BY <1>1, <1>3, <1>5, <1>7, <2>2, <2>3, <2>4, <2>6, AnswerBegins
  <2> QED BY <1>5, <2>5, <2>6
<1>8. ~Idle(k)
  BY <1>1, <1>3 DEF Idle
<1>9. DOMAIN rep' = Links /\ DOMAIN fd' = Conns
  BY <1>1 DEF IInv, ThreadType
<1> QED BY <1>1, <1>3, <1>4, <1>5, <1>6, <1>7, <1>8, <1>9, ServerStep

\* A command is answered completely.
LEMMA NsCommandKeeps ==
    ASSUME IInv, NEW k \in Procs, NsCommand(k)
    PROVE  IInv'
<1>1. PICK w \in run_client_loop(Head(req[k])) :
          th' = [th EXCEPT ![k] = "send"] /\ out' = [out EXCEPT ![k] = w]
  BY DEF NsCommand, At
<1>2. /\ th[k] = "serve" /\ req[k] # <<>> /\ req' = [req EXCEPT ![k] = Tail(req[k])]
      /\ UNCHANGED <<cpc, cmd, task, seen, sock, copen, rep, fd, fds, file, sessions, connected>>
  BY DEF NsCommand, client, tables
<1>3. k \in Links /\ Served(k)
  BY <1>2, LinkKinds DEF Served
<1>4. SessionInv' /\ \A c : Has(c)' <=> Has(c)
  BY <1>1, <1>2, NsThread
<1>5. /\ \A j \in Links \ {k} : req'[j] = req[j] /\ th'[j] = th[j] /\ out'[j] = out[j]
      /\ th'[k] = "send" /\ out'[k] = w /\ req'[k] = Tail(req[k])
      /\ DOMAIN req' = Links /\ DOMAIN th' = Links /\ DOMAIN out' = Links
  BY <1>1, <1>2, <1>3 DEF IInv, ThreadType
<1>6. OnlineInv'
  <2>1. \A p \in Procs : (Serving(p)' <=> Serving(p)) /\ (th[p] = "none" => th'[p] = "none")
    BY <1>2, <1>5, LinkKinds DEF Serving
  <2> QED BY <1>2, <2>1, OnlineSame DEF IInv
<1>7. ASSUME NEW p \in Procs, WaitsOn(p, k), Conversation(p, k) PROVE Conversation(p, k)'
  <2>1. Asked(p, k) /\ cmd[p] \in NsRequests
    BY <1>2, <1>3, <1>7, WaiterIsThere DEF Conversation, Answered
  <2>2. Head(req[k]) = cmd[p]
    BY <2>1 DEF Asked
  <2>3. Complete(cmd[p], {}, w)
    BY <1>1, <2>1, <2>2, NsAnswers
  <2>4. \A m : ~Keeps(cmd[p], m)
    BY <2>1, RequestKinds
  <2> QED BY <1>2, <1>3, <1>5, <1>7, <2>3, <2>4, AnswerBegins
<1>8. ~Idle(k)
  BY <1>2, <1>3 DEF Idle
<1>9. DOMAIN rep' = Links /\ DOMAIN fd' = Conns
  BY <1>2 DEF IInv, ThreadType
<1> QED BY <1>2, <1>3, <1>4, <1>5, <1>6, <1>7, <1>8, <1>9, ServerStep

\* The thread that served the name puts it offline, one that refused it does not.
LEMMA ConnectionEndKeeps ==
    ASSUME IInv, NEW k \in Procs, connection_thread(k)
    PROVE  IInv'
<1> DEFINE u == UserOf[k]
<1>1. /\ \/ th[k] = "serve" /\ ~copen[k] /\ connected' = [connected EXCEPT ![u] = FALSE]
         \/ th[k] = "refuse" /\ connected' = connected
      /\ th' = [th EXCEPT ![k] = "closed"] /\ out' = [out EXCEPT ![k] = <<>>]
      /\ UNCHANGED <<cpc, cmd, task, seen, sock, copen, req, rep, fd, fds, file, sessions>>
  BY DEF connection_thread, At, client, wire
<1>2. k \in Links /\ Served(k) /\ u \in Users
  BY <1>1, LinkKinds, ClientServerAssumption DEF Served
<1>3. SessionInv' /\ \A c : Has(c)' <=> Has(c)
  BY <1>1, NsThread
<1>4. /\ \A j \in Links \ {k} : th'[j] = th[j] /\ out'[j] = out[j]
      /\ th'[k] = "closed" /\ out'[k] = <<>>
      /\ DOMAIN th' = Links /\ DOMAIN out' = Links
  BY <1>1, <1>2 DEF IInv, ThreadType
<1>5. OnlineInv'
  <2>1. \A p \in Procs \ {k} : th'[p] = th[p] /\ (Serving(p)' <=> Serving(p))
    BY <1>4, LinkKinds DEF Serving
  <2>2. ~Serving(k)' /\ cpc[k] # "off"
    BY <1>1, <1>4 DEF Serving, IInv, OnlineInv
  <2>3. CASE th[k] = "refuse" /\ connected' = connected
    <3>1. ~Serving(k)
      BY <2>3 DEF Serving
    <3>2. \A p \in Procs : Serving(p)' <=> Serving(p)
      BY <2>1, <2>2, <3>1
    <3> QED BY <1>1, <2>1, <2>3, <3>2, OnlineSame DEF IInv
  <2>4. CASE th[k] = "serve" /\ connected' = [connected EXCEPT ![u] = FALSE]
    <3>1. Serving(k)
      BY <2>4 DEF Serving
    <3>2. \A p \in Procs : UserOf[p] = u /\ Serving(p) => p = k
      BY <3>1 DEF IInv, OnlineInv
    <3>3. /\ ~connected'[u] /\ DOMAIN connected' = Users
          /\ \A v \in Users \ {u} : connected'[v] = connected[v]
      BY <1>2, <2>4 DEF IInv, OnlineInv
    <3>4. \A p, q \in Procs : UserOf[p] = UserOf[q] /\ Serving(p)' /\ Serving(q)' => p = q
      BY <2>1, <2>2 DEF IInv, OnlineInv
    <3>5. \A v \in Users : connected'[v] <=> \E p \in Procs : UserOf[p] = v /\ Serving(p)'
      BY <2>1, <2>2, <3>2, <3>3 DEF IInv, OnlineInv
    <3>6. \A p \in Procs : cpc'[p] = "off" => th'[p] = "none"
      BY <1>1, <2>1, <2>2 DEF IInv, OnlineInv
    <3> QED BY <3>3, <3>4, <3>5, <3>6 DEF OnlineInv
  <2> QED BY <1>1, <2>3, <2>4
<1>6. \A p \in Procs : Conversation(p, k)'
  BY <1>4 DEF Conversation, Served
<1>7. copen[k] => ~Idle(k)
  BY <1>1, <1>2 DEF Idle
<1>8. DOMAIN rep' = Links /\ DOMAIN fd' = Conns /\ DOMAIN req' = Links
  BY <1>1 DEF IInv, ThreadType
<1> QED BY <1>1, <1>2, <1>3, <1>4, <1>5, <1>6, <1>7, <1>8, ServerStep

-----------------------------------------------------------------------------
(* The storage server *)

\* The sessions of other threads are not those of this descriptor.
LEMMA OwnSessions ==
    ASSUME IInv, NEW c \in Conns, Served(c)
    PROVE  \A s \in sessions : s \in Own(c) <=> s.conn = c
<1>1. \A s \in sessions : s.conn \in Conns /\ Served(s.conn) /\ s.fd = fd[s.conn]
  BY DEF IInv, SessionInv, Session
<1> QED BY <1>1 DEF IInv, SessionInv, Own

\* A thread that stays and changes no session.
LEMMA SsSessionsSame ==
    ASSUME IInv, NEW c \in Conns, NEW x, Served(c), x \notin {"none", "close", "closed"},
           th' = [th EXCEPT ![c] = x], UNCHANGED <<sessions, fd, fds, file>>
    PROVE  SessionInv' /\ \A d : Has(d)' <=> Has(d)
<1>1. th'[c] = x /\ \A d \in Conns \ {c} : th'[d] = th[d]
  BY LinkKinds DEF IInv, ThreadType
<1>2. \A d \in Conns : (Served(d)' <=> Served(d)) /\ (th'[d] = "close" => th[d] = "close")
  BY <1>1 DEF Served
<1> QED BY <1>2, SessionsSame DEF IInv

\* The sessions of a descriptor end.
LEMMA OwnSessionsEnd ==
    ASSUME IInv, NEW c \in Conns, NEW x, Served(c), x \notin {"none", "closed"},
           th' = [th EXCEPT ![c] = x], sessions' = sessions \ Own(c), UNCHANGED <<fd, fds, file>>
    PROVE  SessionInv' /\ \A d \in Conns \ {c} : Has(d) => Has(d)'
<1>1. th'[c] = x /\ \A d \in Conns \ {c} : th'[d] = th[d]
  BY LinkKinds DEF IInv, ThreadType
<1>2. \A d \in Conns : Served(d)' <=> Served(d)
  BY <1>1 DEF Served
<1>3. \A s \in sessions' : s \in sessions /\ s.conn \in Conns /\ s.conn # c
  BY OwnSessions DEF IInv, SessionInv, Session
<1>4. \A s \in sessions' : Served(s.conn)' /\ th'[s.conn] # "close"
  BY <1>1, <1>2, <1>3 DEF IInv, SessionInv
<1>5. SessionInv'
  BY <1>2, <1>3, <1>4 DEF IInv, SessionInv
<1>6. ASSUME NEW d \in Conns \ {c}, Has(d) PROVE Has(d)'
  BY <1>6, OwnSessions DEF Has
<1> QED BY <1>5, <1>6

\* A request is refused, or its file is looked for.
LEMMA FindKeeps ==
    ASSUME IInv, NEW c \in Conns, Find(c)
    PROVE  IInv'
<1>1. /\ th[c] = "serve" /\ req[c] # <<>> /\ Head(req[c]) \notin {"data", "etirw"}
      /\ \/ /\ th' = [th EXCEPT ![c] = "send"] /\ out' = [out EXCEPT ![c] = <<"ERR">>]
            /\ req' = [req EXCEPT ![c] = Tail(req[c])]
         \/ /\ th' = [th EXCEPT ![c] = "find"] /\ out' = [out EXCEPT ![c] = <<>>]
            /\ req' = req
      /\ UNCHANGED <<cpc, cmd, task, seen, sock, copen, rep, fd, fds, file, sessions, connected>>
  BY DEF Find, At, client, tables
<1>2. c \in Links /\ Served(c)
  BY <1>1, LinkKinds DEF Served
<1>3. SessionInv' /\ \A d : Has(d)' <=> Has(d)
  <2>1. CASE th' = [th EXCEPT ![c] = "send"]
    BY <1>1, <1>2, <2>1, SsSessionsSame
  <2>2. CASE th' = [th EXCEPT ![c] = "find"]
    BY <1>1, <1>2, <2>2, SsSessionsSame
  <2> QED BY <1>1, <2>1, <2>2
<1>4. OnlineInv'
  BY <1>1, SsThread
<1>5. /\ \A j \in Links \ {c} : req'[j] = req[j] /\ th'[j] = th[j] /\ out'[j] = out[j]
      /\ \/ th'[c] = "send" /\ out'[c] = <<"ERR">> /\ req'[c] = Tail(req[c])
         \/ th'[c] = "find" /\ out'[c] = <<>> /\ req'[c] = req[c]
      /\ DOMAIN req' = Links /\ DOMAIN th' = Links /\ DOMAIN out' = Links
  BY <1>1, <1>2 DEF IInv, ThreadType
<1>6. ASSUME NEW p \in Procs, WaitsOn(p, c), Conversation(p, c) PROVE Conversation(p, c)'
  <2>1. Asked(p, c) /\ cmd[p] \in SsRequests
    BY <1>1, <1>2, <1>6, WaiterIsThere DEF Conversation, Answered
  <2>2. cmd[p] \in {"read", "stream", "whole", "lock"} /\ cmd[p] \in Requests
    BY <1>1, <2>1, RequestKinds DEF Asked, SsRequests
  <2>3. CASE th'[c] = "send" /\ out'[c] = <<"ERR">> /\ req'[c] = Tail(req[c])
    <3>1. Complete(cmd[p], {}, <<"ERR">>) /\ ~Keeps(cmd[p], Last(<<"ERR">>))
      BY <2>2, ShortAnswers DEF Keeps
    <3> QED BY <1>1, <1>2, <1>6, <2>3, <3>1, AnswerBegins
  <2>4. CASE th'[c] = "find" /\ out'[c] = <<>> /\ req'[c] = req[c]
    <3>1. Asked(p, c)'
      BY <1>1, <2>1, <2>2, <2>4 DEF Asked, Reads
    <3> QED BY <3>1 DEF Conversation
  <2> QED BY <1>5, <2>3, <2>4
<1>7. ~Idle(c)
  BY <1>1, <1>2 DEF Idle
<1>8. DOMAIN rep' = Links /\ DOMAIN fd' = Conns
  BY <1>1 DEF IInv, ThreadType
<1> QED BY <1>1, <1>2, <1>3, <1>4, <1>5, <1>6, <1>7, <1>8, LinkKinds, ServerStep

\* The handler answers; a write lock that is granted opens a session on a sentence
\* that nobody has.
LEMMA EnterKeeps ==
    ASSUME IInv, NEW c \in Conns, Enter(c)
    PROVE  IInv'
<1>1. PICK r : r = Head(req[c])
  OBVIOUS
<1>2. PICK w \in handle_client(c, r) :
          /\ th' = [th EXCEPT ![c] = "send"] /\ out' = [out EXCEPT ![c] = w]
          /\ sessions' = Opens(c, r, w)
  BY <1>1 DEF Enter, At
<1>3. /\ th[c] = "find" /\ req' = [req EXCEPT ![c] = Tail(req[c])]
      /\ UNCHANGED <<cpc, cmd, task, seen, sock, copen, rep, fd, fds, file, connected>>
  BY DEF Enter, client
<1>4. c \in Links /\ Served(c)
  BY <1>3, LinkKinds DEF Served
<1>5. OnlineInv'
  BY <1>2, <1>3, SsThread
<1>6. /\ \A j \in Links \ {c} : req'[j] = req[j] /\ th'[j] = th[j] /\ out'[j] = out[j]
      /\ th'[c] = "send" /\ out'[c] = w /\ req'[c] = Tail(req[c])
      /\ DOMAIN req' = Links /\ DOMAIN th' = Links /\ DOMAIN out' = Links
  BY <1>2, <1>3, <1>4 DEF IInv, ThreadType
<1>7. SessionInv' /\ (\A d : Has(d) => Has(d)') /\ (r = "lock" /\ w # <<"ERR">> => Has(c)')
  <2>1. CASE r = "lock" /\ w # <<"ERR">>
    <3>1. PICK s : s = [fd |-> fd[c], file |-> file[c], conn |-> c]
      OBVIOUS
    <3>2. s \in Session /\ s.fd = fd[c] /\ s.file = file[c] /\ s.conn = c
      BY <1>4, <3>1 DEF IInv, SessionInv, Session
    <3>3. sessions' = sessions \cup {s}
      BY <1>2, <2>1, <3>1 DEF Opens
    <3>4. ~Busy(file[c])
      BY <2>1 DEF handle_client, Failed
    <3>5. \A d \in Conns : (Served(d)' <=> Served(d)) /\ (th'[d] = "close" => th[d] = "close")
      BY <1>3, <1>6, LinkKinds DEF Served
    <3>6. \A t \in sessions : t.conn \in Conns
      BY DEF IInv, SessionInv, Session
    <3>7. \A t \in sessions' :
             /\ Served(t.conn)' /\ th'[t.conn] # "close" /\ t.fd = fd[t.conn]
             /\ t.file = file[t.conn]
      BY <1>4, <1>6, <3>2, <3>3, <3>5, <3>6 DEF IInv, SessionInv
    <3>8. \A t, v \in sessions' : t.file = v.file => t = v
      BY <3>2, <3>3, <3>4 DEF IInv, SessionInv, Busy
    <3>9. SessionInv'
      BY <1>3, <3>2, <3>3, <3>5, <3>7, <3>8 DEF IInv, SessionInv
    <3> QED BY <3>2, <3>3, <3>9 DEF Has
  <2>2. CASE ~(r = "lock" /\ w # <<"ERR">>)
    <3>1. sessions' = sessions
      BY <1>2, <2>2 DEF Opens
    <3> QED BY <1>2, <1>3, <1>4, <2>2, <3>1, SsSessionsSame
  <2> QED BY <2>1, <2>2
<1>8. ASSUME NEW p \in Procs, WaitsOn(p, c), Conversation(p, c) PROVE Conversation(p, c)'
  <2>1. Asked(p, c)
    BY <1>3, <1>4, <1>8 DEF Conversation, Answered
  <2>2. r = cmd[p] /\ req[c] # <<>> /\ cmd[p] \in {"read", "stream", "whole", "lock"}
    BY <1>1, <1>3, <2>1 DEF Asked, Reads
  <2>3. Complete(cmd[p], {}, w) /\ (cmd[p] = "lock" => (w = <<"ERR">> <=> Last(w) = "ERR"))
    BY <1>2, <2>2, SsAnswers
  <2>4. Keeps(cmd[p], Last(w)) => Has(c)'
    BY <1>7, <2>2, <2>3 DEF Keeps
  <2> QED BY <1>3, <1>4, <1>6, <1>8, <2>2, <2>3, <2>4, AnswerBegins
<1>9. ~Idle(c)
  BY <1>3, <1>4 DEF Idle
<1>10. DOMAIN rep' = Links /\ DOMAIN fd' = Conns
  BY <1>3 DEF IInv, ThreadType
<1> QED BY <1>3, <1>4, <1>5, <1>6, <1>7, <1>8, <1>9, <1>10, LinkKinds, ServerStep

\* An edit keeps the session.
LEMMA WriteDataKeeps ==
    ASSUME IInv, NEW c \in Conns, handle_client_write_data(c)
    PROVE  IInv'
<1>1. PICK w \in {<<"OK">>, <<"ERR">>} :
          th' = [th EXCEPT ![c] = "send"] /\ out' = [out EXCEPT ![c] = w]
  BY DEF handle_client_write_data, At
<1>2. /\ th[c] = "serve" /\ req[c] # <<>> /\ Head(req[c]) = "data"
      /\ req' = [req EXCEPT ![c] = Tail(req[c])]
      /\ UNCHANGED <<cpc, cmd, task, seen, sock, copen, rep, fd, fds, file, sessions, connected>>
  BY DEF handle_client_write_data, client, tables
<1>3. c \in Links /\ Served(c)
  BY <1>2, LinkKinds DEF Served
<1>4. SessionInv' /\ \A d : Has(d)' <=> Has(d)
  BY <1>1, <1>2, <1>3, SsSessionsSame
<1>5. OnlineInv'
  BY <1>1, <1>2, SsThread
<1>6. /\ \A j \in Links \ {c} : req'[j] = req[j] /\ th'[j] = th[j] /\ out'[j] = out[j]
      /\ th'[c] = "send" /\ out'[c] = w /\ req'[c] = Tail(req[c])
      /\ DOMAIN req' = Links /\ DOMAIN th' = Links /\ DOMAIN out' = Links
  BY <1>1, <1>2, <1>3 DEF IInv, ThreadType
<1>7. ASSUME NEW p \in Procs, WaitsOn(p, c), Conversation(p, c) PROVE Conversation(p, c)'
  <2>1. Asked(p, c)
    BY <1>2, <1>3, <1>7 DEF Conversation, Answered
  <2>2. cmd[p] = "data" /\ Has(c)
    BY <1>2, <2>1 DEF Asked
  <2>3. Complete(cmd[p], {}, w)
    BY <1>1, <2>2, ShortAnswers DEF Requests
  <2> QED BY <1>2, <1>3, <1>4, <1>6, <1>7, <2>2, <2>3, AnswerBegins
<1>8. ~Idle(c)
  BY <1>2, <1>3 DEF Idle
<1>9. DOMAIN rep' = Links /\ DOMAIN fd' = Conns
  BY <1>2 DEF IInv, ThreadType
<1> QED BY <1>2, <1>3, <1>4, <1>5, <1>6, <1>7, <1>8, <1>9, LinkKinds, ServerStep

\* A commit ends the session, one that fails keeps it.
LEMMA EtirwKeeps ==
    ASSUME IInv, NEW c \in Conns, handle_client_etirw(c)
    PROVE  IInv'
<1>1. PICK w :
          /\ th' = [th EXCEPT ![c] = "send"] /\ out' = [out EXCEPT ![c] = w]
          /\ \/ w = <<"DONE">> /\ sessions' = sessions \ Own(c)
             \/ w = <<"ERR">> /\ sessions' = sessions
  BY DEF handle_client_etirw, At
<1>2. /\ th[c] = "serve" /\ req[c] # <<>> /\ Head(req[c]) = "etirw"
      /\ req' = [req EXCEPT ![c] = Tail(req[c])]
      /\ UNCHANGED <<cpc, cmd, task, seen, sock, copen, rep, fd, fds, file, connected>>
  BY DEF handle_client_etirw, client
<1>3. c \in Links /\ Served(c)
  BY <1>2, LinkKinds DEF Served
<1>4. /\ SessionInv' /\ \A d \in Conns \ {c} : Has(d) => Has(d)'
      /\ w # <<"DONE">> => (Has(c) => Has(c)') /\ w = <<"ERR">>
  <2>1. CASE w = <<"DONE">> /\ sessions' = sessions \ Own(c)
    BY <1>1, <1>2, <1>3, <2>1, OwnSessionsEnd
  <2>2. CASE w = <<"ERR">> /\ sessions' = sessions
    BY <1>1, <1>2, <1>3, <2>2, SsSessionsSame
  <2> QED BY <1>1, <2>1, <2>2
<1>5. OnlineInv'
  BY <1>1, <1>2, SsThread
<1>6. /\ \A j \in Links \ {c} : req'[j] = req[j] /\ th'[j] = th[j] /\ out'[j] = out[j]
      /\ th'[c] = "send" /\ out'[c] = w /\ req'[c] = Tail(req[c])
      /\ DOMAIN req' = Links /\ DOMAIN th' = Links /\ DOMAIN out' = Links
  BY <1>1, <1>2, <1>3 DEF IInv, ThreadType
<1>7. ASSUME NEW p \in Procs, WaitsOn(p, c), Conversation(p, c) PROVE Conversation(p, c)'
  <2>1. Asked(p, c)
    BY <1>2, <1>3, <1>7 DEF Conversation, Answered
  <2>2. cmd[p] = "etirw" /\ Has(c)
    BY <1>2, <2>1 DEF Asked
  <2>3. Complete(cmd[p], {}, w) /\ (w = <<"DONE">> => Last(w) = "DONE")
    BY <1>4, <2>2, ShortAnswers DEF Requests
  <2>4. Keeps(cmd[p], Last(w)) => Has(c)'
    BY <1>4, <2>2, <2>3 DEF Keeps
  <2> QED BY <1>2, <1>3, <1>6, <1>7, <2>3, <2>4, AnswerBegins
<1>8. ~Idle(c)
  BY <1>2, <1>3 DEF Idle
<1>9. DOMAIN rep' = Links /\ DOMAIN fd' = Conns
  BY <1>2 DEF IInv, ThreadType
<1> QED BY <1>2, <1>3, <1>4, <1>5, <1>6, <1>7, <1>8, <1>9, LinkKinds, ServerStep

\* The last steps of a thread whose client has gone: the session ends before its
\* descriptor can be used again.
LEMMA LastStepsKeep ==
    ASSUME IInv, NEW c \in Conns, client_thread(c) \/ ss_abort_session(c) \/ CloseFd(c)
    PROVE  IInv'
<1>1. /\ \/ /\ th[c] = "serve" /\ ~copen[c] /\ th' = [th EXCEPT ![c] = "abort"]
            /\ UNCHANGED <<sessions, fds>>
         \/ /\ th[c] = "abort" /\ th' = [th EXCEPT ![c] = "close"]
            /\ sessions' = sessions \ Own(c) /\ fds' = fds
         \/ /\ th[c] = "close" /\ th' = [th EXCEPT ![c] = "closed"]
            /\ fds' = fds \ {fd[c]} /\ sessions' = sessions
      /\ out' = [out EXCEPT ![c] = <<>>]
      /\ UNCHANGED <<cpc, cmd, task, seen, sock, copen, req, rep, fd, file, connected>>
  <2>1. LastSteps[1] = "abort" /\ After("abort") = "close" /\ After("close") = "closed"
    BY DEF LastSteps, After
  <2>2. CASE client_thread(c)
    BY <2>1, <2>2 DEF client_thread, At, client, wire, tables
  <2>3. CASE ss_abort_session(c)
    BY <2>1, <2>3 DEF ss_abort_session, At, client, wire
  <2>4. CASE CloseFd(c)
    BY <2>1, <2>4 DEF CloseFd, At, client, wire
  <2> QED BY <2>2, <2>3, <2>4
<1>2. c \in Links /\ Served(c)
  BY <1>1, LinkKinds DEF Served
<1>3. /\ \A j \in Links \ {c} : th'[j] = th[j] /\ out'[j] = out[j]
      /\ th'[c] \in {"abort", "close", "closed"} /\ out'[c] = <<>>
      /\ DOMAIN th' = Links /\ DOMAIN out' = Links
  BY <1>1, <1>2 DEF IInv, ThreadType
<1>4. OnlineInv'
  BY <1>1, SsThread
<1>5. SessionInv' /\ \A d \in Conns \ {c} : Has(d) => Has(d)'
  <2>1. CASE th' = [th EXCEPT ![c] = "abort"] /\ UNCHANGED <<sessions, fds>>
    BY <1>1, <1>2, <2>1, SsSessionsSame
  <2>2. CASE th' = [th EXCEPT ![c] = "close"] /\ sessions' = sessions \ Own(c) /\ fds' = fds
    BY <1>1, <1>2, <2>2, OwnSessionsEnd
  <2>3. CASE /\ th[c] = "close" /\ th' = [th EXCEPT ![c] = "closed"]
             /\ fds' = fds \ {fd[c]} /\ sessions' = sessions
    <3>1. th'[c] = "closed" /\ \A d \in Conns \ {c} : th'[d] = th[d]
      BY <2>3, LinkKinds DEF IInv, ThreadType
    <3>2. \A d \in Conns : Served(d)' => Served(d) /\ d # c
      BY <3>1 DEF Served
    <3>3. \A d \in Conns : Served(d)' => fd[d] \in fds'
      BY <1>2, <2>3, <3>2 DEF IInv, SessionInv
    <3>4. \A s \in sessions : s.conn \in Conns /\ s.conn # c
      BY <2>3 DEF IInv, SessionInv, Session
    <3>5. \A s \in sessions : Served(s.conn)' /\ th'[s.conn] # "close"
      BY <3>1, <3>4 DEF IInv, SessionInv, Served
    <3>6. SessionInv'
      BY <1>1, <2>3, <3>2, <3>3, <3>5 DEF IInv, SessionInv
    <3> QED BY <2>3, <3>6 DEF Has
  <2> QED BY <1>1, <2>1, <2>2, <2>3
<1>6. copen[c] => ~Idle(c)
  BY <1>1, <1>2 DEF Idle
<1>7. ASSUME NEW p \in Procs, WaitsOn(p, c), Conversation(p, c) PROVE Conversation(p, c)'
  <2>1. copen[c]
    BY <1>2, <1>7, WaiterIsThere
  <2>2. th[c] \notin {"abort", "close"}
    BY <1>2, <1>7 DEF Conversation, Asked, Answered, Reads
  <2> QED BY <1>1, <2>1, <2>2
<1>8. DOMAIN rep' = Links /\ DOMAIN fd' = Conns /\ DOMAIN req' = Links
  BY <1>1 DEF IInv, ThreadType
<1> QED BY <1>1, <1>2, <1>3, <1>4, <1>5, <1>6, <1>7, <1>8, LinkKinds, ServerStep

-----------------------------------------------------------------------------
(* Sending, and the loss of a server *)

\* A message of the answer is sent.
LEMMA SendKeeps ==
    ASSUME IInv, NEW k \in Links, protocol_send_message(k)
    PROVE  IInv'
<1>1. PICK x : /\ x = IF Tail(out[k]) = <<>> /\ th[k] = "send" THEN "serve" ELSE th[k]
               /\ th' = [th EXCEPT ![k] = x]
  BY DEF protocol_send_message, At
<1>2. /\ out[k] # <<>> /\ out' = [out EXCEPT ![k] = Tail(out[k])]
      /\ \/ copen[k] /\ rep' = [rep EXCEPT ![k] = Append(rep[k], Head(out[k]))]
         \/ ~copen[k] /\ rep' = rep
      /\ UNCHANGED <<cpc, cmd, task, seen, sock, copen, req, fd, fds, file, sessions, connected>>
  BY DEF protocol_send_message, At, client, tables
<1>3. Served(k) /\ x \notin {"none", "closed"}
  BY <1>1, <1>2 DEF IInv, LinkInv, Served
<1>4. /\ \A j \in Links \ {k} : rep'[j] = rep[j] /\ th'[j] = th[j] /\ out'[j] = out[j]
      /\ th'[k] = x /\ out'[k] = Tail(out[k])
      /\ \/ copen[k] /\ rep'[k] = Append(rep[k], Head(out[k]))
         \/ ~copen[k] /\ rep'[k] = rep[k]
      /\ DOMAIN th' = Links /\ DOMAIN out' = Links /\ DOMAIN rep' = Links
  BY <1>1, <1>2 DEF IInv, ThreadType
<1>5. SessionInv' /\ \A d : Has(d)' <=> Has(d)
  <2>1. \A c \in Conns : (Served(c)' <=> Served(c)) /\ (th'[c] = "close" => th[c] = "close")
    BY <1>1, <1>3, <1>4, LinkKinds DEF Served
  <2> QED BY <1>2, <2>1, SessionsSame DEF IInv
<1>6. OnlineInv'
  <2>1. \A p \in Procs : (Serving(p)' <=> Serving(p)) /\ (th[p] = "none" => th'[p] = "none")
    BY <1>1, <1>3, <1>4, LinkKinds DEF Serving, Served
  <2> QED BY <1>2, <2>1, OnlineSame DEF IInv
<1>7. ASSUME NEW p \in Procs, WaitsOn(p, k), Conversation(p, k) PROVE Conversation(p, k)'
  <2>1. Answered(p, k) /\ copen[k]
    BY <1>2, <1>3, <1>7, WaiterIsThere DEF Conversation, Asked
  <2>2. rep[k] \in Seq(Types) /\ out[k] \in Seq(Types)
    BY <2>1 DEF Answered
  <2>3. PICK a, b : a = rep'[k] /\ b = out'[k]
    OBVIOUS
  <2>4. a = Append(rep[k], Head(out[k])) /\ b = Tail(out[k])
    BY <1>4, <2>1, <2>3
  <2>5. a \in Seq(Types) /\ b \in Seq(Types) /\ a \o b = rep[k] \o out[k]
    BY <1>2, <2>2, <2>4, Sent
  <2>6. \/ th'[k] = "send" /\ b # <<>>
        \/ th'[k] = "serve" /\ b = <<>>
        \/ th'[k] = "refuse" /\ cmd[p] = "hello" /\ Last(a \o b) = "ERR"
    BY <1>1, <1>2, <1>4, <2>1, <2>4, <2>5 DEF Answered
  <2>7. Complete(cmd[p], seen[p], a \o b) /\ (Keeps(cmd[p], Last(a \o b)) => Has(k))
    BY <2>1, <2>5 DEF Answered
  <2>8. req[k] = <<>>
    BY <2>1 DEF Answered
  <2>9. Answered(p, k)'
    BY <1>2, <1>5, <2>3, <2>5, <2>6, <2>7, <2>8 DEF Answered
  <2> QED BY <2>9 DEF Conversation
<1>8. ~Idle(k)
  BY <1>2, <1>3 DEF Idle
<1>9. DOMAIN req' = Links /\ DOMAIN fd' = Conns
  BY <1>2 DEF IInv, ThreadType
<1>10. k \in Procs => x \in {"hello", "refuse", "serve", "send", "closed"}
  BY <1>1, <1>3 DEF IInv, ThreadType
<1> QED BY <1>2, <1>3, <1>4, <1>5, <1>6, <1>7, <1>8, <1>9, <1>10, ServerStep

\* A server goes away: its threads are gone, and what its links carry with them.
LEMMA DownKeeps ==
    ASSUME IInv, NEW s \in {"ns", "ss"}, Down(s)
    PROVE  IInv'
<1>1. /\ th' = [k \in Links |-> IF Server(k) = s /\ Served(k) THEN "closed" ELSE th[k]]
      /\ out' = [k \in Links |-> IF Server(k) = s THEN <<>> ELSE out[k]]
      /\ req' = [k \in Links |-> IF Server(k) = s THEN <<>> ELSE req[k]]
      /\ UNCHANGED <<cpc, cmd, task, seen, sock, copen, rep, fd, file>>
  BY DEF Down, client
<1>2. /\ s = "ns" => connected' = [u \in Users |-> FALSE] /\ UNCHANGED <<fds, sessions>>
      /\ s = "ss" => sessions' = {} /\ connected' = connected
  BY DEF Down
<1>3. /\ \A k \in Links : Server(k) = s => ~Served(k)' /\ (th'[k] = "none" <=> th[k] = "none")
      /\ \A k \in Links : Server(k) # s =>
            th'[k] = th[k] /\ out'[k] = out[k] /\ req'[k] = req[k] /\ (Served(k)' <=> Served(k))
  BY <1>1 DEF Served
<1>4. ThreadType'
  BY <1>1, LinkKinds DEF IInv, ThreadType
<1>5. LinkInv'
  BY <1>1, <1>3 DEF IInv, LinkInv
<1>6. OnlineInv'
  <2>1. CASE s = "ns"
    <3>1. \A p \in Procs : ~Serving(p)'
      BY <1>3, <2>1, LinkKinds DEF Serving, Served
    <3>2. \A p \in Procs : cpc'[p] = "off" => th'[p] = "none"
      BY <1>1, <1>3, <2>1, LinkKinds DEF IInv, OnlineInv
    <3> QED BY <1>2, <2>1, <3>1, <3>2 DEF OnlineInv
  <2>2. CASE s = "ss"
    <3>1. \A p \in Procs : th'[p] = th[p]
      BY <1>3, <2>2, LinkKinds
    <3>2. \A p \in Procs : Serving(p)' <=> Serving(p)
      BY <3>1 DEF Serving
    <3> QED BY <1>1, <1>2, <2>2, <3>1, <3>2, OnlineSame DEF IInv
  <2> QED BY <2>1, <2>2
<1>7. SessionInv' /\ (s = "ns" => \A c : Has(c)' <=> Has(c))
  <2>1. CASE s = "ns"
    <3>1. \A c \in Conns : (Served(c)' <=> Served(c)) /\ (th'[c] = "close" => th[c] = "close")
      BY <1>3, <2>1, LinkKinds
    <3> QED BY <1>1, <1>2, <2>1, <3>1, SessionsSame DEF IInv
  <2>2. CASE s = "ss"
    <3>1. \A c \in Conns : ~Served(c)'
      BY <1>3, <2>2, LinkKinds
    <3> QED BY <1>2, <2>2, <3>1 DEF SessionInv
  <2> QED BY <2>1, <2>2
<1>8. ASSUME NEW p \in Procs PROVE Talk(p)'
  <2>1. Talk(p) /\ LinksOpen(p) /\ p \in Links /\ (sock[p] \in Conns => sock[p] \in Links)
    BY LinkKinds DEF IInv, Talk
  <2>2. LinksOpen(p)'
    BY <1>1, <1>3, <2>1, LinkKinds DEF LinksOpen
  <2>3. \A k \in Links : Idle(k) => Idle(k)'
    BY <1>1, <1>3 DEF Idle
  <2>4. \A k \in Links : WaitsOn(p, k)' <=> WaitsOn(p, k)
    BY <1>1 DEF WaitsOn
  <2>5. ASSUME NEW k \in Links, WaitsOn(p, k), Conversation(p, k) PROVE Conversation(p, k)'
    <3>1. CASE Server(k) = s
      BY <1>3, <3>1 DEF Conversation
    <3>2. CASE Server(k) # s
      <4>1. (k \in Conns => (Has(k) => Has(k)')) /\ (k \in Conns \/ cmd[p] \in NsRequests)
        BY <1>7, <2>5, <3>2, LinkKinds DEF WaitsOn
      <4>2. Asked(p, k) => Asked(p, k)'
        BY <1>1, <1>3, <3>2, <4>1, RequestKinds DEF Asked
      <4>3. Answered(p, k) => Answered(p, k)'
        BY <1>1, <1>3, <3>2, <4>1, RequestKinds DEF Answered
      <4> QED BY <1>3, <2>5, <3>2, <4>2, <4>3 DEF Conversation
    <3> QED BY <3>1, <3>2
  <2>6. cpc[p] = "write" => sock[p] \in Conns /\ (Served(sock[p])' => Has(sock[p])')
    <3>1. cpc[p] = "write" => sock[p] \in Conns /\ (Served(sock[p]) => Has(sock[p]))
      BY <2>1 DEF Talk, LinksOpen
    <3>2. \A c \in Conns : (Served(c) => Has(c)) => (Served(c)' => Has(c)')
      BY <1>3, <1>7, LinkKinds
    <3>3. sock' = sock
      BY <1>1
    <3> QED BY <3>1, <3>2, <3>3
  <2> QED BY <1>1, <2>1, <2>2, <2>3, <2>4, <2>5, <2>6 DEF Talk
<1> QED BY <1>4, <1>5, <1>6, <1>7, <1>8 DEF IInv

-----------------------------------------------------------------------------
(* The client program *)

\* A program that ends closes its links.
LEMMA ExitKeeps ==
    ASSUME IInv, NEW p \in Procs, cpc[p] # "off", Exit(p),
           UNCHANGED <<th, out, sessions, fd, fds, file, connected>>
    PROVE  IInv'
<1>1. /\ cpc' = [cpc EXCEPT ![p] = "dead"] /\ sock' = [sock EXCEPT ![p] = NoConn]
      /\ copen' = [k \in Links |-> copen[k] /\ k # p /\ k # sock[p]]
      /\ rep' = [k \in Links |-> IF k \in {p, sock[p]} THEN <<>> ELSE rep[k]]
      /\ cmd' = [cmd EXCEPT ![p] = "hello"] /\ task' = [task EXCEPT ![p] = <<>>]
      /\ seen' = [seen EXCEPT ![p] = {}] /\ req' = req
  BY DEF Exit
<1>2. copen \in [Links -> BOOLEAN] /\ p \in Links
  BY LinkKinds DEF IInv, ThreadType
<1>3. copen' \in [Links -> BOOLEAN]
  BY <1>1, <1>2
<1>4. ~copen'[p]
  BY <1>1, <1>2
<1>5. \A k \in Links : k # p /\ k # sock[p] => copen'[k] = copen[k]
  BY <1>1, <1>2
<1>6. /\ cpc'[p] = "dead" /\ sock'[p] = NoConn
      /\ \A q \in Procs \ {p} :
               /\ cpc'[q] = cpc[q] /\ cmd'[q] = cmd[q] /\ task'[q] = task[q]
               /\ seen'[q] = seen[q] /\ sock'[q] = sock[q]
      /\ DOMAIN cpc' = Procs /\ DOMAIN cmd' = Procs /\ DOMAIN task' = Procs
      /\ DOMAIN seen' = Procs /\ DOMAIN sock' = Procs /\ DOMAIN req' = Links
  BY <1>1 DEF IInv, ThreadType
<1>7. /\ \A k \in Links : k # p /\ k # sock[p] => rep'[k] = rep[k] /\ req'[k] = req[k]
      /\ \A k \in Links : th[k] = "none" => rep'[k] = <<>>
      /\ DOMAIN rep' = Links
  BY <1>1 DEF IInv, LinkInv
<1>8. Talk(p)'
  <2>1. NoConn \notin Conns
    BY LinkKinds
  <2>2. LinksOpen(p)'
    BY <1>4, <1>6, <2>1 DEF LinksOpen, Programs
  <2> QED BY <1>6, <2>1, <2>2 DEF Talk
<1> QED BY <1>3, <1>5, <1>6, <1>7, <1>8, ClientStep

\* A request is put on a link that is idle.
LEMMA AskKeeps ==
    ASSUME IInv, NEW p \in Procs, NEW k \in Links, NEW r, NEW t, Ask(p, k, r, t),
           cpc[p] \in {"prompt", "write"}, Idle(k),
           \/ k = p /\ r \in NsRequests \ {"hello"} /\ sock[p] = NoConn
           \/ k = sock[p] /\ sock[p] \in Conns /\ r \in {"data", "etirw"} /\ cpc[p] = "write",
           r = "loc" => t \in SsKinds \X Files,
           UNCHANGED <<th, out, sessions, fd, fds, file, connected>>
    PROVE  IInv'
<1>1. CASE Exit(p)
  BY <1>1, ExitKeeps
<1>2. CASE ~Exit(p)
  <2>1. /\ req' = IF Served(k) THEN [req EXCEPT ![k] = Append(req[k], r)] ELSE req
        /\ cpc' = [cpc EXCEPT ![p] = "wait"] /\ cmd' = [cmd EXCEPT ![p] = r]
        /\ task' = [task EXCEPT ![p] = t] /\ seen' = [seen EXCEPT ![p] = {}]
        /\ UNCHANGED <<sock, copen, rep>>
    BY <1>2 DEF Ask
  <2>2. /\ cpc'[p] = "wait" /\ cmd'[p] = r /\ task'[p] = t /\ seen'[p] = {}
        /\ \A q \in Procs \ {p} :
                 /\ cpc'[q] = cpc[q] /\ cmd'[q] = cmd[q] /\ task'[q] = task[q]
                 /\ seen'[q] = seen[q] /\ sock'[q] = sock[q]
        /\ DOMAIN cpc' = Procs /\ DOMAIN cmd' = Procs /\ DOMAIN task' = Procs
        /\ DOMAIN seen' = Procs /\ DOMAIN sock' = Procs /\ DOMAIN req' = Links
        /\ copen' \in [Links -> BOOLEAN] /\ DOMAIN rep' = Links
    BY <2>1 DEF IInv, ThreadType
  <2>3. /\ \A j \in Links : j # k => req'[j] = req[j]
        /\ Served(k) => req'[k] = Append(req[k], r)
    BY <2>1 DEF IInv, ThreadType
  <2>4. \A j \in Links : th[j] = "none" => rep'[j] = <<>>
    BY <2>1 DEF IInv, LinkInv
  <2>5. Talk(p) /\ LinksOpen(p)
    BY DEF IInv, Talk
  <2>6. r \in Requests /\ r # "hello" /\ (k # p => r \notin NsRequests)
    BY LinkKinds, RequestKinds DEF NsRequests, NsKinds, Requests
  <2>7. Conversation(p, k)'
    <3>1. SUFFICES ASSUME Served(k) PROVE Asked(p, k)'
      BY DEF Conversation, Served
    <3>2. th[k] = "serve" /\ req[k] = <<>> /\ rep[k] = <<>> /\ out[k] = <<>>
      BY <3>1 DEF Idle
    <3>3. req'[k] = <<r>>
      BY <2>3, <3>1, <3>2
    <3>4. "serve" \in Reads(r)
      BY <2>6 DEF Reads
    <3>5. r \in {"data", "etirw"} => Has(k)
      BY <2>5, <3>1, LinkKinds, RequestKinds DEF Talk
    <3>6. Has(k)' <=> Has(k)
      BY DEF Has
    <3> QED BY <2>1, <2>2, <3>2, <3>3, <3>4, <3>5, <3>6 DEF Asked
  <2>8. WaitsOn(p, k)'
    BY <2>1, <2>2 DEF WaitsOn, SsRequests
  <2>9. LinksOpen(p)'
    BY <2>1, <2>2, <2>5 DEF LinksOpen, Programs
  <2>10. sock[p] \in Conns => Idle(p)'
    <3>1. SUFFICES ASSUME sock[p] \in Conns PROVE Idle(p)'
      OBVIOUS
    <3>2. Idle(p) /\ k # p /\ p \in Links
      BY <2>5, <3>1, LinkKinds DEF Talk
    <3> QED BY <2>1, <2>3, <3>2 DEF Idle, Served
  <2>11. Talk(p)'
    BY <2>1, <2>2, <2>7, <2>8, <2>9, <2>10 DEF Talk
  <2>12. /\ sock'[p] \in {sock[p], NoConn}
         /\ \A j \in Links : j # p /\ j # sock[p] =>
               copen'[j] = copen[j] /\ req'[j] = req[j] /\ rep'[j] = rep[j]
    BY <2>1, <2>3
  <2> QED BY <2>2, <2>4, <2>11, <2>12, ClientStep
<1> QED BY <1>1, <1>2

\* The link on which a program waits, and the end of an answer, as the module has them.
LEMMA WaitingLink ==
    ASSUME IInv, NEW p \in Procs, cpc[p] = "wait"
    PROVE  /\ Link(p) \in Links /\ WaitsOn(p, Link(p)) /\ Conversation(p, Link(p))
           /\ \A m : Ends(p, m) <=> EndsAfter(cmd[p], seen[p], m)
<1>1. PICK k \in Links : WaitsOn(p, k) /\ Conversation(p, k)
  BY DEF IInv, Talk
<1>2. Link(p) = k
  BY <1>1, RequestKinds DEF WaitsOn, Link, NsRequests
<1>3. \A m : Ends(p, m) <=> EndsAfter(cmd[p], seen[p], m)
  BY DEF Ends, EndsAfter
<1> QED BY <1>1, <1>2, <1>3

\* What the first message under way leaves of the answer.
LEMMA MessageRead ==
    ASSUME IInv, NEW p \in Procs, NEW k \in Links, Conversation(p, k), Served(k),
           rep[k] # <<>>, NEW m, m = Head(rep[k])
    PROVE  /\ Answered(p, k)
           /\ EndsAfter(cmd[p], seen[p], m) =>
                 /\ Tail(rep[k]) = <<>> /\ out[k] = <<>> /\ req[k] = <<>>
                 /\ th[k] = "serve" \/ (th[k] = "refuse" /\ cmd[p] = "hello" /\ m = "ERR")
                 /\ Keeps(cmd[p], m) => Has(k)
           /\ ~EndsAfter(cmd[p], seen[p], m) =>
                 /\ Tail(rep[k]) \in Seq(Types)
                 /\ Complete(cmd[p], seen[p] \cup {m}, Tail(rep[k]) \o out[k])
                 /\ Last(Tail(rep[k]) \o out[k]) = Last(rep[k] \o out[k])
<1>1. Answered(p, k)
  BY DEF Conversation, Asked
<1>2. PICK a, b : a = rep[k] /\ b = out[k]
  OBVIOUS
<1>3. a \in Seq(Types) /\ b \in Seq(Types) /\ Complete(cmd[p], seen[p], a \o b)
  BY <1>1, <1>2 DEF Answered
<1>4. Tail(a) \in Seq(Types) /\ Head(a \o b) = m /\ Tail(a \o b) = Tail(a) \o b
  BY <1>2, <1>3, Received
<1>5. ASSUME EndsAfter(cmd[p], seen[p], m)
      PROVE  /\ Tail(a) = <<>> /\ b = <<>>
             /\ th[k] = "serve" \/ (th[k] = "refuse" /\ cmd[p] = "hello" /\ m = "ERR")
             /\ Keeps(cmd[p], m) => Has(k)
  <2>1. Tail(a \o b) = <<>> /\ Last(a \o b) = m
    BY <1>3, <1>4, <1>5, ReadLast
  <2>2. Tail(a) = <<>> /\ b = <<>>
    <3>1. PICK c \in Seq(Types) : c = Tail(a)
      BY <1>4
    <3>2. c \o b = <<>>
      BY <1>4, <2>1, <3>1
    <3>3. c = <<>> /\ b = <<>>
      BY <1>3, <3>2, ConcatEqualIffEmpty
    <3> QED BY <3>1, <3>3
  <2> QED BY <1>1, <1>2, <2>1, <2>2 DEF Answered
<1>6. ASSUME ~EndsAfter(cmd[p], seen[p], m)
      PROVE  /\ Complete(cmd[p], seen[p] \cup {m}, Tail(a) \o b)
             /\ Last(Tail(a) \o b) = Last(a \o b)
  BY <1>3, <1>4, <1>6, ReadOn
<1>7. req[k] = <<>>
  BY <1>1 DEF Answered
<1> QED BY <1>1, <1>2, <1>4, <1>5, <1>6, <1>7

\* The command is over: its answer has been read, or its link is lost.
LEMMA FinishKeeps ==
    ASSUME IInv, NEW p \in Procs, cpc[p] = "wait", Finish(p), cmd[p] # "hello",
           \/ ~Served(Link(p))
           \/ rep[Link(p)] # <<>> /\ Ends(p, Head(rep[Link(p)])),
           UNCHANGED <<th, out, sessions, fd, fds, file, connected>>
    PROVE  IInv'
<1>1. PICK k \in Links : k = Link(p)
  BY WaitingLink
<1>2. /\ cpc' = [cpc EXCEPT ![p] = "prompt"] /\ sock' = [sock EXCEPT ![p] = NoConn]
      /\ copen' = [j \in Links |-> copen[j] /\ j # sock[p]]
      /\ rep' = [j \in Links |-> IF j = sock[p] THEN <<>>
                    ELSE IF j = k /\ rep[j] # <<>> THEN Tail(rep[j]) ELSE rep[j]]
      /\ task' = [task EXCEPT ![p] = <<>>] /\ seen' = [seen EXCEPT ![p] = {}]
      /\ UNCHANGED <<cmd, req>>
  BY <1>1 DEF Finish
<1>3. WaitsOn(p, k) /\ Conversation(p, k) /\ copen[p] /\ LinksOpen(p) /\ Talk(p)
  BY <1>1, WaitingLink DEF IInv, Talk, LinksOpen
<1>4. copen \in [Links -> BOOLEAN] /\ p \in Links /\ p # sock[p]
  BY <1>3, LinkKinds DEF IInv, ThreadType, LinksOpen
<1>5. copen' \in [Links -> BOOLEAN]
  BY <1>2, <1>4
<1>6. copen'[p]
  BY <1>2, <1>3, <1>4
<1>7. \A j \in Links : j # p /\ j # sock[p] => copen'[j] = copen[j]
  BY <1>2, <1>4
<1>8. /\ cpc'[p] = "prompt" /\ sock'[p] = NoConn
      /\ \A q \in Procs \ {p} :
               /\ cpc'[q] = cpc[q] /\ cmd'[q] = cmd[q] /\ task'[q] = task[q]
               /\ seen'[q] = seen[q] /\ sock'[q] = sock[q]
      /\ DOMAIN cpc' = Procs /\ DOMAIN cmd' = Procs /\ DOMAIN task' = Procs
      /\ DOMAIN seen' = Procs /\ DOMAIN sock' = Procs /\ DOMAIN req' = Links
  BY <1>2 DEF IInv, ThreadType
<1>9. k \in {p, sock[p]}
  BY <1>3 DEF WaitsOn
<1>10. /\ \A j \in Links : j # p /\ j # sock[p] => rep'[j] = rep[j] /\ req'[j] = req[j]
       /\ \A j \in Links : th[j] = "none" => rep'[j] = <<>>
       /\ DOMAIN rep' = Links
  BY <1>2, <1>9 DEF IInv, LinkInv
<1>11. Idle(p)'
  <2>1. CASE k = p
    <3>1. SUFFICES ASSUME Served(p)
                   PROVE  th[p] = "serve" /\ req[p] = <<>> /\ rep'[p] = <<>> /\ out[p] = <<>>
      BY <1>2 DEF Idle, Served
    <3>2. PICK m : m = Head(rep[p])
      OBVIOUS
    <3>3. rep[p] # <<>> /\ EndsAfter(cmd[p], seen[p], m)
      BY <1>1, <2>1, <3>1, <3>2, WaitingLink
    <3>4. /\ Tail(rep[p]) = <<>> /\ out[p] = <<>> /\ req[p] = <<>>
          /\ th[p] = "serve" \/ (th[p] = "refuse" /\ cmd[p] = "hello" /\ m = "ERR")
      BY <1>3, <2>1, <3>1, <3>2, <3>3, MessageRead
    <3>5. rep'[p] = Tail(rep[p])
      BY <1>2, <1>4, <2>1, <3>3
    <3> QED BY <3>4, <3>5
  <2>2. CASE k # p
    <3>1. Idle(p) /\ rep'[p] = rep[p]
      BY <1>2, <1>3, <1>4, <1>9, <2>2 DEF WaitsOn, Talk
    <3> QED BY <1>2, <3>1 DEF Idle, Served
  <2> QED BY <2>1, <2>2
<1>12. Talk(p)'
  <2>1. NoConn \notin Conns
    BY LinkKinds
  <2>2. LinksOpen(p)'
    BY <1>6, <1>8, <2>1 DEF LinksOpen, Programs
  <2> QED BY <1>8, <1>11, <2>1, <2>2 DEF Talk
<1> QED BY <1>5, <1>7, <1>8, <1>10, <1>12, ClientStep

\* One message is read, and the program reads on or goes on with the command.
LEMMA GoOnKeeps ==
    ASSUME IInv, NEW p \in Procs, cpc[p] = "wait", rep[Link(p)] # <<>>,
           NEW m, m = Head(rep[Link(p)]), NEW label, GoOn(p, label, m),
           \/ label = "wait" /\ ~Ends(p, m)
           \/ label = "prompt" /\ Ends(p, m) /\ cmd[p] = "hello" /\ m = "OK"
           \/ label = "connect" /\ Ends(p, m) /\ cmd[p] = "loc"
           \/ label = "write" /\ Ends(p, m) /\ cmd[p] \in {"lock", "data", "etirw"}
              /\ Keeps(cmd[p], m),
           UNCHANGED <<th, out, sessions, fd, fds, file, connected>>
    PROVE  IInv'
<1>1. PICK k \in Links : k = Link(p)
  BY WaitingLink
<1>2. /\ cpc' = [cpc EXCEPT ![p] = label]
      /\ seen' = [seen EXCEPT ![p] = IF label = "wait" THEN seen[p] \cup {m} ELSE {}]
      /\ rep' = [rep EXCEPT ![k] = Tail(rep[k])]
      /\ UNCHANGED <<cmd, task, sock, copen, req>>
  BY <1>1 DEF GoOn
<1>3. WaitsOn(p, k) /\ Conversation(p, k) /\ LinksOpen(p) /\ Talk(p) /\ p \in Links
  BY <1>1, WaitingLink, LinkKinds DEF IInv, Talk
<1>4. /\ cpc'[p] = label /\ seen'[p] = (IF label = "wait" THEN seen[p] \cup {m} ELSE {})
      /\ \A q \in Procs \ {p} :
               /\ cpc'[q] = cpc[q] /\ cmd'[q] = cmd[q] /\ task'[q] = task[q]
               /\ seen'[q] = seen[q] /\ sock'[q] = sock[q]
      /\ DOMAIN cpc' = Procs /\ DOMAIN cmd' = Procs /\ DOMAIN task' = Procs
      /\ DOMAIN seen' = Procs /\ DOMAIN sock' = Procs /\ DOMAIN req' = Links
      /\ copen' \in [Links -> BOOLEAN]
  BY <1>2 DEF IInv, ThreadType
<1>5. /\ k \in {p, sock[p]} /\ DOMAIN rep' = Links
      /\ rep'[k] = Tail(rep[k]) /\ \A j \in Links : j # k => rep'[j] = rep[j]
  BY <1>2, <1>3 DEF WaitsOn, IInv, ThreadType
<1>6. \A j \in Links : th[j] = "none" => rep'[j] = <<>>
  BY <1>1, <1>5 DEF IInv, LinkInv
<1>7. Ends(p, m) <=> EndsAfter(cmd[p], seen[p], m)
  BY WaitingLink
<1>8. \A j \in Links : (Served(j)' <=> Served(j)) /\ (Has(j)' <=> Has(j))
  BY DEF Served, Has
<1>9. LinksOpen(p)'
  <2>1. label = "write" => sock[p] \in Conns
    BY <1>3 DEF WaitsOn, NsRequests, NsKinds
  <2>2. label \in {"prompt", "connect"} => sock[p] \notin Conns
    BY <1>3, LinkKinds DEF WaitsOn, SsRequests
  <2>3. label \in {"wait", "prompt", "connect", "write"}
    OBVIOUS
  <2>4. label = "connect" => cmd[p] = "loc"
    OBVIOUS
  <2> QED BY <1>2, <1>3, <1>4, <2>1, <2>2, <2>3, <2>4 DEF LinksOpen, Programs
<1>10. CASE label = "wait"
  <2>1. Conversation(p, k)'
    <3>1. SUFFICES ASSUME Served(k) PROVE Answered(p, k)'
      BY <1>8 DEF Conversation
    <3>2. /\ Answered(p, k) /\ Tail(rep[k]) \in Seq(Types)
          /\ Complete(cmd[p], seen[p] \cup {m}, Tail(rep[k]) \o out[k])
          /\ Last(Tail(rep[k]) \o out[k]) = Last(rep[k] \o out[k])
      BY <1>1, <1>3, <1>7, <1>10, <3>1, MessageRead
    <3> QED BY <1>2, <1>4, <1>5, <1>8, <1>10, <3>2 DEF Answered
  <2>2. WaitsOn(p, k)'
    BY <1>2, <1>3, <1>4, <1>10 DEF WaitsOn
  <2>3. sock[p] \in Conns => Idle(p)'
    <3>1. SUFFICES ASSUME sock[p] \in Conns PROVE Idle(p)'
      OBVIOUS
    <3>2. k # p /\ Idle(p)
      BY <1>3, <3>1, LinkKinds DEF WaitsOn, Talk
    <3> QED BY <1>2, <1>3, <1>5, <3>2 DEF Idle, Served
  <2>4. Talk(p)'
    BY <1>2, <1>4, <1>9, <1>10, <2>1, <2>2, <2>3 DEF Talk
  <2> QED BY <1>2, <1>4, <1>5, <1>6, <1>10, <2>4, ClientStep
<1>11. CASE label # "wait"
  <2>1. Idle(k)' /\ (label = "write" /\ Served(k) => Has(k))
    <3>1. SUFFICES ASSUME Served(k)
                   PROVE  /\ th[k] = "serve" /\ req[k] = <<>> /\ rep'[k] = <<>> /\ out[k] = <<>>
                          /\ label = "write" => Has(k)
      BY <1>2, <1>8 DEF Idle
    <3>2. /\ Tail(rep[k]) = <<>> /\ out[k] = <<>> /\ req[k] = <<>>
          /\ th[k] = "serve" \/ (th[k] = "refuse" /\ cmd[p] = "hello" /\ m = "ERR")
          /\ Keeps(cmd[p], m) => Has(k)
      BY <1>1, <1>3, <1>7, <1>11, <3>1, MessageRead
    <3>3. ~(cmd[p] = "hello" /\ m = "ERR") /\ (label = "write" => Keeps(cmd[p], m))
      BY <1>11
    <3> QED BY <1>5, <3>2, <3>3
  <2>2. k # p => Idle(p)'
    <3>1. SUFFICES ASSUME k # p PROVE Idle(p)'
      OBVIOUS
    <3>2. Idle(p) /\ rep'[p] = rep[p]
      BY <1>3, <1>5, <3>1 DEF WaitsOn, Talk
    <3> QED BY <1>2, <3>2 DEF Idle, Served
  <2>3. label = "write" => k = sock[p]
    BY <1>3 DEF WaitsOn, NsRequests, NsKinds
  <2>4. Idle(p)'
    BY <2>1, <2>2
  <2>5. cpc'[p] = "write" => Idle(sock[p])' /\ (Served(sock[p])' => Has(sock[p])')
    BY <1>2, <1>4, <1>8, <2>1, <2>3
  <2>6. Talk(p)'
    BY <1>4, <1>9, <1>11, <2>4, <2>5 DEF Talk
  <2> QED BY <1>2, <1>4, <1>5, <1>6, <1>11, <2>6, ClientStep
<1> QED BY <1>10, <1>11

\* The client reads one message.
LEMMA ReadResponseKeeps ==
    ASSUME IInv, NEW p \in Procs, client_read_response(p)
    PROVE  IInv'
<1>1. PICK m : m = Head(rep[Link(p)])
  OBVIOUS
<1>2. /\ cpc[p] = "wait" /\ rep[Link(p)] # <<>>
      /\ UNCHANGED <<th, out, sessions, fd, fds, file, connected>>
  BY DEF client_read_response, tables
<1>3. \/ ~Ends(p, m) /\ GoOn(p, "wait", m)
      \/ Ends(p, m) /\ cmd[p] = "hello" /\ m = "OK" /\ GoOn(p, "prompt", m)
      \/ Exit(p)
      \/ Ends(p, m) /\ cmd[p] = "loc" /\ GoOn(p, "connect", m)
      \/ /\ Ends(p, m) /\ cmd[p] \in {"lock", "data", "etirw"} /\ Keeps(cmd[p], m)
         /\ GoOn(p, "write", m)
      \/ Ends(p, m) /\ cmd[p] # "hello" /\ Finish(p)
  BY <1>1 DEF client_read_response, Keeps, NsKinds
<1>4. CASE \/ ~Ends(p, m) /\ GoOn(p, "wait", m)
           \/ Ends(p, m) /\ cmd[p] = "hello" /\ m = "OK" /\ GoOn(p, "prompt", m)
           \/ Ends(p, m) /\ cmd[p] = "loc" /\ GoOn(p, "connect", m)
           \/ /\ Ends(p, m) /\ cmd[p] \in {"lock", "data", "etirw"} /\ Keeps(cmd[p], m)
              /\ GoOn(p, "write", m)
  BY <1>1, <1>2, <1>4, GoOnKeeps
<1>5. CASE Exit(p)
  BY <1>2, <1>5, ExitKeeps
<1>6. CASE Ends(p, m) /\ cmd[p] # "hello" /\ Finish(p)
  BY <1>1, <1>2, <1>6, FinishKeeps
<1> QED BY <1>3, <1>4, <1>5, <1>6

\* The program starts, or finds no name server.
LEMMA ConnectKeeps ==
    ASSUME IInv, NEW p \in Procs, client_connect_to_ns(p)
    PROVE  IInv'
<1>1. /\ cpc[p] = "off"
      /\ \/ /\ cpc' = [cpc EXCEPT ![p] = "wait"] /\ copen' = [copen EXCEPT ![p] = TRUE]
            /\ req' = [req EXCEPT ![p] = <<"hello">>] /\ th' = [th EXCEPT ![p] = "hello"]
         \/ cpc' = [cpc EXCEPT ![p] = "dead"] /\ UNCHANGED <<copen, req, th>>
      /\ UNCHANGED <<cmd, task, seen, sock, rep, out, fd, fds, file, sessions, connected>>
  BY DEF client_connect_to_ns, tables
<1>2. /\ p \in Links /\ Talk(p) /\ LinksOpen(p)
      /\ sock[p] = NoConn /\ th[p] = "none" /\ cmd[p] = "hello" /\ seen[p] = {} /\ ~copen[p]
      /\ rep[p] = <<>> /\ out[p] = <<>>
  BY <1>1, LinkKinds DEF IInv, Talk, LinksOpen, LinkInv, Served
<1>3. NoConn \notin Conns
  BY LinkKinds
<1>4. CASE cpc' = [cpc EXCEPT ![p] = "dead"] /\ UNCHANGED <<copen, req, th>>
  <2>1. /\ cpc'[p] = "dead" /\ DOMAIN cpc' = Procs
        /\ \A q \in Procs \ {p} : cpc'[q] = cpc[q]
    BY <1>4 DEF IInv, ThreadType
  <2>2. Talk(p)'
    BY <1>1, <1>2, <1>3, <1>4, <2>1 DEF Talk, LinksOpen, Programs
  <2>3. /\ DOMAIN cmd' = Procs /\ DOMAIN task' = Procs
        /\ DOMAIN seen' = Procs /\ DOMAIN sock' = Procs
        /\ copen' \in [Links -> BOOLEAN] /\ DOMAIN req' = Links /\ DOMAIN rep' = Links
    BY <1>1, <1>4 DEF IInv, ThreadType
  <2>4. \A k \in Links : th[k] = "none" => rep'[k] = <<>>
    BY <1>1 DEF IInv, LinkInv
  <2> QED BY <1>1, <1>4, <2>1, <2>2, <2>3, <2>4, ClientStep
<1>5. CASE /\ cpc' = [cpc EXCEPT ![p] = "wait"] /\ copen' = [copen EXCEPT ![p] = TRUE]
           /\ req' = [req EXCEPT ![p] = <<"hello">>] /\ th' = [th EXCEPT ![p] = "hello"]
  <2>1. /\ cpc'[p] = "wait" /\ \A q \in Procs \ {p} : cpc'[q] = cpc[q]
        /\ copen'[p] /\ req'[p] = <<"hello">> /\ th'[p] = "hello"
        /\ \A k \in Links \ {p} : copen'[k] = copen[k] /\ req'[k] = req[k] /\ th'[k] = th[k]
    BY <1>2, <1>5 DEF IInv, ThreadType
  <2>2. ThreadType'
    <3>1. copen' \in [Links -> BOOLEAN]
      BY <1>5 DEF IInv, ThreadType
    <3>2. /\ DOMAIN cpc' = Procs /\ DOMAIN req' = Links /\ DOMAIN th' = Links
          /\ \A q \in Procs : th'[q] \in {"none", "hello", "refuse", "serve", "send", "closed"}
      BY <1>5, <2>1, LinkKinds DEF IInv, ThreadType
    <3> QED BY <1>1, <3>1, <3>2 DEF IInv, ThreadType
  <2>3. OnlineInv'
    <3>1. \A q \in Procs : Serving(q)' <=> Serving(q)
      BY <1>2, <2>1, LinkKinds DEF Serving
    <3>2. \A q \in Procs : cpc'[q] = "off" => th'[q] = "none"
      BY <2>1, LinkKinds DEF IInv, OnlineInv
    <3> QED BY <1>1, <3>1, <3>2 DEF IInv, OnlineInv
  <2>4. SessionInv' /\ \A c : Has(c)' <=> Has(c)
    BY <1>1, <1>5, NsThread
  <2>5. LinkInv'
    BY <1>1, <2>1 DEF IInv, LinkInv, Served
  <2>6. Talk(p)'
    <3>1. Asked(p, p)'
      BY <1>1, <1>2, <2>1 DEF Asked, Reads
    <3>2. WaitsOn(p, p)' /\ Conversation(p, p)'
      BY <1>1, <1>2, <2>1, <3>1 DEF WaitsOn, Conversation, NsRequests
    <3>3. LinksOpen(p)'
      BY <1>1, <1>2, <1>3, <2>1 DEF LinksOpen, Programs
    <3> QED BY <1>1, <1>2, <1>3, <2>1, <3>2, <3>3 DEF Talk
  <2>7. ASSUME NEW q \in Procs, q # p PROVE Talk(q)'
    <3>1. Talk(q) /\ LinksOpen(q)
      BY DEF IInv, Talk
    <3>2. \A k \in Links : k \in {q, sock[q]} => k # p
      BY <2>7, <3>1, LinkKinds DEF LinksOpen
    <3> QED BY <1>1, <2>1, <2>4, <2>7, <3>1, <3>2, TalkSame
  <2> QED BY <2>2, <2>3, <2>4, <2>5, <2>6, <2>7 DEF IInv
<1> QED BY <1>1, <1>4, <1>5

\* A connection to the storage server gets a descriptor that no running thread has.
LEMMA StorageKeeps ==
    ASSUME IInv, NEW p \in Procs, client_connect_to_storage(p)
    PROVE  IInv'
<1>1. cpc[p] = "connect" /\ UNCHANGED <<task, rep, out, sessions, connected>>
  BY DEF client_connect_to_storage
<1>2. /\ Talk(p) /\ LinksOpen(p) /\ p \in Links /\ Idle(p) /\ copen[p]
      /\ sock[p] = NoConn /\ NoConn \notin Conns /\ task[p] \in SsKinds \X Files
  BY <1>1, LinkKinds DEF IInv, Talk, LinksOpen
<1>3. CASE "ss" \notin up
  <2>1. /\ cpc' = [cpc EXCEPT ![p] = "prompt"]
        /\ UNCHANGED <<cmd, seen, sock, copen, req, th, fd, fds, file>>
    BY <1>3 DEF client_connect_to_storage
  <2>2. /\ cpc'[p] = "prompt" /\ DOMAIN cpc' = Procs
        /\ \A q \in Procs \ {p} : cpc'[q] = cpc[q]
    BY <2>1 DEF IInv, ThreadType
  <2>3. Idle(p)'
    BY <1>1, <1>2, <2>1 DEF Idle, Served
  <2>4. LinksOpen(p)'
    BY <1>1, <1>2, <2>1, <2>2 DEF LinksOpen, Programs
  <2>5. Talk(p)'
    BY <1>1, <1>2, <2>1, <2>2, <2>3, <2>4 DEF Talk
  <2>6. /\ DOMAIN cmd' = Procs /\ DOMAIN task' = Procs
        /\ DOMAIN seen' = Procs /\ DOMAIN sock' = Procs
        /\ copen' \in [Links -> BOOLEAN] /\ DOMAIN req' = Links /\ DOMAIN rep' = Links
        /\ \A k \in Links : th[k] = "none" => rep'[k] = <<>>
    BY <1>1, <2>1 DEF IInv, ThreadType, LinkInv
  <2> QED BY <1>1, <2>1, <2>2, <2>5, <2>6, ClientStep
<1>4. CASE "ss" \in up
  <2>1. PICK r : r = FirstRequest(task[p][1])
    OBVIOUS
  <2>2. PICK c \in Unused, n \in LowestFree :
            /\ sock' = [sock EXCEPT ![p] = c] /\ copen' = [copen EXCEPT ![c] = TRUE]
            /\ req' = [req EXCEPT ![c] = <<r>>] /\ th' = [th EXCEPT ![c] = "serve"]
            /\ fd' = [fd EXCEPT ![c] = n] /\ fds' = fds \cup {n}
            /\ file' = [file EXCEPT ![c] = task[p][2]]
    BY <1>4, <2>1 DEF client_connect_to_storage
  <2>3. /\ cpc' = [cpc EXCEPT ![p] = "wait"] /\ cmd' = [cmd EXCEPT ![p] = r]
        /\ seen' = [seen EXCEPT ![p] = {}]
    BY <1>4, <2>1 DEF client_connect_to_storage
  <2>4. /\ r \in {"read", "stream", "whole", "lock"} /\ task[p][2] \in Files
        /\ c \in Conns /\ th[c] = "none" /\ n \in Conns /\ n \notin fds
        /\ c \in Links /\ c # p
    BY <1>2, <2>1, LinkKinds DEF SsKinds, FirstRequest, Unused, LowestFree
  <2>5. /\ rep[c] = <<>> /\ out[c] = <<>> /\ ~Served(c)
    BY <2>4 DEF IInv, LinkInv, Served
  <2>6. /\ cpc'[p] = "wait" /\ cmd'[p] = r /\ seen'[p] = {} /\ sock'[p] = c
        /\ \A q \in Procs \ {p} :
              cpc'[q] = cpc[q] /\ cmd'[q] = cmd[q] /\ seen'[q] = seen[q] /\ sock'[q] = sock[q]
    BY <2>2, <2>3 DEF IInv, ThreadType
  <2>7. /\ copen'[c] /\ req'[c] = <<r>> /\ th'[c] = "serve"
        /\ \A k \in Links \ {c} : copen'[k] = copen[k] /\ req'[k] = req[k] /\ th'[k] = th[k]
    BY <2>2, <2>4 DEF IInv, ThreadType
  <2>8. /\ fd'[c] = n /\ file'[c] = task[p][2]
        /\ \A d \in Conns \ {c} : fd'[d] = fd[d] /\ file'[d] = file[d]
    BY <2>2, <2>4 DEF IInv, ThreadType
  <2>9. ThreadType'
    <3>1. copen' \in [Links -> BOOLEAN]
      BY <2>2 DEF IInv, ThreadType
    <3>2. /\ DOMAIN cpc' = Procs /\ DOMAIN cmd' = Procs /\ DOMAIN seen' = Procs
          /\ DOMAIN sock' = Procs /\ DOMAIN req' = Links /\ DOMAIN th' = Links
          /\ DOMAIN fd' = Conns /\ DOMAIN file' = Conns
      BY <2>2, <2>3 DEF IInv, ThreadType
    <3>3. \A q \in Procs : th'[q] \in {"none", "hello", "refuse", "serve", "send", "closed"}
      BY <2>4, <2>7, LinkKinds DEF IInv, ThreadType
    <3> QED BY <1>1, <3>1, <3>2, <3>3 DEF IInv, ThreadType
  <2>10. OnlineInv'
    <3>1. \A q \in Procs : th'[q] = th[q]
      BY <2>4, <2>7, LinkKinds
    <3>2. \A q \in Procs : Serving(q)' <=> Serving(q)
      BY <3>1 DEF Serving
    <3>3. \A q \in Procs : cpc'[q] = "off" => cpc[q] = "off"
      BY <2>6
    <3> QED BY <1>1, <3>1, <3>2, <3>3, OnlineSame DEF IInv
  <2>11. SessionInv' /\ \A d : Has(d)' <=> Has(d)
    <3>1. /\ Served(c)' /\ \A d \in Conns \ {c} : Served(d)' <=> Served(d)
      BY <2>7, LinkKinds DEF Served
    <3>2. \A s \in sessions : s.conn \in Conns /\ s.conn # c /\ s.conn \in Links
      BY <2>5, LinkKinds DEF IInv, SessionInv, Session
    <3>3. \A s \in sessions : /\ Served(s.conn)' /\ th'[s.conn] # "close"
                              /\ s.fd = fd'[s.conn] /\ s.file = file'[s.conn]
      BY <2>7, <2>8, <3>1, <3>2 DEF IInv, SessionInv
    <3>4. \A d \in Conns : Served(d)' => fd'[d] \in fds' /\ fd'[d] \in Conns /\ file'[d] \in Files
      BY <2>2, <2>4, <2>8, <3>1 DEF IInv, SessionInv
    <3>5. \A d, e \in Conns : Served(d)' /\ Served(e)' /\ fd'[d] = fd'[e] => d = e
      BY <2>4, <2>8, <3>1 DEF IInv, SessionInv
    <3>6. SessionInv'
      BY <1>1, <3>3, <3>4, <3>5 DEF IInv, SessionInv
    <3> QED BY <1>1, <3>6 DEF Has
  <2>12. \A q \in Procs : sock[q] # c
    BY <2>4 DEF IInv, Talk, LinksOpen
  <2>13. LinkInv'
    BY <1>1, <1>2, <2>5, <2>6, <2>7, <2>12 DEF IInv, LinkInv, Served
  <2>14. Talk(p)'
    <3>1. Asked(p, c)'
      BY <1>1, <2>4, <2>5, <2>6, <2>7 DEF Asked, Reads
    <3>2. WaitsOn(p, c)' /\ Conversation(p, c)'
      BY <2>4, <2>6, <3>1 DEF WaitsOn, Conversation, SsRequests
    <3>3. LinksOpen(p)'
      BY <1>1, <1>2, <2>4, <2>6, <2>7 DEF LinksOpen, Programs
    <3>4. Idle(p)'
      BY <1>1, <1>2, <2>4, <2>7 DEF Idle, Served
    <3> QED BY <2>4, <2>6, <3>2, <3>3, <3>4 DEF Talk
  <2>15. ASSUME NEW q \in Procs, q # p PROVE Talk(q)'
    <3>1. Talk(q)
      BY DEF IInv
    <3>2. \A k \in Links : k \in {q, sock[q]} => k # c
      BY <2>4, <2>12, LinkKinds
    <3> QED BY <1>1, <2>6, <2>7, <2>11, <2>15, <3>1, <3>2, TalkSame
  <2> QED BY <2>9, <2>10, <2>11, <2>13, <2>14, <2>15 DEF IInv
<1> QED BY <1>3, <1>4

\* The other steps of a program.
LEMMA UserKeeps ==
    ASSUME IInv, NEW p \in Procs,
           \/ \E kind \in Kinds[p], f \in Files : client_process_command(p, kind, f)
           \/ \E r \in {"data", "etirw"} : client_handle_write(p, r)
           \/ ConnectionLost(p) \/ client_cleanup(p)
    PROVE  IInv'
<1>1. Talk(p) /\ LinksOpen(p) /\ p \in Links
  BY LinkKinds DEF IInv, Talk
<1>2. ASSUME NEW kind \in Kinds[p], NEW f \in Files, client_process_command(p, kind, f)
      PROVE  IInv'
  <2>1. PICK r, t : /\ r = IF kind \in NsKinds THEN kind ELSE "loc"
                    /\ t = IF kind \in NsKinds THEN <<>> ELSE <<kind, f>>
    OBVIOUS
  <2>2. /\ cpc[p] = "prompt" /\ Ask(p, p, r, t)
        /\ UNCHANGED <<th, out, sessions, fd, fds, file, connected>>
    BY <1>2, <2>1 DEF client_process_command, tables
  <2>3. kind \in NsKinds \cup SsKinds
    BY ClientServerAssumption
  <2>4. r \in NsRequests \ {"hello"} /\ (r = "loc" => t \in SsKinds \X Files)
    BY <2>1, <2>3 DEF NsRequests, NsKinds
  <2>5. Idle(p) /\ sock[p] = NoConn
    BY <1>1, <2>2 DEF Talk, LinksOpen
  <2> QED BY <1>1, <2>2, <2>4, <2>5, AskKeeps
<1>3. ASSUME NEW r \in {"data", "etirw"}, client_handle_write(p, r) PROVE IInv'
  <2>1. /\ cpc[p] = "write" /\ Ask(p, sock[p], r, task[p])
        /\ UNCHANGED <<th, out, sessions, fd, fds, file, connected>>
    BY <1>3 DEF client_handle_write, tables
  <2>2. sock[p] \in Conns /\ sock[p] \in Links /\ Idle(sock[p])
    BY <1>1, <2>1, LinkKinds DEF Talk, LinksOpen
  <2> QED BY <2>1, <2>2, AskKeeps
<1>4. CASE ConnectionLost(p)
  <2>1. /\ cpc[p] = "wait" /\ ~Served(Link(p))
        /\ Exit(p) \/ (cmd[p] # "hello" /\ Finish(p))
        /\ UNCHANGED <<th, out, sessions, fd, fds, file, connected>>
    BY <1>4 DEF ConnectionLost, tables
  <2>2. CASE Exit(p)
    BY <2>1, <2>2, ExitKeeps
  <2>3. CASE cmd[p] # "hello" /\ Finish(p)
    BY <2>1, <2>3, FinishKeeps
  <2> QED BY <2>1, <2>2, <2>3
<1>5. CASE client_cleanup(p)
  <2>1. /\ cpc[p] # "off" /\ Exit(p)
        /\ UNCHANGED <<th, out, sessions, fd, fds, file, connected>>
    BY <1>5 DEF client_cleanup, tables
  <2> QED BY <2>1, ExitKeeps
<1> QED BY <1>2, <1>3, <1>4, <1>5

-----------------------------------------------------------------------------

\* At first no program runs.
LEMMA IInvInit == Init => IInv
<1> SUFFICES ASSUME Init PROVE IInv
  OBVIOUS
<1>1. ThreadType
  BY LinkKinds DEF Init, ThreadType
<1>2. \A k \in Links : ~Served(k) /\ th[k] = "none"
  BY DEF Init, Served
<1>3. OnlineInv
  BY <1>2, LinkKinds DEF Init, OnlineInv, Serving
<1>4. SessionInv
  BY <1>2, LinkKinds DEF Init, SessionInv
<1>5. LinkInv
  BY LinkKinds DEF Init, LinkInv
<1>6. ASSUME NEW p \in Procs PROVE Talk(p)
  <2>1. /\ cpc[p] = "off" /\ cmd[p] = "hello" /\ seen[p] = {} /\ sock[p] = NoConn
        /\ ~copen[p] /\ th[p] = "none" /\ NoConn \notin Conns
    BY LinkKinds DEF Init
  <2> QED BY <2>1 DEF Talk, LinksOpen, Programs
<1> QED BY <1>1, <1>3, <1>4, <1>5, <1>6 DEF IInv

\* Every step keeps the invariant.
LEMMA IInvStep == IInv /\ [Next]_vars => IInv'
<1> SUFFICES ASSUME IInv, [Next]_vars PROVE IInv'
  OBVIOUS
<1>1. ASSUME NEW p \in Procs, ClientSteps(p) PROVE IInv'
  BY <1>1, StorageKeeps, ReadResponseKeeps, UserKeeps DEF ClientSteps
<1>2. ASSUME NEW p \in Procs, NsSteps(p) PROVE IInv'
  BY <1>2, RegisterKeeps, NsCommandKeeps, ConnectionEndKeeps DEF NsSteps
<1>3. ASSUME NEW c \in Conns, SsSteps(c) PROVE IInv'
  BY <1>3, FindKeeps, EnterKeeps, WriteDataKeeps, EtirwKeeps, LastStepsKeep DEF SsSteps
<1>4. ASSUME NEW k \in Links, protocol_send_message(k) PROVE IInv'
  BY <1>4, SendKeeps
<1>5. ASSUME NEW p \in Procs, UserSteps(p) PROVE IInv'
  BY <1>5, ConnectKeeps, UserKeeps DEF UserSteps
<1>6. ASSUME NEW k \in Links, SigPipe(k) PROVE IInv'
  BY <1>6, DownKeeps DEF SigPipe, Server
<1>7. ASSUME NEW s \in Stops, Stop(s) PROVE IInv'
  BY <1>7, DownKeeps, ClientServerAssumption DEF Stop
<1>8. CASE UNCHANGED vars
  <2>1. UNCHANGED <<cpc, cmd, task, seen, sock, copen, req, rep, th, out, fd, fds, file,
                    sessions, connected>>
    BY <1>8 DEF vars, client, wire, tables
  <2>2. ThreadType' /\ LinkInv'
    BY <2>1 DEF IInv, ThreadType, LinkInv, Served
  <2>3. OnlineInv'
    BY <2>1 DEF IInv, OnlineInv, Serving
  <2>4. SessionInv' /\ \A c : Has(c)' <=> Has(c)
    BY <2>1 DEF IInv, SessionInv, Served, Has
  <2>5. ASSUME NEW p \in Procs PROVE Talk(p)'
    BY <2>1, <2>4, TalkSame DEF IInv
  <2> QED BY <2>2, <2>3, <2>4, <2>5 DEF IInv
<1> QED BY <1>1, <1>2, <1>3, <1>4, <1>5, <1>6, <1>7, <1>8 DEF Next, SystemStep

\* The invariant holds throughout.
LEMMA IInvAlways == Spec => []IInv
BY IInvInit, IInvStep, PTL DEF Spec

\* Client and server agree where an answer ends (client_read_response against
\* run_client_loop and the storage server's handlers): whenever a program asks its
\* user for input nothing of an earlier answer is under way.  For any number of
\* programs, connections and files, any length of the listings and any socket buffer.
THEOREM AnswersInStep == Spec => []InStep
<1>1. IInv => InStep
  BY DEF IInv, Talk, Idle, InStep, Quiet
<1> QED BY IInvAlways, <1>1, PTL

\* A user is online exactly while one thread of the name server serves the name
\* (ns_register_client, connection_thread).
THEOREM OnlineExactly == Spec => []OnlineIsServed
<1>1. IInv => OnlineIsServed
  <2> SUFFICES ASSUME IInv, NEW u \in Users
               PROVE  LET serving == {p \in Procs : /\ UserOf[p] = u
                                         /\ th[p] \notin {"none", "hello", "refuse", "closed"}}
                      IN  Cardinality(serving) = IF connected[u] THEN 1 ELSE 0
    BY DEF OnlineIsServed
  <2> DEFINE serving == {p \in Procs : UserOf[p] = u
                                /\ th[p] \notin {"none", "hello", "refuse", "closed"}}
  <2>1. \A p \in Procs : Serving(p) <=> th[p] \notin {"none", "hello", "refuse", "closed"}
    BY DEF IInv, ThreadType, Serving
  <2>2. CASE connected[u]
    <3>1. PICK p \in Procs : UserOf[p] = u /\ Serving(p)
      BY <2>2 DEF IInv, OnlineInv
    <3>2. serving = {p}
      BY <2>1, <3>1 DEF IInv, OnlineInv
    <3> QED BY <2>2, <3>2, FS_Singleton
  <2>3. CASE ~connected[u]
    <3>1. serving = {}
      BY <2>1, <2>3 DEF IInv, OnlineInv
    <3> QED BY <2>3, <3>1, FS_EmptySet
  <2> QED BY <2>2, <2>3
<1> QED BY IInvAlways, <1>1, PTL

\* A client at the write> prompt has the session it was given, alone on its sentence,
\* although sessions are found by descriptor and descriptors are used again
\* (client_thread, ss_abort_session).
THEOREM WriterKeepsSession == Spec => []WriterHasSession
<1>1. IInv => WriterHasSession
  <2> SUFFICES ASSUME IInv, NEW p \in Procs, cpc[p] = "write", Served(sock[p])
               PROVE  \E s \in sessions : /\ s.conn = sock[p]
                                          /\ \A t \in sessions : t.file = s.file => t = s
    BY DEF WriterHasSession
  <2>1. Has(sock[p])
    BY DEF IInv, Talk
  <2>2. PICK s \in sessions : s.conn = sock[p]
    BY <2>1 DEF Has
  <2> QED BY <2>2 DEF IInv, SessionInv
<1> QED BY IInvAlways, <1>1, PTL

=============================================================================
