---------------------------- MODULE SsFileStore_inv ----------------------------
\* The invariants of SsFileStore that hold whatever the names, the clients and the
\* clock: IInv, what keeps records, sidecars and texts together, and PInv, what
\* makes the promises of finished requests come true.  Each is a conjunction of
\* named parts.
EXTENDS SsFileStore

\* Two names never share a file.
NamesApart ==
    /\ \A n \in Names : Range(n) \cap {".meta", ".undo", ".copytmp", ".ckpt_"} = {}
    /\ \A n, k \in Names : filepath(n) = filepath(k) => n = k

-----------------------------------------------------------------------------
(* Types *)

Token ==
    {"/", "_", ".meta", ".undo", ".copytmp", ".ckpt_"} \cup Range(Clock)
        \cup UNION {Range(n) : n \in Names}
FlatPath == {p \in Seq(Token) : p # <<>> /\ "/" \notin Range(p)}
IsMeta(p) == p[Len(p)] = ".meta"
CkptPath == {p \in Seq(Token) : ".ckpt_" \in Range(p) /\ ~IsMeta(p)}

TextFile == [text : Texts \cup {NoText}]
FileRecord ==
    [filename : Seq(Token), owner : Owners \cup {NoUser}, acl : SUBSET Readers,
     undo_available : BOOLEAN, checkpoints : Seq([tag : Tags, filepath : CkptPath])]
Sidecar == {q \in FileRecord : q.filename # <<>>}

Creates == [do : {"create"}, filename : Names, owner : Owners]
Deletes == [do : {"delete"}, filename : Names]
Change ==
    [do : {"open", "unlink"}, path : Seq(Token)]
        \cup [do : {"close"}, path : Seq(Token), content : TextFile \cup Sidecar]
        \cup [do : {"rename"}, path : Seq(Token), to : Seq(Token), must : BOOLEAN]
        \cup [do : {"memory"}, record : Sidecar]

\* A disk on which records and texts are not mixed up.
Tidy(d) ==
    /\ DOMAIN d \subseteq FlatPath
    /\ \A p \in DOMAIN d : d[p] \in IF IsMeta(p) THEN Sidecar \cup {Empty} ELSE TextFile

Types ==
    /\ Tidy(disk)
    /\ now \in Nat
    /\ files \subseteq Recs
    /\ rec \in [Recs -> FileRecord]
    /\ file_lock \in [Recs -> Threads \cup {NoThread}]
    /\ files_lock \in Threads \cup {NoThread}
    /\ DOMAIN op = Threads
    /\ \A c \in Clients : op[c] \in Requests \cup {NoOp}
    /\ op[NS] \in Commands \cup Creates \cup Deletes \cup {NoOp}
    /\ on \in [Threads -> Recs \cup {NoRec}]
    /\ todo \in [Threads -> Seq(Change)]
    /\ ok \in [Threads -> BOOLEAN]
    /\ touch \in [Threads -> SUBSET Seq(Token)]
    /\ lost \subseteq Seq(Token)
    /\ DOMAIN texts \subseteq DOMAIN docs /\ DOMAIN docs \subseteq Names

-----------------------------------------------------------------------------
(* Threads and records *)

Busy(t) == op[t] # NoOp
Locking(t) == Busy(t) /\ op[t].do \notin {"create", "delete"}
Working(t) == touch[t] # {}

\* Names of which the directory tells what the answers said: no request on them
\* was cut short, or one that changed the content only.
Good(n) == n \in Names /\ (n \notin lost \/ n \in DOMAIN texts)

Handler(t) ==
    /\ ~Busy(t) => on[t] = NoRec /\ touch[t] = {}
    /\ Busy(t) => on[t] \in Recs
    /\ touch[t] = {} \/ ~ok[t] => todo[t] = <<>>
    /\ Working(t) /\ Locking(t) => file_lock[on[t]] = t
    /\ ~Working(t) /\ Busy(t) =>
          /\ Locking(t)
          /\ op[t].do # "write" => files_lock = t
          /\ op[t].do = "checkpoint" => now < Len(Clock)
    /\ Busy(t) /\ ~Locking(t) => ok[t] /\ files_lock = t /\ touch[t] = {op[t].filename}
Handlers == \A t \in Threads : Handler(t)

Own(t) == touch[t] \cap Names

\* The record of a handler and the names it may change; after DELETE, only names
\* of which nothing is known.
RecordOf(t) ==
    LET q == rec[on[t]]
    IN  IF on[t] \in files
        THEN /\ q.filename \in Names
             /\ Working(t) /\ op[t].do # "rename" => Own(t) = {q.filename}
        ELSE /\ t # NS /\ q.filename = <<>> /\ ~q.undo_available
             /\ \A k \in Own(t) : ~Good(k)
Records == \A t \in Threads : Locking(t) => RecordOf(t)

FilesOf(N) ==
    UNION {{filepath(n), metapath(n), undopath(n), temp_path(n)} : n \in N}

\* What a handler that works on the names N may still do.
Proper(e, N) ==
    /\ e.do # "memory" =>
          e.path \in FilesOf(N) \cup CkptPath
    /\ e.do \in {"open", "close"} => e.path \in FlatPath
    /\ e.do = "close" =>
          IF IsMeta(e.path)
          THEN /\ e.content \in Sidecar /\ e.content.filename \in N
               /\ e.path = metapath(e.content.filename)
          ELSE e.content \in TextFile
    /\ e.do = "rename" => \E n \in N : e = Rename(temp_path(n), filepath(n), TRUE)
    /\ e.do = "memory" => e.record.filename \in N

Planned(t, e) ==
    /\ op[t].do # "rename" => Proper(e, Own(t))
    /\ op[t].do = "create" => e.do \in {"open", "close"}
    /\ op[t].do = "delete" => e.do = "unlink"
Confined == \A t \in Threads : \A e \in Range(todo[t]) : Planned(t, e)

-----------------------------------------------------------------------------
(* Names *)

\* The sidecar of the file that is being renamed lies under the new name until it
\* is written again.
Between(m, p) ==
    /\ Busy(NS) /\ op[NS].do = "rename" /\ Len(todo[NS]) \in 2..4
    /\ m \in touch[NS] /\ p = metapath(op[NS].to)

\* A sidecar lies next to the content file of the name in it.
Sidecars ==
    \A p \in DOMAIN disk :
        IsMeta(p) /\ disk[p] # Empty /\ Good(disk[p].filename) =>
            p = metapath(disk[p].filename) \/ Between(disk[p].filename, p)

Unique ==
    \A r, s \in files :
        rec[r].filename = rec[s].filename /\ Good(rec[r].filename) => r = s

Creating ==
    Busy(NS) /\ op[NS].do = "create" =>
        /\ op[NS].filename \notin DOMAIN docs
        /\ \A r \in files : rec[r].filename # op[NS].filename
        /\ on[NS] \notin files
        /\ \A t \in Clients : on[t] # on[NS]

Deleting ==
    Busy(NS) /\ op[NS].do = "delete" =>
        LET n == op[NS].filename
        IN  /\ on[NS] \in files /\ rec[on[NS]].filename = n
            /\ n \notin DOMAIN texts
            /\ \A t \in Clients : on[t] = on[NS] =>
                  \A k \in Own(t) \cup {n} : ~Good(k)

RenamePlan(n, b, q) ==
    <<Rename(filepath(n), filepath(b), TRUE), Rename(metapath(n), metapath(b), FALSE),
      Rename(undopath(n), undopath(b), FALSE), Memory(q), Open(metapath(b)),
      Close(metapath(b), q)>>
RenameRest(n, b, q, k) == SubSeq(RenamePlan(n, b, q), k + 1, 6)

Renaming ==
    Busy(NS) /\ op[NS].do = "rename" =>
        LET b == op[NS].to
            r == on[NS]
            q == [rec[r] EXCEPT !.filename = b]
        IN  /\ b \notin DOMAIN docs
            /\ r \in files
            /\ \A s \in files : rec[s].filename = b => s = r
            /\ ~Working(NS) => rec[r].filename # b
            /\ Working(NS) =>
                  \E n \in Names :
                      /\ touch[NS] = {n, b} /\ n # b /\ n \notin DOMAIN texts
                      /\ ~ok[NS] => rec[r].filename = n
                      /\ ok[NS] => \E k \in 0..6 :
                            /\ todo[NS] = RenameRest(n, b, q, k)
                            /\ rec[r].filename = IF k >= 4 THEN b ELSE n

-----------------------------------------------------------------------------
(* Texts *)

\* T is what a crash may leave of the text of n.
Kept(n, T) == Shown(filepath(n)) \in T
UndoKept(n, T) == Shown(undopath(n)) \in T

Leaves(e, p) == e.do # "memory" => e.path # p /\ (e.do = "rename" => e.to # p)
LeftBy(s, p) == \A e \in Range(s) : Leaves(e, p)

\* The undo snapshot is being written.
Saving(n, s, T) ==
    /\ Kept(n, T)
    /\ \E j \in {1, 2} :
          /\ j \in DOMAIN s /\ s[j].do = "close" /\ s[j].path = undopath(n)
          /\ s[j].content.text \in T
          /\ \A i \in DOMAIN s : IF i <= j THEN Leaves(s[i], filepath(n))
                                          ELSE Leaves(s[i], undopath(n))

\* The temporary file is being written, or is there to be renamed.
Copying(n, s, T) ==
    /\ Kept(n, T)
    /\ \E j \in DOMAIN s :
          /\ s[j] = Rename(temp_path(n), filepath(n), TRUE)
          /\ \A i \in DOMAIN s : i # j => Leaves(s[i], filepath(n))
          /\ IF j = 1
             THEN temp_path(n) \in DOMAIN disk /\ disk[temp_path(n)].text \in T
             ELSE /\ s[j - 1].do = "close" /\ s[j - 1].path = temp_path(n)
                  /\ s[j - 1].content.text \in T

Safe(n, s, T) ==
    \/ Kept(n, T) /\ LeftBy(s, filepath(n))
    \/ UndoKept(n, T) /\ LeftBy(s, undopath(n))
    \/ Saving(n, s, T)
    \/ Copying(n, s, T)

TextsSafe ==
    \A n \in DOMAIN texts :
        /\ Kept(n, texts[n]) \/ UndoKept(n, texts[n])
        /\ \A t \in Threads : n \in touch[t] => Safe(n, todo[t], texts[n])

IInv ==
    /\ Types /\ Handlers /\ Records /\ Confined /\ Sidecars /\ Unique
    /\ Creating /\ Deleting /\ Renaming /\ TextsSafe

\* Changes of the document n that leave the file x alone.
Quiet(s, n, x) == s \in Seq(Change) /\ \A e \in Range(s) : Proper(e, {n}) /\ Leaves(e, x)

\* A request that may be found: a client's, or a command of the name server.
Sent(t, o) ==
    /\ t \in Clients => o \in Requests
    /\ t = NS => o \in Commands
    /\ o.do = "checkpoint" => now < Len(Clock)
    /\ o.do = "rename" => o.to \notin DOMAIN docs /\ ss_find_file(o.to) = {}

\* What the end of the request t leaves, whatever the request.
Ended(t) ==
    /\ Busy(t) /\ Working(t) /\ todo[t] = <<>> /\ on[t] \in Recs
    /\ on' = [on EXCEPT ![t] = NoRec] /\ op' = [op EXCEPT ![t] = NoOp]
    /\ touch' = [touch EXCEPT ![t] = {}]
    /\ files_lock' = IF Locking(t) THEN files_lock ELSE NoThread
    /\ file_lock' = IF Locking(t) THEN [file_lock EXCEPT ![on[t]] = NoThread] ELSE file_lock
    /\ UNCHANGED <<disk, todo, ok, now>>
    /\ lost \subseteq lost' /\ lost' \subseteq Seq(Token)
    /\ \A u \in Threads : u # t =>
          /\ op'[u] = op[u] /\ on'[u] = on[u] /\ Own(u)' = Own(u)
          /\ Busy(u)' <=> Busy(u)
          /\ Locking(u)' <=> Locking(u)
          /\ Working(u)' <=> Working(u)

-----------------------------------------------------------------------------
(* Changes and plans *)

AfterChange(s) ==
    CASE s.do = "open" -> WithFile(disk, s.path, Empty)
      [] s.do = "close" -> WithFile(disk, s.path, s.content)
      [] s.do = "unlink" -> WithoutFile(disk, s.path)
      [] s.do = "rename" /\ ~(s.do = "rename" /\ s.path \notin DOMAIN disk) ->
            WithFile(WithoutFile(disk, s.path), s.to, disk[s.path])
      [] OTHER -> disk

\* A change that keeps sidecars and texts apart.
Orderly(s) ==
    /\ s.do \in {"open", "close"} => s.path \in FlatPath
    /\ s.do = "close" => s.content \in IF IsMeta(s.path) THEN Sidecar ELSE TextFile
    /\ s.do = "rename" => s.to \in FlatPath /\ (IsMeta(s.to) <=> IsMeta(s.path))

RenameShrinks(n, b, q, k) ==
    /\ Tail(RenameRest(n, b, q, k)) = RenameRest(n, b, q, k + 1)
    /\ Len(RenameRest(n, b, q, k)) = 6 - k
    /\ Len(RenameRest(n, b, q, k + 1)) = 5 - k

RenameStep(s, n, b, q, k) ==
    /\ Orderly(s)
    /\ \A p : p \notin FilesOf({n, b}) => Leaves(s, p)
    /\ s.do = "memory" <=> k = 3
    /\ k = 3 => s = Memory(q)
    /\ k = 0 => s.do = "rename" /\ s.path = filepath(n) /\ s.to = filepath(b)
    /\ k = 1 => s.do = "rename" /\ s.path = metapath(n) /\ s.to = metapath(b)
    /\ k = 2 => s.do = "rename" /\ s.path = undopath(n) /\ s.to = undopath(b)
    /\ k \in {1, 2} => ~s.must
    /\ k = 4 => s.do = "open" /\ s.path = metapath(b)
    /\ k = 5 => s.do = "close" /\ s.path = metapath(b) /\ s.content = q

-----------------------------------------------------------------------------
(* Records *)

\* Two listed records never have the same name, unless a request on that name was
\* cut short: the map from names to the files of ss_set_record_paths stays one to
\* one across CREATE, RENAME and restarts.
Singular ==
    \A r, s \in files :
        /\ rec[r].filename = rec[s].filename
        /\ rec[r].filename \in Names \ lost
        => r = s

\* Checkpoint files are named after the second and the sanitised tag, which
\* handle_client_checkpoint takes to be unique: no two checkpoints share both.
TimesApart == \A i, j \in DOMAIN Clock : Clock[i] = Clock[j] => i = j

-----------------------------------------------------------------------------
(* What the changes left will have done *)

Writes(e, p, c) ==
    \/ e.do = "open" /\ e.path = p /\ c = Empty
    \/ e.do = "close" /\ e.path = p /\ e.content = c
LeftAfter(s, j, p) == \A i \in DOMAIN s : i > j => Leaves(s[i], p)

\* After the changes s, p holds c: it is there and they leave it alone, or they
\* write it, or they move it there.
Stays(d, s, p, c) == p \in DOMAIN d /\ d[p] = c /\ LeftBy(s, p)
Lands(s, p, c) == \E j \in DOMAIN s : Writes(s[j], p, c) /\ LeftAfter(s, j, p)
\* What is moved by s[j] is there, or is written.
Brought(d, s, j, c) ==
    \/ /\ s[j].path \in DOMAIN d /\ d[s[j].path] = c
       /\ \A i \in DOMAIN s : i < j => Leaves(s[i], s[j].path)
    \/ \E k \in DOMAIN s :
          /\ k < j /\ Writes(s[k], s[j].path, c)
          /\ \A i \in DOMAIN s : k < i /\ i < j => Leaves(s[i], s[j].path)
Comes(d, s, p, c) ==
    \E j \in DOMAIN s :
        /\ s[j].do = "rename" /\ s[j].to = p /\ s[j].path # p
        /\ LeftAfter(s, j, p) /\ Brought(d, s, j, c)
Ends(d, s, p, c) == Stays(d, s, p, c) \/ Lands(s, p, c) \/ Comes(d, s, p, c)

\* After the changes s there is no file p.
Removed(d, s, p) ==
    \/ p \notin DOMAIN d /\ LeftBy(s, p)
    \/ \E j \in DOMAIN s :
          /\ s[j].do \in {"unlink", "rename"} /\ s[j].path = p
          /\ s[j].do = "rename" => s[j].to # p
          /\ LeftAfter(s, j, p)

\* A rename that must not fail finds its file.
Sure(d, s) ==
    \A j \in DOMAIN s : s[j].do = "rename" /\ s[j].must => \E c \in TextFile : Brought(d, s, j, c)

\* The record of the handler t after the changes it has left.
Drafts(t) == {rec[on[t]]} \cup {e.record : e \in {x \in Range(todo[t]) : x.do = "memory"}}
FinalOf(s, q0, q) ==
    \/ q = q0 /\ \A e \in Range(s) : e.do # "memory"
    \/ \E j \in DOMAIN s :
          /\ s[j].do = "memory" /\ s[j].record = q
          /\ \A i \in DOMAIN s : i > j => s[i].do # "memory"
Final(t, q) == FinalOf(todo[t], rec[on[t]], q)

-----------------------------------------------------------------------------
(* Documents *)

Doc ==
    [owner : Owners \cup {NoUser}, acl : SUBSET Readers, text : Texts \cup {NoText},
     undo : Seq(Texts \cup {NoText}), checkpoints : Seq(Tags \X (Texts \cup {NoText}))]

\* The record q and the files that the changes s leave are what doc promises.
Holds(d, s, q, doc) ==
    /\ q.owner = doc.owner /\ q.acl = doc.acl
    /\ Ends(d, s, metapath(q.filename), q)
    /\ Ends(d, s, filepath(q.filename), Text(doc.text))
    /\ IF q.undo_available
       THEN /\ doc.undo # <<>> /\ doc.undo = <<doc.undo[1]>>
            /\ Ends(d, s, undopath(q.filename), Text(doc.undo[1]))
       ELSE doc.undo = <<>>
    /\ Len(doc.checkpoints) = Len(q.checkpoints)
    /\ \A i \in DOMAIN q.checkpoints :
          /\ doc.checkpoints[i][1] = q.checkpoints[i].tag
          /\ Ends(d, s, q.checkpoints[i].filepath, Text(doc.checkpoints[i][2]))
    /\ \A i, j \in DOMAIN q.checkpoints : i # j =>
          /\ q.checkpoints[i].filepath # q.checkpoints[j].filepath
          /\ q.checkpoints[i].tag # q.checkpoints[j].tag

\* A handler that has begun to change something, or may have.  What follows is
\* said of a set A of such handlers: all of them, and those whose first change
\* is a rename that will not fail.
Active(t) == Working(t) /\ ok[t] /\ (op[t].do = "rename" => Len(todo[t]) < 6)
Begun(A) ==
    /\ A \subseteq Threads
    /\ \A t \in A : Working(t) /\ ok[t]
    /\ \A t \in Threads : Active(t) => t \in A
Clear(t) == touch[t] \cap lost = {}
Copier(t) == op[t].do \in {"copy", "copy_failed"}
NsAt(A, do) == NS \in A /\ op[NS].do = do

NewName(t, n) == IF op[t].do = "rename" THEN op[t].to ELSE n

\* The listed record of n and its files are what was promised.
Settled(n) ==
    docs[n] \in Doc /\ \E r \in files : rec[r].filename = n /\ Holds(disk, <<>>, rec[r], docs[n])

\* They will be when the handler t is done.
Underway(t, n) ==
    LET doc == Promise(docs[n], op[t])
    IN  /\ doc \in Doc
        /\ \E q \in Drafts(t) :
              Final(t, q) /\ q.filename = NewName(t, n) /\ Holds(disk, todo[t], q, doc)

DocsKept(A) ==
    \A n \in DOMAIN docs \ lost :
        /\ (\A t \in A : n \notin touch[t]) => Settled(n)
        /\ \A t \in A : n \in touch[t] /\ Clear(t) /\ op[t].do # "delete" => Underway(t, n)

CreateKept(A) ==
    NsAt(A, "create") /\ op[NS].filename \notin lost =>
        LET n == op[NS].filename
        IN  /\ Ends(disk, todo[NS], metapath(n), NewRecord(n, op[NS].owner))
            /\ Ends(disk, todo[NS], filepath(n), Empty)

DeleteKept(A) ==
    NsAt(A, "delete") /\ op[NS].filename \notin lost =>
        LET n == op[NS].filename
        IN  Removed(disk, todo[NS], filepath(n)) /\ Removed(disk, todo[NS], metapath(n))

\* A name of which a file or a record may be there.
Known(m) == m \in DOMAIN docs \/ \E k \in lost : filepath(k) = filepath(m)

RenameKept(A) ==
    NsAt(A, "rename") =>
        \A a \in touch[NS] \ {op[NS].to} :
            /\ Known(a)
            /\ Clear(NS) => Removed(disk, todo[NS], filepath(a)) /\ Removed(disk, todo[NS], metapath(a))
            /\ Len(todo[NS]) <= 2 => \A s \in files : rec[s].filename = a => a \in lost

\* SS_COPY alone has a temporary file, and takes it away.
CopyKept(A) ==
    /\ \A t \in A : ~Copier(t) => \A e \in Range(todo[t]), n \in Names : Leaves(e, temp_path(n))
    /\ NS \in A /\ Copier(NS) =>
          /\ Sure(disk, todo[NS])
          /\ \A n \in Own(NS) : Removed(disk, todo[NS], temp_path(n))

-----------------------------------------------------------------------------
(* Nothing else is listed *)

Renamed(A, r) ==
    NsAt(A, "rename") /\ Len(todo[NS]) <= 2 /\ on[NS] = r /\ rec[r].filename = op[NS].to

RecListed(A) == \A r \in files : Known(rec[r].filename) \/ Renamed(A, r)

SideListed(A) ==
    \A p \in DOMAIN disk : IsMeta(p) /\ disk[p] # Empty =>
        \/ Known(disk[p].filename)
        \/ \E t \in A : disk[p].filename \in Own(t)

FileListed(A) ==
    \A p \in Loaded :
        \/ \E n \in DOMAIN docs \cup lost : filepath(n) = p
        \/ \E t \in A : \E n \in touch[t] : filepath(n) = p

Temps == {temp_path(n) : n \in Names}

\* What requests touch, and what they touch when they change anything.
Touched ==
    /\ lost \subseteq Names \cup Temps \cup {<<>>}
    /\ \A t \in Threads : touch[t] \subseteq Names \cup Temps \cup {<<>>}
Owned(A) ==
    \A t \in A :
        /\ Own(t) # {}
        /\ touch[t] = Own(t) \cup (IF Copier(t) THEN {temp_path(n) : n \in Own(t)} ELSE {})

-----------------------------------------------------------------------------
(* Checkpoint files *)

PathsOf(q) == {q.checkpoints[i].filepath : i \in DOMAIN q.checkpoints}

\* The checkpoint file p is known to a change, and to a document.
Cites(e, p) ==
    \/ e.do # "memory" /\ e.path = p /\ p \in CkptPath
    \/ e.do = "close" /\ IsMeta(e.path) /\ p \in PathsOf(e.content)
    \/ e.do = "memory" /\ p \in PathsOf(e.record)
Pending(t, p) == \E e \in Range(todo[t]) : Cites(e, p)
Ref(A, m, p) ==
    \/ \E r \in files : rec[r].filename = m /\ p \in PathsOf(rec[r])
    \/ \E x \in DOMAIN disk :
          IsMeta(x) /\ disk[x] # Empty /\ disk[x].filename = m /\ p \in PathsOf(disk[x])
    \/ \E t \in A : m \in touch[t] /\ Pending(t, p)

Dated(p) == \E i \in 1..now : p[Len(p)] = Clock[i]
Clean(A, m) == m \notin lost /\ \A t \in A : m \in touch[t] => Clear(t)
Together(A, m, k) == \E t \in A : {m, k} \subseteq touch[t]

\* Documents do not share checkpoint files, unless nothing is known of them.
CkptsApart(A) ==
    \A m, k \in Names :
        m # k /\ Clean(A, m) /\ ~Together(A, m, k) => \A p : ~(Ref(A, m, p) /\ Ref(A, k, p))
CkptsDated(A) == \A m \in Names : \A p : Ref(A, m, p) => Dated(p)

PInvOf(A) ==
    /\ Begun(A)
    /\ DocsKept(A) /\ CreateKept(A) /\ DeleteKept(A) /\ RenameKept(A) /\ CopyKept(A)
    /\ RecListed(A) /\ SideListed(A) /\ FileListed(A) /\ Touched /\ Owned(A)
    /\ CkptsApart(A) /\ CkptsDated(A)

Actives == {t \in Threads : Active(t)}
PInv == PInvOf(Actives)

-----------------------------------------------------------------------------
(* Parts of the disk, requests and promises in the making *)

Same(d, e, p) == (p \in DOMAIN e <=> p \in DOMAIN d) /\ (p \in DOMAIN d => e[p] = d[p])

\* The files of the names N and the checkpoint files of q.
HoldsOn(d, e, N, q) == \A p \in FilesOf(N) \cup PathsOf(q) : Same(d, e, p)

\* After the changes s of a handler the document of the record q is doc.
Achieves(s, q, doc) ==
    /\ doc \in Doc
    /\ \E q2 : FinalOf(s, q, q2) /\ q2.filename = q.filename /\ Holds(disk, s, q2, doc)

\* What the disk holds of a document.
OnDisk(q, doc) ==
    /\ filepath(q.filename) \in DOMAIN disk /\ disk[filepath(q.filename)] = Text(doc.text)
    /\ q.undo_available =>
          undopath(q.filename) \in DOMAIN disk /\ disk[undopath(q.filename)] = Text(doc.undo[1])
    /\ \A i \in DOMAIN q.checkpoints :
          /\ q.checkpoints[i].filepath \in DOMAIN disk
          /\ disk[q.checkpoints[i].filepath] = Text(doc.checkpoints[i][2])

\* Changes that know checkpoint files of P only, and, if B, no temporary file.
Fine(e, P, B) == (\A p : Cites(e, p) => p \in P) /\ (B => \A k \in Names : Leaves(e, temp_path(k)))
Modest(s, P, B) == s \in Seq(Change) /\ \A e \in Range(s) : Fine(e, P, B)

\* A rename that is under way, after k of its changes.
RenameAt(a, k) ==
    LET b == op[NS].to
        q == [rec[on[NS]] EXCEPT !.filename = b]
    IN  /\ a \in Names /\ b \in Names /\ a # b /\ touch[NS] = {a, b} /\ Own(NS) = {a, b}
        /\ k \in 0..6 /\ todo[NS] = RenameRest(a, b, q, k) /\ Len(todo[NS]) = 6 - k
        /\ on[NS] \in files /\ rec[on[NS]].filename = (IF k >= 4 THEN b ELSE a)
        /\ q \in Sidecar /\ q.filename = b

\* The change e, which is next, stays within the names N and the checkpoints C.
Within(e, N, C) ==
    /\ Orderly(e)
    /\ \A p : p \notin FilesOf(N) \cup CkptPath => Leaves(e, p)
    /\ \A p \in CkptPath : ~Leaves(e, p) => p \in C
    /\ e.do = "close" /\ IsMeta(e.path) => e.content.filename \in N /\ PathsOf(e.content) \subseteq C
    /\ e.do = "memory" => e.record.filename \in N /\ PathsOf(e.record) \subseteq C

\* Names that another handler works on, or none, and that are known.
Aside(A, M, t) ==
    /\ M \subseteq Names
    /\ \A m \in M : /\ Clean(A, m) /\ m \notin touch[t]
                    /\ \A u \in A : m \in touch[u] => Own(u) \cap Own(t) = {}

\* What is asked of a handler u that begins.
Beginning(u) ==
    /\ Owned({u}) /\ \A m, k \in Own(u) : m = k
    /\ \A n \in DOMAIN docs \ lost :
          n \in touch[u] /\ Clear(u) /\ op[u].do # "delete" => Underway(u, n)
    /\ CreateKept({u}) /\ DeleteKept({u}) /\ op[u].do # "rename"
    /\ ~Copier(u) => \A e \in Range(todo[u]), n \in Names : Leaves(e, temp_path(n))
    /\ u = NS /\ Copier(NS) =>
          /\ Sure(disk, todo[NS])
          /\ \A n \in Own(NS) : Removed(disk, todo[NS], temp_path(n))

\* What the end of the request t is to leave; the names G have gone.
Concluded(t, G) ==
    /\ op' = [op EXCEPT ![t] = NoOp] /\ on' = [on EXCEPT ![t] = NoRec]
    /\ touch' = [touch EXCEPT ![t] = {}]
    /\ UNCHANGED <<disk, todo, ok, now>>
    /\ lost' = IF Clear(t) THEN lost ELSE lost \cup touch[t]
    /\ t # NS => UNCHANGED <<files, rec>>
    /\ G \subseteq Own(t) \ lost'
    /\ \A m \in Own(t) \ G : Known(m)'
    /\ \A m, k \in Own(t) : m # k /\ m \notin lost' => m \in G \/ k \in G
    /\ \A g \in G : /\ \A r \in files' : rec'[r].filename # g
                    /\ filepath(g) \notin DOMAIN disk /\ metapath(g) \notin DOMAIN disk
    /\ DOMAIN docs' \subseteq Names /\ DOMAIN docs \subseteq DOMAIN docs' \cup lost' \cup G
    /\ \A n \in DOMAIN docs' \ touch[t] : n \in DOMAIN docs /\ docs'[n] = docs[n]
    /\ \A r \in files : rec[r].filename \notin Own(t) => r \in files' /\ rec'[r] = rec[r]
    /\ \A r \in files' : \/ r \in files /\ rec'[r] = rec[r]
                         \/ rec'[r].filename \in Own(t) /\ PathsOf(rec'[r]) = {}
    /\ \A n \in DOMAIN docs' \ lost' : n \in touch[t] => Settled(n)'

================================================================================
