---------------------------- MODULE SsFileStore ----------------------------
(***************************************************************************)
(* What a storage server keeps on its disk: the content file of every      *)
(* document with its .meta and .undo sidecars and its checkpoint files, in *)
(* one flat directory.  Handlers of the name server's commands and of the  *)
(* clients' requests change them in place, one file after the other, and   *)
(* the process may be killed between any two of these steps; a restart     *)
(* rebuilds the list of records from the directory alone.                  *)
(*                                                                         *)
(* A path is a sequence of tokens; "/" is one of them, and so is every     *)
(* suffix.  Files are written through stdio: opening truncates the file    *)
(* and the text arrives when it is closed.  Times and the two kinds of     *)
(* access are left out; a document's access list is one set of users.      *)
(***************************************************************************)
EXTENDS Naturals, Sequences, FiniteSets, Functions

CONSTANTS
    Names,           \* logical paths that commands use
    Owners,          \* users that create files
    Readers,         \* users that are given access
    Texts,           \* texts that writes and copies store
    Recs,            \* addresses of FileRecords; a bound
    Clients,         \* client threads
    NS,              \* the thread in ns_control_loop
    NoThread,        \* a mutex is free
    NoRec,
    NoOp,
    Tags,            \* checkpoint labels
    Clock,           \* the second and sanitised tag of each checkpoint, in order
    SS_MAX_CHECKPOINTS,
    ClientOps,       \* bounds: requests that clients and the name server make
    NsOps,
    MaxRequests,     \* bounds: requests served and restarts of the process
    MaxRestarts

Threads == Clients \cup {NS}

ASSUME StoreAssumption ==
    /\ Names \subseteq Seq(STRING) \ {<<>>}
    /\ NS \notin Clients /\ NoThread \notin Threads /\ NoRec \notin Recs
    /\ Clock \in Seq(STRING) /\ ".meta" \notin Range(Clock)
    /\ SS_MAX_CHECKPOINTS \in Nat \ {0}

NoUser == ""
NoText == ""
Text(x) == [text |-> x]
Empty == Text(NoText)

VARIABLES
    disk,        \* [some paths -> contents]: the storage directory
    files,       \* the records in the list ss->files
    rec,         \* [Recs -> FileRecord]
    files_lock,  \* the thread that holds ss->files_lock
    file_lock,   \* [Recs -> thread that holds the record's file_lock]
    op,          \* [Threads -> request being served]
    on,          \* [Threads -> record it is served on]
    todo,        \* [Threads -> changes of disk and memory still to make]
    ok,          \* [Threads -> the request has not failed so far]
    now,         \* number of checkpoint times used up
    served,      \* number of requests begun
    restarts,
    docs,        \* history: what the answers given so far promise of each name
    touch,       \* history: [Threads -> names the running request may change]
    lost,        \* history: names that a request cut short has touched
    texts        \* history: [names -> texts a crash may leave]

server == <<files, rec, files_lock, file_lock, op, on, todo, ok>>
history == <<docs, touch, lost, texts>>
vars == <<disk, server, now, served, restarts, history>>

-----------------------------------------------------------------------------
(* Paths *)

flatten_logical_path(n) == [i \in DOMAIN n |-> IF n[i] = "/" THEN "_" ELSE n[i]]

\* ss_set_record_paths: the three files of a record.
filepath(n) == flatten_logical_path(n)
metapath(n) == Append(flatten_logical_path(n), ".meta")
undopath(n) == Append(flatten_logical_path(n), ".undo")
temp_path(n) == Append(flatten_logical_path(n), ".copytmp")

\* Checkpoint files are named after the logical name.
ckpt_path(n) == n \o <<".ckpt_", Clock[now + 1]>>

\* fopen cannot create a file in a directory that does not exist.
CanOpen(p) == "/" \notin Range(p)

NewRecord(n, owner) ==
    [filename |-> n, owner |-> owner, acl |-> {}, undo_available |-> FALSE,
     checkpoints |-> <<>>]

-----------------------------------------------------------------------------
(* Requests as sequences of changes *)

Open(p) == [do |-> "open", path |-> p]
Close(p, c) == [do |-> "close", path |-> p, content |-> c]
Unlink(p) == [do |-> "unlink", path |-> p]
Rename(p, q, must) == [do |-> "rename", path |-> p, to |-> q, must |-> must]
Memory(q) == [do |-> "memory", record |-> q]

ss_write_file_content(p, c) == <<Open(p), Close(p, c)>>
ss_write_metadata(q) == <<Open(metapath(q.filename)), Close(metapath(q.filename), q)>>

\* Assign the fields of the record and write its sidecar.
Save(q) == <<Memory(q)>> \o ss_write_metadata(q)

Slots(q, tag) == {i \in DOMAIN q.checkpoints : q.checkpoints[i].tag = tag}
SlotPath(q, tag) == q.checkpoints[CHOOSE i \in Slots(q, tag) : TRUE].filepath
Full(q) == Len(q.checkpoints) >= SS_MAX_CHECKPOINTS
Pruned(s, full) == IF full THEN Tail(s) ELSE s

\* Each program below is what a handler does once it holds the file_lock of its
\* record q and all its tests have passed.

\* Mutant: the new text is written before the undo snapshot.
etirw_Swapped(q, x) ==
    ss_write_file_content(filepath(q.filename), Text(x))
        \o ss_write_file_content(undopath(q.filename), disk[filepath(q.filename)])
        \o Save([q EXCEPT !.undo_available = TRUE])

etirw(q, x) ==
    ss_write_file_content(undopath(q.filename), disk[filepath(q.filename)])
        \o ss_write_file_content(filepath(q.filename), Text(x))
        \o Save([q EXCEPT !.undo_available = TRUE])

undo(q) ==
    ss_write_file_content(filepath(q.filename), disk[undopath(q.filename)])
        \o Save([q EXCEPT !.undo_available = FALSE])

checkpoint(q, tag) ==
    LET p == ckpt_path(q.filename)
    IN  ss_write_file_content(p, disk[filepath(q.filename)])
            \o (IF Full(q) THEN <<Unlink(q.checkpoints[1].filepath)>> ELSE <<>>)
            \o Save([q EXCEPT !.checkpoints =
                    Append(Pruned(@, Full(q)), [tag |-> tag, filepath |-> p])])

revert(q, tag) ==
    ss_write_file_content(undopath(q.filename), disk[filepath(q.filename)])
        \o ss_write_file_content(filepath(q.filename), disk[SlotPath(q, tag)])
        \o Save([q EXCEPT !.undo_available = TRUE])

ss_handle_rename(q, n) ==
    <<Rename(filepath(q.filename), filepath(n), TRUE),
      Rename(metapath(q.filename), metapath(n), FALSE),
      Rename(undopath(q.filename), undopath(n), FALSE)>>
        \o Save([q EXCEPT !.filename = n])

handle_ss_copy(q, x) ==
    <<Unlink(temp_path(q.filename))>>
        \o ss_write_file_content(temp_path(q.filename), Text(x))
        \o <<Rename(temp_path(q.filename), filepath(q.filename), TRUE)>>
        \o ss_write_metadata(q)

\* SS_COPY when the source cannot be read to its end.
copy_failed(q) ==
    <<Unlink(temp_path(q.filename)), Open(temp_path(q.filename)),
      Unlink(temp_path(q.filename))>>

\* ss_create_file and ss_delete_file run under files_lock alone.
ss_create_file(n, owner) ==
    <<Open(filepath(n))>> \o ss_write_metadata(NewRecord(n, owner))

ss_delete_file(q) ==
    <<Unlink(filepath(q.filename)), Unlink(metapath(q.filename)),
      Unlink(undopath(q.filename))>>
        \o [i \in DOMAIN q.checkpoints |-> Unlink(q.checkpoints[i].filepath)]

\* The tests a handler makes under file_lock before it changes anything.
Accepted(q, o) ==
    /\ o.do \in {"write", "checkpoint", "revert", "read"} =>
          filepath(q.filename) \in DOMAIN disk
    /\ o.do = "undo" => q.undo_available /\ undopath(q.filename) \in DOMAIN disk
    /\ o.do = "checkpoint" =>
          Slots(q, o.tag) = {} /\ CanOpen(ckpt_path(q.filename))
    /\ o.do = "revert" =>
          Slots(q, o.tag) # {} /\ SlotPath(q, o.tag) \in DOMAIN disk

Program(q, o) ==
    CASE o.do = "write" -> etirw(q, o.text)
      [] o.do = "undo" -> undo(q)
      [] o.do = "checkpoint" -> checkpoint(q, o.tag)
      [] o.do = "revert" -> revert(q, o.tag)
      [] o.do = "read" -> ss_write_metadata(q)
      [] o.do = "access" -> Save([q EXCEPT !.acl = o.acl])
      [] o.do = "rename" -> ss_handle_rename(q, o.to)
      [] o.do = "copy" -> handle_ss_copy(q, o.text)
      [] o.do = "copy_failed" -> copy_failed(q)

-----------------------------------------------------------------------------
(* What the requests promise, without disk, sidecars or records *)

Promise(d, o) ==
    CASE o.do = "write" -> [d EXCEPT !.text = o.text, !.undo = <<d.text>>]
      [] o.do = "undo" -> [d EXCEPT !.text = d.undo[1], !.undo = <<>>]
      [] o.do = "checkpoint" ->
            [d EXCEPT !.checkpoints = Append(
                Pruned(@, Len(@) >= SS_MAX_CHECKPOINTS), <<o.tag, d.text>>)]
      [] o.do = "revert" ->
            LET i == CHOOSE j \in DOMAIN d.checkpoints : d.checkpoints[j][1] = o.tag
            IN  [d EXCEPT !.text = d.checkpoints[i][2], !.undo = <<d.text>>]
      [] o.do = "access" -> [d EXCEPT !.acl = o.acl]
      [] o.do = "copy" -> [d EXCEPT !.text = o.text]
      [] OTHER -> d

NewDoc(owner) ==
    [owner |-> owner, acl |-> {}, text |-> NoText, undo |-> <<>>, checkpoints |-> <<>>]

\* What the server shows of a record.
Shown(p) == IF p \in DOMAIN disk THEN disk[p].text ELSE "missing"

View(q) ==
    [owner |-> q.owner, acl |-> q.acl, text |-> Shown(filepath(q.filename)),
     undo |-> IF q.undo_available THEN <<Shown(undopath(q.filename))>> ELSE <<>>,
     checkpoints |-> [i \in DOMAIN q.checkpoints |->
         <<q.checkpoints[i].tag, Shown(q.checkpoints[i].filepath)>>]]

-----------------------------------------------------------------------------

Idle(t) == op[t] = NoOp

Begin(t) == Idle(t) /\ served < MaxRequests /\ served' = served + 1

Init ==
    /\ disk = [p \in {} |-> Empty]
    /\ files = {}
    /\ rec = [r \in Recs |-> NewRecord(<<>>, NoUser)]
    /\ files_lock = NoThread /\ file_lock = [r \in Recs |-> NoThread]
    /\ op = [t \in Threads |-> NoOp] /\ on = [t \in Threads |-> NoRec]
    /\ todo = [t \in Threads |-> <<>>] /\ ok = [t \in Threads |-> TRUE]
    /\ now = 0 /\ served = 0 /\ restarts = 0
    /\ docs = [n \in {} |-> NewDoc(NoUser)] /\ touch = [t \in Threads |-> {}]
    /\ lost = {} /\ texts = [n \in {} |-> {}]

\* ss_find_file: a record of that name in the list.
ss_find_file(n) == {r \in files : rec[r].filename = n}

\* A handler finds its record under files_lock and waits for the record's
\* file_lock with files_lock held.  A write is here from the moment its session is
\* in the list to the end of ETIRW, which has its record from the session and takes
\* no files_lock.  A REQ_WRITE_LOCK under way may create the session of a record
\* that DELETE has already tested for writers: what becomes of the name is then
\* as open as for the other requests that DELETE overtakes, whatever ETIRW finds in
\* a record that has been freed (here: no file, and it is refused).
Find(t, n, o) ==
    /\ Begin(t)
    /\ o.do # "write" => files_lock = NoThread
    /\ \E r \in ss_find_file(n) :
          /\ on' = [on EXCEPT ![t] = r]
          /\ lost' = IF on[NS] = r /\ op[NS].do = "delete" THEN lost \cup {n} ELSE lost
    /\ op' = [op EXCEPT ![t] = o]
    /\ files_lock' = IF o.do = "write" THEN files_lock ELSE t
    /\ UNCHANGED <<disk, files, rec, file_lock, todo, ok, now, restarts, docs, touch, texts>>

Waiting(t) == on[t] # NoRec /\ todo[t] = <<>> /\ touch[t] = {} /\ op[t].do # "create"

\* The texts that a request may leave in the content file.
Outcomes(q, o) ==
    {Shown(filepath(q.filename))} \cup
        CASE o.do \in {"write", "copy"} -> {o.text}
          [] o.do = "undo" -> {Shown(undopath(q.filename))}
          [] o.do = "revert" -> {Shown(SlotPath(q, o.tag))}
          [] OTHER -> {}

Changed(q, o) ==
    {q.filename}
        \cup (IF o.do = "rename" THEN {o.to} ELSE {})
        \cup (IF o.do \in {"copy", "copy_failed"} THEN {temp_path(q.filename)} ELSE {})

\* The handler gets file_lock and gives up files_lock; the record may have got
\* another name since it was found.  A request that is refused changes nothing.
Lock(t) ==
    LET r == on[t]
        q == rec[r]
        o == op[t]
    IN  /\ ~Idle(t) /\ Waiting(t)
        /\ file_lock[r] = NoThread
        /\ file_lock' = [file_lock EXCEPT ![r] = t]
        /\ files_lock' = IF files_lock = t THEN NoThread ELSE files_lock
        /\ ok' = [ok EXCEPT ![t] = Accepted(q, o)]
        /\ todo' = [todo EXCEPT ![t] = IF Accepted(q, o) THEN Program(q, o) ELSE <<>>]
        /\ touch' = [touch EXCEPT ![t] = Changed(q, o)]
        /\ now' = IF o.do = "checkpoint" /\ Accepted(q, o) THEN now + 1 ELSE now
        /\ texts' = IF ~Accepted(q, o) \/ q.filename \notin DOMAIN texts THEN texts
                    ELSE IF o.do = "rename"
                         THEN Restrict(texts, DOMAIN texts \ {q.filename})
                         ELSE [texts EXCEPT ![q.filename] = Outcomes(q, o)]
        /\ UNCHANGED <<disk, files, rec, op, on, served, restarts, docs, lost>>

\* ss_create_file up to its first change; it holds files_lock to its end.  The
\* name server has no entry of that name.
Create(n, owner) ==
    /\ Begin(NS) /\ files_lock = NoThread
    /\ n \notin DOMAIN docs
    /\ ss_find_file(n) = {}
    /\ LET free == Recs \ (files \cup Range(on))
       IN  free # {} /\ on' = [on EXCEPT ![NS] = CHOOSE r \in free : TRUE]
    /\ op' = [op EXCEPT ![NS] = [do |-> "create", filename |-> n, owner |-> owner]]
    /\ files_lock' = NS
    /\ todo' = [todo EXCEPT ![NS] = ss_create_file(n, owner)]
    /\ ok' = [ok EXCEPT ![NS] = TRUE]
    /\ touch' = [touch EXCEPT ![NS] = {n}]
    /\ UNCHANGED <<disk, files, rec, file_lock, now, restarts, docs, lost, texts>>

\* ss_delete_file is refused while the record has a session, and does not wait for
\* file_lock.  A handler that is still at work on the record goes on with the paths
\* it has, and what the disk holds under its names afterwards is anybody's guess.
Delete(n) ==
    /\ Begin(NS) /\ files_lock = NoThread
    /\ \E r \in ss_find_file(n) :
        LET others == {t \in Threads : on[t] = r}
            names == {n} \cup UNION {touch[t] : t \in others}
        IN  /\ \A t \in others : op[t].do # "write"
            /\ on' = [on EXCEPT ![NS] = r]
            /\ todo' = [todo EXCEPT ![NS] = ss_delete_file(rec[r])]
            /\ lost' = IF others = {} THEN lost ELSE lost \cup names
            /\ texts' = Restrict(texts, DOMAIN texts \ names)
    /\ op' = [op EXCEPT ![NS] = [do |-> "delete", filename |-> n]]
    /\ files_lock' = NS
    /\ ok' = [ok EXCEPT ![NS] = TRUE]
    /\ touch' = [touch EXCEPT ![NS] = {n}]
    /\ UNCHANGED <<disk, files, rec, file_lock, now, restarts, docs>>

WithFile(d, p, c) == [q \in DOMAIN d \cup {p} |-> IF q = p THEN c ELSE d[q]]
WithoutFile(d, p) == Restrict(d, DOMAIN d \ {p})

\* One change of the disk or of the record.  Only the first rename of a request
\* is tested; when it fails the handler gives up.
Step(t) ==
    LET s == Head(todo[t])
        fails == s.do = "rename" /\ s.path \notin DOMAIN disk
    IN  /\ todo[t] # <<>>
        /\ disk' = CASE s.do = "open" -> WithFile(disk, s.path, Empty)
                     [] s.do = "close" -> WithFile(disk, s.path, s.content)
                     [] s.do = "unlink" -> WithoutFile(disk, s.path)
                     [] s.do = "rename" /\ ~fails ->
                           WithFile(WithoutFile(disk, s.path), s.to, disk[s.path])
                     [] OTHER -> disk
        /\ rec' = IF s.do = "memory" /\ on[t] \in files
                  THEN [rec EXCEPT ![on[t]] = s.record] ELSE rec
        /\ IF fails /\ s.must
           THEN /\ todo' = [todo EXCEPT ![t] = <<>>]
                /\ ok' = [ok EXCEPT ![t] = FALSE]
           ELSE /\ todo' = [todo EXCEPT ![t] = Tail(@)]
                /\ UNCHANGED ok
        /\ UNCHANGED <<files, files_lock, file_lock, op, on, now, served, restarts, history>>

\* The request is done: its locks are released and its answer is sent.
Done(t) ==
    LET r == on[t]
        o == op[t]
        new == CASE o.do \in {"create", "delete"} -> o.filename
                 [] OTHER -> rec[r].filename
        was == CASE o.do = "rename" /\ ok[t] ->
                       CHOOSE n \in touch[t] : n # o.to
                 [] OTHER -> new
    IN  /\ ~Idle(t) /\ touch[t] # {} /\ todo[t] = <<>>
        /\ files' = CASE o.do = "create" -> files \cup {r}
                      [] o.do = "delete" -> files \ {r}
                      [] OTHER -> files
        /\ rec' = CASE o.do = "create" -> [rec EXCEPT ![r] = NewRecord(new, o.owner)]
                    [] o.do = "delete" -> [rec EXCEPT ![r] = NewRecord(<<>>, NoUser)]
                    [] OTHER -> rec
        /\ files_lock' = IF o.do \in {"create", "delete"} THEN NoThread ELSE files_lock
        /\ file_lock' = IF o.do \in {"create", "delete"} THEN file_lock
                        ELSE [file_lock EXCEPT ![r] = NoThread]
        /\ op' = [op EXCEPT ![t] = NoOp] /\ on' = [on EXCEPT ![t] = NoRec]
        /\ touch' = [touch EXCEPT ![t] = {}]
        /\ docs' =
              IF ~ok[t] \/ (o.do # "create" /\ was \notin DOMAIN docs) THEN docs
              ELSE LET rest == Restrict(docs, DOMAIN docs \ {was})
                   IN  IF o.do = "delete" THEN rest
                       ELSE WithFile(rest, new,
                                IF o.do = "create" THEN NewDoc(o.owner)
                                ELSE IF was \in lost THEN docs[was]
                                ELSE Promise(docs[was], o))
        /\ lost' = IF touch[t] \cap lost # {} THEN lost \cup touch[t] ELSE lost
        /\ texts' = IF o.do \in {"create", "rename"} /\ new \in DOMAIN docs' \ lost'
                    THEN WithFile(texts, new, {Shown(filepath(new))}) ELSE texts
        /\ UNCHANGED <<disk, todo, ok, now, served, restarts>>

\* Mutant: the name in the sidecar is not used.
LoadedRecord_NoOverride(p) ==
    IF metapath(p) \notin DOMAIN disk \/ disk[metapath(p)] = Empty
    THEN NewRecord(p, NoUser) ELSE [disk[metapath(p)] EXCEPT !.filename = p]

\* ss_add_file_record and ss_load_metadata: the fields come from the sidecar,
\* and so does the logical name.  An empty sidecar gives none of them.
LoadedRecord(p) ==
    IF metapath(p) \notin DOMAIN disk \/ disk[metapath(p)] = Empty
    THEN NewRecord(p, NoUser) ELSE disk[metapath(p)]

\* ss_load_existing_files: the directory entries that are taken for documents.
Loaded ==
    {p \in DOMAIN disk : p[Len(p)] \notin {".meta", ".undo"} /\ ".ckpt_" \notin Range(p)}

\* The process stops at any point, is started again and loads what it finds, as
\* long as Recs has an address for each document; a missing sidecar is written.
Restart ==
    /\ restarts < MaxRestarts
    /\ restarts' = restarts + 1
    /\ Injection(Loaded, Recs) # {}
    /\ LET place == CHOOSE f \in Injection(Loaded, Recs) : TRUE
       IN  /\ files' = Range(place)
           /\ rec' = [r \in Recs |->
                 IF r \in Range(place)
                 THEN LoadedRecord(CHOOSE p \in Loaded : place[p] = r)
                 ELSE NewRecord(<<>>, NoUser)]
    /\ disk' = [p \in DOMAIN disk \cup {metapath(q) : q \in Loaded} |->
                   IF p \in DOMAIN disk THEN disk[p]
                   ELSE NewRecord(SubSeq(p, 1, Len(p) - 1), NoUser)]
    /\ files_lock' = NoThread /\ file_lock' = [r \in Recs |-> NoThread]
    /\ op' = [t \in Threads |-> NoOp] /\ on' = [t \in Threads |-> NoRec]
    /\ todo' = [t \in Threads |-> <<>>] /\ ok' = [t \in Threads |-> TRUE]
    /\ touch' = [t \in Threads |-> {}]
    /\ lost' = lost \cup UNION {touch[t] : t \in {u \in Threads : ok[u]}}
    /\ UNCHANGED <<now, served, docs, texts>>

Requests ==
    [do : {"write"}, text : Texts] \cup [do : {"undo", "read"}]
        \cup [do : {"checkpoint", "revert"}, tag : Tags]
Commands ==
    [do : {"access"}, acl : SUBSET Readers] \cup [do : {"rename"}, to : Names]
        \cup [do : {"copy"}, text : Texts] \cup [do : {"copy_failed"}]

ASSUME RequestAssumption ==
    NoOp \notin Requests \cup Commands \cup [do : {"delete"}, filename : Names]
                \cup [do : {"create"}, filename : Names, owner : Owners]

\* The name server moves a file only to a path that no other entry has.
ClientRequest(t, n) ==
    \E o \in {x \in Requests : x.do \in ClientOps} :
        /\ o.do = "checkpoint" => now < Len(Clock)
        /\ Find(t, n, o)

Command(n) ==
    \E o \in {x \in Commands : x.do \in NsOps} :
        /\ o.do = "rename" => o.to \notin DOMAIN docs /\ ss_find_file(o.to) = {}
        /\ Find(NS, n, o)

Next ==
    \/ \E t \in Clients, n \in Names : ClientRequest(t, n)
    \/ \E n \in Names : Command(n) \/ Delete(n)
    \/ \E n \in Names, u \in Owners : Create(n, u)
    \/ \E t \in Threads : Lock(t) \/ Step(t) \/ Done(t)
    \/ Restart

Spec == Init /\ [][Next]_vars

-----------------------------------------------------------------------------
(* Properties *)

\* What the answers promised is what the server has: outside the names that a
\* running request, or one cut short by a crash or by DELETE, was changing, and
\* those of a write that began while DELETE took its document away, the listed
\* documents are those that were created and not deleted, under the names of their
\* last rename, and each has its owner, its access list, its text, the text that
\* UNDO restores and its checkpoints; across renames, pruning, whole file copies
\* and restarts from the bare directory.
PromisesKept ==
    LET unsettled(n) ==
            \E m \in lost \cup UNION {touch[t] : t \in Threads} : filepath(m) = filepath(n)
        listed == {r \in files : ~unsettled(rec[r].filename)}
    IN  /\ {rec[r].filename : r \in listed} = {n \in DOMAIN docs : ~unsettled(n)}
        /\ \A r \in listed : View(rec[r]) = docs[rec[r].filename]
        /\ \A r, s \in listed : rec[r].filename = rec[s].filename => r = s

\* Wherever ETIRW, UNDO, REVERT or SS_COPY is cut short, the text before it or
\* the text it was writing is still whole in the content file or the undo file.
TextSurvivesCrash ==
    \A n \in DOMAIN texts :
        {Shown(filepath(n)), Shown(undopath(n))} \cap texts[n] # {}

\* CHECKPOINT takes a snapshot of any document that has no checkpoint of that
\* tag, since its file is <physical_name>.ckpt_<tag> next to the content file.
CheckpointServed ==
    \A t \in Threads :
        ~Idle(t) /\ op[t].do = "checkpoint" /\ ~ok[t] =>
            \E n \in touch[t] :
                \/ n \notin DOMAIN docs \/ n \in lost
                \/ \E i \in DOMAIN docs[n].checkpoints :
                       docs[n].checkpoints[i][1] = op[t].tag

=============================================================================
