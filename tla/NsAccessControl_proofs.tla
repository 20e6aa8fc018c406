----------------------- MODULE NsAccessControl_proofs -----------------------
(***************************************************************************)
(* Proofs about NsAccessControl.                                           *)
(*                                                                         *)
(* RejectedIsFinal is not inductive: the rollback of a failed APPROVEACCESS*)
(* makes its request pending again.  DecidedOnce says why that request was *)
(* not rejected meanwhile: it is not pending, so nobody can decide it, and *)
(* its addressee is the handler that decides it.                           *)
(*                                                                         *)
(* AclMirrors only speaks of files at rest.  MirrorInv adds what holds of a *)
(* file while its owner works on it: at most one handler does, its owner's, *)
(* and the storage server has still to make the change that the name server *)
(* has made, or has made it.                                               *)
(*                                                                         *)
(* OnlyOwnerGrants is kept by what the handlers remember: GrantInv says what *)
(* they may still do to a file, that the position where a REMACCESS gives   *)
(* rights back is the one of its file, and that requests and reports name   *)
(* the owner a file has.  Only DELETE takes grants away, and its handler is *)
(* the only one that works on the file.                                     *)
(***************************************************************************)
EXTENDS NsAccessControl, FiniteSetTheorems, TLAPS

\* The catalogue, the files of the storage server and what it reports.
CatalogType ==
    /\ files \in Seq(FileMetadata)
    /\ ssFiles \in [Files -> FileRecord \cup {NoFile}]
    /\ ssAlive \in BOOLEAN
    /\ reported \subseteq FileMetadata

\* The mailbox, and the command of every handler that is not idle.
MailType ==
    /\ access_requests \in Seq(AccessRequest)
    /\ rejected \subseteq DOMAIN access_requests
    /\ pc \in [Users -> {"idle", "send", "ok", "failed"}]
    /\ cmd \in [Users -> Command \cup {NoCommand}]
    /\ \A h \in Users : pc[h] # "idle" => cmd[h] \in Command

\* A request that a handler is approving was addressed to this handler, is not
\* pending and was not rejected.
DecidedOnce ==
    \A h \in Users : pc[h] # "idle" /\ cmd[h].op = "approve" =>
        /\ cmd[h].req \in DOMAIN access_requests \ rejected
        /\ access_requests[cmd[h].req].to_user = h
        /\ ~access_requests[cmd[h].req].is_pending

\* The inductive invariant of RejectedIsFinal.
IInv == CatalogType /\ MailType /\ DecidedOnce /\ RejectedIsFinal

-----------------------------------------------------------------------------
(* Lists, entries and requests *)

\* Whatever is done to a list of users gives lists of users.
LEMMA AclTypes ==
    ASSUME NEW acl \in Acl, NEW u \in Users, NEW perm
    PROVE  /\ file_add_access(acl, u, perm) \in Acl
           /\ remove_access(acl, u) \in Acl
           /\ ss_add(acl, u, perm) \in Acl
           /\ NoAcl \in Acl
BY DEF file_add_access, remove_access, ss_add, NoAcl, Acl

\* An entry with other lists.
LEMMA EntryWithAcl ==
    ASSUME NEW m \in FileMetadata, NEW a \in Acl
    PROVE  [m EXCEPT !.acl = a] \in FileMetadata
BY DEF FileMetadata

\* A lookup finds an entry.
LEMMA LookupFinds ==
    ASSUME files \in Seq(FileMetadata), NEW f, NEW i \in Lookup(f)
    PROVE  /\ i \in DOMAIN files /\ i \in Nat \ {0}
           /\ files[i] \in FileMetadata /\ files[i].acl \in Acl
           /\ files[i].owner \in Users /\ files[i].filename = f
<1>1. i \in DOMAIN files /\ files[i].filename = f
  BY DEF Lookup
<1>2. i \in Nat \ {0} /\ files[i] \in FileMetadata
  BY <1>1
<1> QED BY <1>1, <1>2 DEF FileMetadata

\* The catalogue with other lists for one entry.
LEMMA SetAcl ==
    ASSUME files \in Seq(FileMetadata), NEW i \in DOMAIN files, NEW a \in Acl
    PROVE  [files EXCEPT ![i].acl = a] \in Seq(FileMetadata)
<1>1. files[i] \in FileMetadata
  OBVIOUS
<1>2. [files[i] EXCEPT !.acl = a] \in FileMetadata
  BY <1>1, EntryWithAcl
<1> HIDE DEF FileMetadata
<1>3. \A m \in FileMetadata : [files EXCEPT ![i] = m] \in Seq(FileMetadata)
  OBVIOUS
<1> QED BY <1>2, <1>3

\* A request that becomes pending or is decided keeps the rest.
LEMMA PendingSet ==
    ASSUME access_requests \in Seq(AccessRequest),
           NEW r \in DOMAIN access_requests, NEW b \in BOOLEAN,
           access_requests' = SetPending(r, b)
    PROVE  /\ access_requests' \in Seq(AccessRequest)
           /\ DOMAIN access_requests' = DOMAIN access_requests
           /\ \A s \in DOMAIN access_requests :
                 /\ access_requests'[s].to_user = access_requests[s].to_user
                 /\ s # r => access_requests'[s] = access_requests[s]
           /\ access_requests'[r].is_pending = b
<1> DEFINE m == [access_requests[r] EXCEPT !.is_pending = b]
<1>1. access_requests[r] \in AccessRequest
  OBVIOUS
<1>2. m \in AccessRequest /\ m.to_user = access_requests[r].to_user /\ m.is_pending = b
  BY <1>1 DEF AccessRequest
<1>3. access_requests' = [access_requests EXCEPT ![r] = m]
  BY DEF SetPending
<1> HIDE DEF m
<1> QED BY <1>2, <1>3

\* Removing an entry leaves entries.
LEMMA WithoutType ==
    ASSUME files \in Seq(FileMetadata), NEW i \in DOMAIN files
    PROVE  Without(i) \in Seq(FileMetadata)
<1>1. /\ Len(files) \in Nat \ {0} /\ files[Len(files)] \in FileMetadata
  OBVIOUS
<1>2. [files EXCEPT ![i] = files[Len(files)]] \in Seq(FileMetadata)
  BY <1>1
<1>3. \A s \in Seq(FileMetadata), n \in Nat :
          n <= Len(s) => SubSeq(s, 1, n) \in Seq(FileMetadata)
  OBVIOUS
<1> QED BY <1>1, <1>2, <1>3 DEF Without

-----------------------------------------------------------------------------
(* Steps that leave the mailbox alone *)

\* A handler goes on with its command, ends it, or begins one that is no
\* APPROVEACCESS.
GoesOn(h) ==
    pc'[h] # "idle" => \/ pc[h] # "idle" /\ cmd'[h] = cmd[h]
                       \/ cmd'[h] \in Command /\ cmd'[h].op # "approve"

\* The mailbox stays as it is.
LEMMA MailKept ==
    ASSUME MailType, DecidedOnce, RejectedIsFinal,
           access_requests' = access_requests, rejected' = rejected,
           pc' \in [Users -> {"idle", "send", "ok", "failed"}],
           cmd' \in [Users -> Command \cup {NoCommand}],
           \A h \in Users : GoesOn(h)
    PROVE  MailType' /\ DecidedOnce' /\ RejectedIsFinal'
<1>1. MailType'
  BY DEF MailType, GoesOn
<1>2. DecidedOnce'
  BY DEF DecidedOnce, GoesOn
<1> QED BY <1>1, <1>2 DEF RejectedIsFinal

\* Begin is such a step.
LEMMA BeginGoesOn ==
    ASSUME MailType, NEW h \in Users, NEW c \in Command, c.op # "approve", Begin(h, c)
    PROVE  /\ pc' \in [Users -> {"idle", "send", "ok", "failed"}]
           /\ cmd' \in [Users -> Command \cup {NoCommand}]
           /\ \A k \in Users : GoesOn(k)
<1>1. /\ pc' \in [Users -> {"idle", "send", "ok", "failed"}]
      /\ \A k \in Users : k # h => pc'[k] = pc[k]
  BY DEF Begin, MailType
<1>2. /\ cmd' \in [Users -> Command \cup {NoCommand}]
      /\ cmd'[h] = c /\ \A k \in Users : k # h => cmd'[k] = cmd[k]
  BY DEF Begin, MailType
<1> QED BY <1>1, <1>2 DEF GoesOn

\* So is the end of a command,
LEMMA DoneGoesOn ==
    ASSUME MailType, NEW h \in Users, Done(h)
    PROVE  /\ pc' \in [Users -> {"idle", "send", "ok", "failed"}]
           /\ cmd' \in [Users -> Command \cup {NoCommand}]
           /\ pc'[h] = "idle"
           /\ \A k \in Users \ {h} : pc'[k] = pc[k] /\ cmd'[k] = cmd[k]
           /\ \A k \in Users : GoesOn(k)
<1>1. /\ pc' \in [Users -> {"idle", "send", "ok", "failed"}] /\ pc'[h] = "idle"
      /\ \A k \in Users : k # h => pc'[k] = pc[k]
  BY DEF Done, MailType
<1>2. /\ cmd' \in [Users -> Command \cup {NoCommand}]
      /\ \A k \in Users : k # h => cmd'[k] = cmd[k]
  BY DEF Done, MailType
<1> QED BY <1>1, <1>2 DEF GoesOn

\* and the answer to a handler, or to all of them at once.
LEMMA AnswerGoesOn ==
    ASSUME MailType, cmd' = cmd,
           pc' \in [Users -> {"idle", "send", "ok", "failed"}],
           \A k \in Users : pc[k] = "idle" => pc'[k] = "idle"
    PROVE  /\ cmd' \in [Users -> Command \cup {NoCommand}]
           /\ \A k \in Users : GoesOn(k)
BY DEF GoesOn, MailType

\* ADDACCESS, with a list that is full or not.
LEMMA AddAccessKeeps ==
    ASSUME IInv, NEW h \in Users, NEW f \in Files, NEW u \in Users, NEW perm \in Perms,
           AddAccess(h, f, u, perm)
    PROVE  IInv'
<1>1. PICK i \in Lookup(f) :
          /\ files' = [files EXCEPT ![i].acl = file_add_access(@, u, perm)]
          /\ \/ Begin(h, [op |-> "add", filename |-> f, file_index |-> i,
                          user |-> u, perm |-> perm, had |-> {}, req |-> 0])
             \/ UNCHANGED <<ss, pc, cmd>>
          /\ UNCHANGED <<access_requests, rejected>>
  BY Zenon DEF AddAccess
<1>2. i \in DOMAIN files /\ i \in Nat \ {0} /\ files[i] \in FileMetadata /\ files[i].acl \in Acl
  BY LookupFinds DEF IInv, CatalogType
<1>3. files' \in Seq(FileMetadata)
  BY <1>1, <1>2, AclTypes, SetAcl DEF IInv, CatalogType
<1>4. UNCHANGED ss
  BY <1>1 DEF Begin
<1>5. CatalogType'
  BY <1>3, <1>4 DEF IInv, CatalogType, ss
<1> DEFINE c == [op |-> "add", filename |-> f, file_index |-> i,
                 user |-> u, perm |-> perm, had |-> {}, req |-> 0]
<1>6. c \in Command /\ c.op # "approve"
  BY <1>2, AclAssumption DEF Command
<1> HIDE DEF c
<1>7. CASE Begin(h, c)
  <2>1. MailType' /\ DecidedOnce' /\ RejectedIsFinal'
    BY <1>1, <1>6, <1>7, BeginGoesOn, MailKept DEF IInv
  <2> QED BY <2>1, <1>5 DEF IInv
<1>8. CASE UNCHANGED <<pc, cmd>>
  BY <1>1, <1>5, <1>8 DEF IInv, MailType, DecidedOnce, RejectedIsFinal
<1> QED BY <1>1, <1>7, <1>8 DEF c

\* REMACCESS.
LEMMA RemAccessKeeps ==
    ASSUME IInv, NEW h \in Users, NEW f \in Files, NEW u \in Users, RemAccess(h, f, u)
    PROVE  IInv'
<1> DEFINE had(i) == acl_contains(files[i].acl, u)
           c(i) == [op |-> "remove", filename |-> f, file_index |-> i,
                    user |-> u, perm |-> {}, had |-> had(i), req |-> 0]
<1>1. PICK i \in Lookup(f) :
          /\ files' = [files EXCEPT ![i].acl = remove_access(@, u)]
          /\ Begin(h, c(i))
          /\ UNCHANGED <<access_requests, history>>
  BY Zenon DEF RemAccess
<1>2. i \in DOMAIN files /\ i \in Nat \ {0} /\ files[i] \in FileMetadata /\ files[i].acl \in Acl
  BY LookupFinds DEF IInv, CatalogType
<1>3. files' \in Seq(FileMetadata)
  BY <1>1, <1>2, AclTypes, SetAcl DEF IInv, CatalogType
<1>4. CatalogType'
  BY <1>1, <1>3 DEF IInv, CatalogType, ss, Begin
<1>5. had(i) \in SUBSET Rights
  BY DEF acl_contains
<1> HIDE DEF had
<1>6. c(i) \in Command /\ c(i).op # "approve"
  BY <1>2, <1>5 DEF Command
<1> HIDE DEF c
<1>7. MailType' /\ DecidedOnce' /\ RejectedIsFinal'
  BY <1>1, <1>6, BeginGoesOn, MailKept DEF IInv, history
<1> QED BY <1>4, <1>7 DEF IInv

\* CREATE records the file.
LEMMA CreateKeeps ==
    ASSUME IInv, NEW h \in Users, NEW f \in Files, Create(h, f)
    PROVE  IInv'
<1> DEFINE c == [op |-> "create", filename |-> f, file_index |-> Len(files) + 1,
                 user |-> h, perm |-> {}, had |-> {}, req |-> 0]
           m == [filename |-> f, owner |-> h, acl |-> NoAcl]
<1>1. /\ files' = Append(files, m) /\ Begin(h, c)
      /\ UNCHANGED <<access_requests, history>>
  BY Zenon DEF Create
<1>2. m \in FileMetadata
  BY DEF FileMetadata, NoAcl, Acl
<1>3. Len(files) \in Nat /\ files \in Seq(FileMetadata)
  BY DEF IInv, CatalogType
<1>4. c \in Command /\ c.op # "approve"
  BY <1>3 DEF Command
<1> HIDE DEF c, m
<1>5. files' \in Seq(FileMetadata)
  BY <1>1, <1>2, <1>3
<1>6. CatalogType'
  BY <1>1, <1>5 DEF IInv, CatalogType, ss, Begin
<1>7. MailType' /\ DecidedOnce' /\ RejectedIsFinal'
  BY <1>1, <1>4, BeginGoesOn, MailKept DEF IInv, history
<1> QED BY <1>6, <1>7 DEF IInv

\* The storage server carries out a command, or refuses it.
LEMMA SsApplyType ==
    ASSUME CatalogType, NEW c \in Command, SsApply(c)
    PROVE  ssFiles' \in [Files -> FileRecord \cup {NoFile}]
<1> DEFINE rec == ssFiles[c.filename]
           new == CASE c.op = "create" -> [owner |-> c.user, acl |-> NoAcl]
                    [] c.op = "remove" -> [rec EXCEPT !.acl = remove_access(@, c.user)]
                    [] OTHER -> [rec EXCEPT !.acl = ss_add(@, c.user, c.perm)]
<1>1. ssFiles' = IF SsAccepts(c) THEN [ssFiles EXCEPT ![c.filename] = new] ELSE ssFiles
  BY DEF SsApply
<1>2. /\ c.op \in {"add", "remove", "approve", "create"} /\ c.user \in Users
      /\ c.filename \in Files /\ rec \in FileRecord \cup {NoFile}
  BY DEF Command, CatalogType
<1>3. ASSUME SsAccepts(c) PROVE new \in FileRecord
  <2>1. CASE c.op = "create"
    BY <1>2, <2>1 DEF FileRecord, NoAcl, Acl
  <2>2. CASE c.op # "create"
    <3>1. rec \in FileRecord
      BY <1>2, <1>3, <2>2 DEF SsAccepts
    <3>2. rec.acl \in Acl
      BY <3>1 DEF FileRecord
    <3>3. \A a \in Acl : [rec EXCEPT !.acl = a] \in FileRecord
      BY <3>1 DEF FileRecord
    <3>4. \/ new = [rec EXCEPT !.acl = remove_access(rec.acl, c.user)]
          \/ new = [rec EXCEPT !.acl = ss_add(rec.acl, c.user, c.perm)]
      BY <2>2
    <3> HIDE DEF rec, new
    <3> QED BY <1>2, <3>2, <3>3, <3>4, AclTypes
  <2> QED BY <2>1, <2>2
<1> HIDE DEF new, rec
<1> QED BY <1>1, <1>2, <1>3 DEF CatalogType

\* The storage server answers a handler.
LEMMA SsExecuteKeeps ==
    ASSUME IInv, NEW h \in Users, SsExecute(h)
    PROVE  IInv'
<1>1. cmd[h] \in Command
  BY DEF IInv, MailType, SsExecute
<1>2. ssFiles' \in [Files -> FileRecord \cup {NoFile}]
  BY <1>1, SsApplyType DEF IInv, SsExecute
<1>3. CatalogType'
  BY <1>2 DEF IInv, CatalogType, SsExecute, ns
<1>4. /\ pc' \in [Users -> {"idle", "send", "ok", "failed"}] /\ cmd' = cmd
      /\ \A k \in Users : pc[k] = "idle" => pc'[k] = "idle"
  BY DEF SsExecute, IInv, MailType
<1>5. MailType' /\ DecidedOnce' /\ RejectedIsFinal'
  BY <1>4, AnswerGoesOn, MailKept DEF IInv, SsExecute, ns, history
<1> QED BY <1>3, <1>5 DEF IInv

\* The storage server cannot create the file.
LEMMA CannotCreateKeeps ==
    ASSUME IInv, NEW h \in Users, CannotCreate(h)
    PROVE  IInv'
<1>1. CatalogType'
  BY DEF IInv, CatalogType, CannotCreate, ns, ss
<1>2. /\ pc' \in [Users -> {"idle", "send", "ok", "failed"}] /\ cmd' = cmd
      /\ \A k \in Users : pc[k] = "idle" => pc'[k] = "idle"
  BY DEF CannotCreate, IInv, MailType
<1>3. MailType' /\ DecidedOnce' /\ RejectedIsFinal'
  BY <1>2, AnswerGoesOn, MailKept DEF IInv, CannotCreate, ns, history
<1> QED BY <1>1, <1>3 DEF IInv

\* The connection is lost, whatever the storage server did before.
LEMMA LostKeeps ==
    ASSUME IInv, Lost, ssFiles' \in [Files -> FileRecord \cup {NoFile}]
    PROVE  IInv'
<1>1. CatalogType'
  BY DEF IInv, CatalogType, Lost, ns
<1>2. /\ pc' \in [Users -> {"idle", "send", "ok", "failed"}] /\ cmd' = cmd
      /\ \A k \in Users : pc[k] = "idle" => pc'[k] = "idle"
  BY DEF Lost, IInv, MailType
<1>3. MailType' /\ DecidedOnce' /\ RejectedIsFinal'
  BY <1>2, AnswerGoesOn, MailKept DEF IInv, Lost, ns, history
<1> QED BY <1>1, <1>3 DEF IInv

\* The storage server reports its files, and the name server takes them over.
LEMMA EmitKeeps ==
    ASSUME IInv, ss_emit_file_list
    PROVE  IInv'
<1>1. \A f \in Files : ssFiles[f] # NoFile =>
          [filename |-> f, owner |-> ssFiles[f].owner, acl |-> ssFiles[f].acl] \in FileMetadata
  BY DEF IInv, CatalogType, FileRecord, FileMetadata
<1>2. reported' \subseteq FileMetadata
  BY <1>1 DEF ss_emit_file_list
<1>3. CatalogType'
  BY <1>2 DEF IInv, CatalogType, ss_emit_file_list, ns
<1>4. MailType' /\ DecidedOnce' /\ RejectedIsFinal'
  BY DEF IInv, ss_emit_file_list, ns, history, MailType, DecidedOnce, RejectedIsFinal
<1> QED BY <1>3, <1>4 DEF IInv

\* The name server reads a report.
LEMMA HasFileKeeps ==
    ASSUME IInv, NEW m \in reported, HasFile(m)
    PROVE  IInv'
<1>1. m \in FileMetadata /\ files \in Seq(FileMetadata)
  BY DEF IInv, CatalogType
<1>2. Append(files, m) \in Seq(FileMetadata)
  BY <1>1
<1> DEFINE g == [i \in DOMAIN files |->
                   IF i \in Lookup(m.filename) THEN m ELSE files[i]]
<1>3. g \in Seq(FileMetadata)
  <2>1. DOMAIN files = 1..Len(files) /\ Len(files) \in Nat
    BY <1>1
  <2>2. \A i \in 1..Len(files) : files[i] \in FileMetadata
    BY <1>1
  <2>3. g \in [1..Len(files) -> FileMetadata]
    BY <1>1, <2>1, <2>2
  <2> QED BY <2>1, <2>3
<1>4. files' \in Seq(FileMetadata)
  BY <1>2, <1>3 DEF HasFile
<1>5. CatalogType'
  BY <1>4 DEF IInv, CatalogType, HasFile
<1>6. MailType' /\ DecidedOnce' /\ RejectedIsFinal'
  BY DEF IInv, HasFile, history, MailType, DecidedOnce, RejectedIsFinal
<1> QED BY <1>5, <1>6 DEF IInv

\* A command ends.
LEMMA SucceedKeeps ==
    ASSUME IInv, NEW h \in Users, Succeed(h)
    PROVE  IInv'
<1>1. CatalogType'
  BY DEF IInv, CatalogType, Succeed, Done, ns, ss
<1>2. MailType' /\ DecidedOnce' /\ RejectedIsFinal'
  BY DoneGoesOn, MailKept DEF IInv, Succeed, ns, Done
<1> QED BY <1>1, <1>2 DEF IInv

\* CREATE takes its entry out again.
LEMMA CreateRollbackKeeps ==
    ASSUME IInv, NEW h \in Users, CreateRollback(h)
    PROVE  IInv'
<1> DEFINE L == Lookup(cmd[h].filename)
           i == CHOOSE k \in L : TRUE
<1>1. files \in Seq(FileMetadata)
  BY DEF IInv, CatalogType
<1>2. ASSUME L # {} PROVE Without(i) \in Seq(FileMetadata)
  <2>1. i \in DOMAIN files
    BY <1>2 DEF Lookup
  <2> HIDE DEF i
  <2> QED BY <1>1, <2>1, WithoutType
<1>3. files' \in Seq(FileMetadata)
  BY <1>1, <1>2 DEF CreateRollback
<1>4. CatalogType'
  BY <1>3 DEF IInv, CatalogType, CreateRollback, Done, ss
<1>5. MailType' /\ DecidedOnce' /\ RejectedIsFinal'
  BY DoneGoesOn, MailKept DEF IInv, CreateRollback, Done
<1> QED BY <1>4, <1>5 DEF IInv

-----------------------------------------------------------------------------
(* The mailbox *)

\* REQUESTACCESS appends a pending request.
LEMMA RequestKeeps ==
    ASSUME IInv, NEW h \in Users, NEW f \in Files, NEW perm \in Perms,
           RequestAccess(h, f, perm)
    PROVE  IInv'
<1> DEFINE q(i) == [filename |-> f, from_user |-> h, to_user |-> files[i].owner,
                    grant |-> perm, is_pending |-> TRUE]
<1>1. PICK i \in Lookup(f) : /\ access_requests' = Append(access_requests, q(i))
                            /\ UNCHANGED <<files, ss, pc, cmd, history>>
  BY Zenon DEF RequestAccess
<1>2. q(i) \in AccessRequest
  BY LookupFinds, AclAssumption DEF AccessRequest, IInv, CatalogType
<1> HIDE DEF q
<1>3. access_requests \in Seq(AccessRequest)
  BY DEF IInv, MailType
<1>4. /\ access_requests' \in Seq(AccessRequest)
      /\ DOMAIN access_requests \subseteq DOMAIN access_requests'
      /\ \A r \in DOMAIN access_requests : access_requests'[r] = access_requests[r]
  BY <1>1, <1>2, <1>3
<1>5. CatalogType'
  BY <1>1 DEF IInv, CatalogType, ss
<1>6. MailType' /\ DecidedOnce' /\ RejectedIsFinal'
  BY <1>1, <1>4 DEF IInv, MailType, DecidedOnce, RejectedIsFinal, history
<1> QED BY <1>5, <1>6 DEF IInv

\* A handler begins to approve a request that is pending: it was not rejected.
LEMMA ApproveKeeps ==
    ASSUME IInv, NEW h \in Users, NEW r \in DOMAIN access_requests, ApproveAccess(h, r)
    PROVE  IInv'
<1> DEFINE q == access_requests[r]
           c(i) == [op |-> "approve", filename |-> q.filename, file_index |-> i,
                    user |-> q.from_user, perm |-> q.grant, had |-> {}, req |-> r]
<1>1. PICK i \in Lookup(q.filename) :
          /\ Idle(h, "approve") /\ MayDecide(h, r)
          /\ files' = [files EXCEPT ![i].acl = file_add_access(@, q.from_user, q.grant)]
          /\ access_requests' = SetPending(r, FALSE)
          /\ Begin(h, c(i))
          /\ UNCHANGED rejected
  BY Zenon DEF ApproveAccess
<1>2. /\ access_requests \in Seq(AccessRequest) /\ q \in AccessRequest /\ r \in Nat
      /\ files \in Seq(FileMetadata)
  BY DEF IInv, MailType, CatalogType
<1>3. q.from_user \in Users /\ q.filename \in Files /\ q.grant \in SUBSET Rights
  BY <1>2 DEF AccessRequest
<1>4. files' \in Seq(FileMetadata)
  BY <1>1, <1>2, <1>3, LookupFinds, AclTypes, SetAcl
<1>5. CatalogType'
  BY <1>1, <1>4 DEF IInv, CatalogType, Begin, ss
<1>6. i \in Nat \ {0}
  BY <1>1, <1>2, LookupFinds
<1>7. c(i) \in Command /\ c(i).op = "approve" /\ c(i).req = r
  BY <1>2, <1>3, <1>6 DEF Command
<1> HIDE DEF c
<1>8. /\ access_requests' \in Seq(AccessRequest)
      /\ DOMAIN access_requests' = DOMAIN access_requests
      /\ \A s \in DOMAIN access_requests :
            /\ access_requests'[s].to_user = access_requests[s].to_user
            /\ s # r => access_requests'[s] = access_requests[s]
      /\ access_requests'[r].is_pending = FALSE
  BY <1>1, <1>2, PendingSet
<1>9. q.is_pending /\ q.to_user = h /\ pc[h] = "idle" /\ r \notin rejected
  BY <1>1 DEF MayDecide, Idle, IInv, RejectedIsFinal
<1>10. /\ pc' \in [Users -> {"idle", "send", "ok", "failed"}]
       /\ \A k \in Users \ {h} : pc'[k] = pc[k]
  BY <1>1 DEF Begin, IInv, MailType
<1>11. /\ cmd' \in [Users -> Command \cup {NoCommand}] /\ cmd'[h] = c(i)
       /\ \A k \in Users \ {h} : cmd'[k] = cmd[k]
  BY <1>1, <1>7 DEF Begin, IInv, MailType
<1>12. MailType'
  BY <1>1, <1>7, <1>8, <1>10, <1>11 DEF IInv, MailType
<1>13. DecidedOnce'
  <2>1. ASSUME NEW k \in Users \ {h}, pc'[k] # "idle", cmd'[k].op = "approve"
        PROVE  /\ cmd'[k].req \in DOMAIN access_requests' \ rejected'
               /\ access_requests'[cmd'[k].req].to_user = k
               /\ ~access_requests'[cmd'[k].req].is_pending
    <3>1. /\ pc[k] # "idle" /\ cmd[k].op = "approve" /\ cmd'[k] = cmd[k]
          /\ rejected' = rejected
      BY <2>1, <1>1, <1>10, <1>11
    <3>2. /\ cmd[k].req \in DOMAIN access_requests \ rejected
          /\ access_requests[cmd[k].req].to_user = k
          /\ ~access_requests[cmd[k].req].is_pending
      BY <3>1 DEF IInv, DecidedOnce
    <3>3. cmd[k].req # r
      BY <3>2, <1>9
    <3> QED BY <3>1, <3>2, <3>3, <1>8
  <2>2. /\ cmd'[h].req \in DOMAIN access_requests' \ rejected'
        /\ access_requests'[cmd'[h].req].to_user = h
        /\ ~access_requests'[cmd'[h].req].is_pending
    BY <1>1, <1>7, <1>8, <1>9, <1>11
  <2> QED BY <2>1, <2>2 DEF DecidedOnce
<1>14. RejectedIsFinal'
  BY <1>1, <1>8, <1>9 DEF IInv, RejectedIsFinal, MailType
<1> QED BY <1>5, <1>12, <1>13, <1>14 DEF IInv

\* A request that is rejected is pending: no handler is approving it.
LEMMA RejectKeeps ==
    ASSUME IInv, NEW h \in Users, NEW r \in DOMAIN access_requests, RejectAccess(h, r)
    PROVE  IInv'
<1>1. /\ access_requests' \in Seq(AccessRequest)
      /\ DOMAIN access_requests' = DOMAIN access_requests
      /\ \A s \in DOMAIN access_requests :
            /\ access_requests'[s].to_user = access_requests[s].to_user
            /\ s # r => access_requests'[s] = access_requests[s]
      /\ access_requests'[r].is_pending = FALSE
  BY PendingSet DEF RejectAccess, IInv, MailType
<1>2. /\ access_requests[r].is_pending /\ rejected' = rejected \cup {r}
      /\ UNCHANGED <<files, ss, pc, cmd>>
  BY DEF RejectAccess, MayDecide
<1>3. CatalogType'
  BY <1>2 DEF IInv, CatalogType, ss
<1>4. MailType'
  BY <1>1, <1>2 DEF IInv, MailType
<1>5. DecidedOnce'
  BY <1>1, <1>2 DEF IInv, DecidedOnce
<1>6. RejectedIsFinal'
  BY <1>1, <1>2 DEF IInv, RejectedIsFinal, MailType
<1> QED BY <1>3, <1>4, <1>5, <1>6 DEF IInv

\* DELETE cancels requests; it makes none pending.
LEMMA DeleteKeeps ==
    ASSUME IInv, NEW h \in Users, NEW f \in Files, Delete(h, f)
    PROVE  IInv'
<1> DEFINE qs == [r \in DOMAIN access_requests |->
                    IF access_requests[r].filename = f
                    THEN [access_requests[r] EXCEPT !.is_pending = FALSE]
                    ELSE access_requests[r]]
<1>1. PICK i \in Lookup(f) :
          /\ files' = Without(i) /\ access_requests' = qs
          /\ ssFiles' = [ssFiles EXCEPT ![f] = NoFile]
          /\ UNCHANGED <<ssAlive, reported, pc, cmd, rejected>>
  BY Zenon DEF Delete
<1>2. files' \in Seq(FileMetadata)
  BY <1>1, LookupFinds, WithoutType DEF IInv, CatalogType
<1>3. ssFiles' \in [Files -> FileRecord \cup {NoFile}]
  BY <1>1 DEF IInv, CatalogType
<1>4. CatalogType'
  BY <1>1, <1>2, <1>3 DEF IInv, CatalogType
<1>5. access_requests \in Seq(AccessRequest)
  BY DEF IInv, MailType
<1>6. ASSUME NEW r \in DOMAIN access_requests
      PROVE  /\ qs[r] \in AccessRequest /\ qs[r].to_user = access_requests[r].to_user
             /\ ~access_requests[r].is_pending => ~qs[r].is_pending
  <2>1. access_requests[r] \in AccessRequest
    BY <1>5
  <2>2. \A q \in AccessRequest :
           LET d == [q EXCEPT !.is_pending = FALSE]
           IN  d \in AccessRequest /\ d.to_user = q.to_user /\ ~d.is_pending
    BY DEF AccessRequest
  <2> QED BY <2>1, <2>2
<1>7. qs \in Seq(AccessRequest) /\ DOMAIN qs = DOMAIN access_requests
  <2>1. DOMAIN access_requests = 1..Len(access_requests) /\ Len(access_requests) \in Nat
    BY <1>5
  <2>2. qs \in [1..Len(access_requests) -> AccessRequest]
    BY <1>6, <2>1
  <2> QED BY <2>1, <2>2
<1> HIDE DEF qs
<1>8. MailType'
  BY <1>1, <1>7 DEF IInv, MailType
<1>9. DecidedOnce'
  BY <1>1, <1>6, <1>7 DEF IInv, DecidedOnce
<1>10. RejectedIsFinal'
  BY <1>1, <1>6, <1>7 DEF IInv, RejectedIsFinal, MailType
<1> QED BY <1>4, <1>8, <1>9, <1>10 DEF IInv

\* The request that a failed APPROVEACCESS makes pending again was not rejected.
LEMMA RollbackKeeps ==
    ASSUME IInv, NEW h \in Users, Rollback(h)
    PROVE  IInv'
<1> DEFINE c == cmd[h]
           a(i) == IF c.op = "remove" THEN file_add_access(files[i].acl, c.user, c.had)
                                      ELSE remove_access(files[i].acl, c.user)
           g == [i \in DOMAIN files |->
                   IF i # c.file_index THEN files[i] ELSE [files[i] EXCEPT !.acl = a(i)]]
<1>1. /\ pc[h] = "failed" /\ c \in Command
      /\ files \in Seq(FileMetadata) /\ access_requests \in Seq(AccessRequest)
  BY DEF Rollback, IInv, MailType, CatalogType
<1>2. ASSUME NEW i \in DOMAIN files PROVE g[i] \in FileMetadata
  <2>0. files[i] \in FileMetadata
    BY <1>1
  <2>1. files[i] \in FileMetadata /\ files[i].acl \in Acl /\ c.user \in Users
    BY <1>1, <2>0 DEF FileMetadata, Command
  <2>2. a(i) \in Acl
    BY <2>1, AclTypes
  <2> HIDE DEF a
  <2> QED BY <2>1, <2>2, EntryWithAcl
<1>3. g \in Seq(FileMetadata)
  <2>1. DOMAIN files = 1..Len(files) /\ Len(files) \in Nat
    BY <1>1
  <2> HIDE DEF a
  <2>2. g \in [1..Len(files) -> FileMetadata]
    BY <1>2, <2>1
  <2> QED BY <2>1, <2>2
<1>4. files' = g
  BY DEF Rollback
<1>5. CatalogType'
  BY <1>3, <1>4 DEF IInv, CatalogType, Rollback, Done, ss
<1> HIDE DEF g, a
<1>6. CASE c.op # "approve"
  <2>1. MailType' /\ DecidedOnce' /\ RejectedIsFinal'
    BY <1>6, DoneGoesOn, MailKept DEF IInv, Rollback, Done
  <2> QED BY <1>5, <2>1 DEF IInv
<1>7. CASE c.op = "approve"
  <2>1. /\ c.req \in DOMAIN access_requests /\ c.req \notin rejected
        /\ access_requests[c.req].to_user = h
    BY <1>1, <1>7 DEF IInv, DecidedOnce
  <2>2. access_requests' = SetPending(c.req, TRUE)
    BY <1>7 DEF Rollback
  <2>3. /\ access_requests' \in Seq(AccessRequest)
        /\ DOMAIN access_requests' = DOMAIN access_requests
        /\ \A s \in DOMAIN access_requests :
              /\ access_requests'[s].to_user = access_requests[s].to_user
              /\ s # c.req => access_requests'[s] = access_requests[s]
    BY <1>1, <2>1, <2>2, PendingSet
  <2>4. /\ pc' \in [Users -> {"idle", "send", "ok", "failed"}]
        /\ cmd' \in [Users -> Command \cup {NoCommand}]
        /\ pc'[h] = "idle" /\ rejected' = rejected
        /\ \A k \in Users \ {h} : pc'[k] = pc[k] /\ cmd'[k] = cmd[k]
    BY DoneGoesOn DEF IInv, Rollback, Done
  <2>5. MailType'
    BY <2>3, <2>4 DEF IInv, MailType
  <2>6. DecidedOnce'
    BY <2>1, <2>3, <2>4 DEF IInv, DecidedOnce
  <2>7. RejectedIsFinal'
    BY <2>1, <2>3, <2>4 DEF IInv, RejectedIsFinal, MailType
  <2> QED BY <1>5, <2>5, <2>6, <2>7 DEF IInv
<1> QED BY <1>6, <1>7

-----------------------------------------------------------------------------
(* The theorem *)

\* The initial state satisfies the inductive invariant.
LEMMA IInvInit == Init => IInv
<1> SUFFICES ASSUME Init PROVE IInv
  OBVIOUS
<1>1. Cardinality(DOMAIN InitialOwner) \in Nat
  BY AclAssumption, FS_Subset, FS_CardinalityType
<1>2. files \in [1..Cardinality(DOMAIN InitialOwner) -> FileMetadata]
  BY AclAssumption DEF Init, FileMetadata, NoAcl, Acl
<1>3. files \in Seq(FileMetadata)
  BY <1>1, <1>2
<1>4. ssFiles \in [Files -> FileRecord \cup {NoFile}]
  BY AclAssumption DEF Init, FileRecord, NoAcl, Acl
<1>5. CatalogType
  BY <1>3, <1>4 DEF Init, CatalogType
<1>6. access_requests \in Seq(AccessRequest)
  BY DEF Init
<1>7. MailType /\ DecidedOnce /\ RejectedIsFinal
  BY <1>6 DEF Init, MailType, DecidedOnce, RejectedIsFinal
<1> QED BY <1>5, <1>7 DEF IInv

\* Every step preserves it.
LEMMA IInvStep == IInv /\ [Next]_vars => IInv'
<1> SUFFICES ASSUME IInv, [Next]_vars PROVE IInv'
  OBVIOUS
<1>1. ASSUME NEW h \in Users, ClientStep(h) PROVE IInv'
  <2>1. CASE \E f \in Files, u \in Users, perm \in Perms : AddAccess(h, f, u, perm)
    BY <2>1, AddAccessKeeps
  <2>2. CASE \E f \in Files, u \in Users : RemAccess(h, f, u)
    BY <2>2, RemAccessKeeps
  <2>3. CASE \E f \in Files, perm \in Perms : RequestAccess(h, f, perm)
    BY <2>3, RequestKeeps
  <2>4. CASE \E r \in DOMAIN access_requests : ApproveAccess(h, r) \/ RejectAccess(h, r)
    BY <2>4, ApproveKeeps, RejectKeeps
  <2>5. CASE \E f \in Files : Create(h, f) \/ Delete(h, f)
    BY <2>5, CreateKeeps, DeleteKeeps
  <2>6. CASE \E f \in Files : SsDownAfterDelete(h, f)
    <3>1. PICK f \in Files : Lost /\ ssFiles' = [ssFiles EXCEPT ![f] = NoFile]
      BY <2>6 DEF SsDownAfterDelete
    <3>2. ssFiles' \in [Files -> FileRecord \cup {NoFile}]
      BY <3>1 DEF IInv, CatalogType
    <3> QED BY <3>1, <3>2, LostKeeps
  <2>7. CASE Succeed(h) \/ Rollback(h) \/ CreateRollback(h)
    BY <2>7, SucceedKeeps, RollbackKeeps, CreateRollbackKeeps
  <2> QED BY <1>1, <2>1, <2>2, <2>3, <2>4, <2>5, <2>6, <2>7 DEF ClientStep
<1>2. ASSUME NEW h \in Users, SsDownAfter(h) PROVE IInv'
  <2>1. cmd[h] \in Command
    BY <1>2 DEF SsDownAfter, IInv, MailType
  <2> QED BY <1>2, <2>1, SsApplyType, LostKeeps DEF SsDownAfter, IInv
<1>3. CASE SsDown
  BY <1>3, LostKeeps DEF SsDown, IInv, CatalogType
<1>4. CASE UNCHANGED vars
  BY <1>4 DEF vars, ns, ss, history, IInv, CatalogType, MailType, DecidedOnce, RejectedIsFinal
<1> QED BY <1>1, <1>2, <1>3, <1>4, SsExecuteKeeps, CannotCreateKeeps, EmitKeeps,
           HasFileKeeps DEF Next

\* A rejected request is never pending again: for any users, files and limits,
\* whatever fails and is rolled back, and with files deleted and created again,
\* APPROVEACCESS never revives what REJECTACCESS decided.
THEOREM RejectionIsFinal == Spec => []RejectedIsFinal
<1>1. IInv => RejectedIsFinal
  BY DEF IInv
<1> QED BY <1>1, IInvInit, IInvStep, PTL DEF Spec

-----------------------------------------------------------------------------
(* The lists of the two servers *)

\* AclMirrors is about commands that reach the storage server and an answer that
\* comes back, and about lists with room for every user: APPROVEACCESS does not
\* look at the owner, and a storage server that is down does not answer.
Reliable ==
    /\ ~MayFail /\ "approve" \notin Ops
    /\ IsFiniteSet(Users)
    /\ Cardinality(Users) <= NS_MAX_CLIENTS
    /\ Cardinality(Users) <= SS_MAX_USERS_PER_FILE

\* The entries of the catalogue.
Entries == {files[i] : i \in DOMAIN files}

\* Two lists allow the same to everybody.
Alike(a, b) == \A u \in Users, x \in Rights : MayAccess(a, u, x) <=> MayAccess(b, u, x)

\* The storage server is there and its file list was read.
Connected == ssAlive /\ reported = {}

\* A name has one entry, and what the storage server has is in the catalogue.
NamesUnique ==
    /\ \A i, j \in DOMAIN files : files[i].filename = files[j].filename => i = j
    /\ \A f \in Files : ssFiles[f] # NoFile => \E m \in Entries : m.filename = f

\* A handler that is not idle works on a file of its user.
OwnersWork ==
    \A h \in Users : pc[h] # "idle" =>
        /\ cmd[h].op \in {"add", "remove", "create"}
        /\ pc[h] = "failed" => cmd[h].op = "create"
        /\ \E m \in Entries : m.filename = cmd[h].filename /\ m.owner = h

\* The owner of the entry is working on it.
WorkedOn(m) == pc[m.owner] # "idle" /\ cmd[m.owner].filename = m.filename

\* The two servers agree on an entry, or the storage server has still to carry
\* out the command of the owner, and will then agree.
Mirrored(m) ==
    LET c == cmd[m.owner]
        rec == ssFiles[m.filename]
    IN  /\ ~WorkedOn(m) \/ pc[m.owner] = "ok" => rec # NoFile /\ Alike(m.acl, rec.acl)
        /\ WorkedOn(m) /\ pc[m.owner] = "failed" => rec = NoFile
        /\ WorkedOn(m) /\ pc[m.owner] = "send" =>
              CASE c.op = "create" -> rec = NoFile /\ m.acl = NoAcl
                [] c.op = "remove" -> /\ rec # NoFile
                                      /\ acl_contains(rec.acl, c.user) # {}
                                      /\ Alike(m.acl, remove_access(rec.acl, c.user))
                [] OTHER -> /\ rec # NoFile
                            /\ Alike(m.acl, ss_add(rec.acl, c.user, c.perm))

\* The inductive invariant of AclMirrors.
MirrorInv == Connected /\ NamesUnique /\ OwnersWork /\ \A m \in Entries : Mirrored(m)

\* Lists with room for every user take every user.
LEMMA AlwaysFits ==
    ASSUME Reliable, NEW acl \in Acl, NEW u \in Users, NEW x \in Rights
    PROVE  Fits(acl[x], u, NS_MAX_CLIENTS) /\ Fits(acl[x], u, SS_MAX_USERS_PER_FILE)
<1>1. acl[x] \in SUBSET Users
  BY DEF Acl
<1>2. /\ IsFiniteSet(Users) /\ Cardinality(Users) \in Nat /\ IsFiniteSet(acl[x])
      /\ Cardinality(acl[x]) \in Nat
      /\ Cardinality(acl[x]) <= Cardinality(Users)
      /\ Cardinality(Users) = Cardinality(acl[x]) => Users = acl[x]
  BY <1>1, FS_Subset, FS_CardinalityType DEF Reliable
<1>3. u \notin acl[x] => Cardinality(acl[x]) < Cardinality(Users)
  BY <1>2
<1> QED BY <1>2, <1>3, AclAssumption DEF Fits, Reliable

\* What ADDACCESS does at the two servers comes to the same.
LEMMA AddAlike ==
    ASSUME Reliable, NEW a \in Acl, NEW b \in Acl, NEW u \in Users, NEW perm \in Perms,
           Alike(a, b)
    PROVE  /\ add_succeeds(a, u, Wanted(perm), NS_MAX_CLIENTS)
           /\ Alike(file_add_access(a, u, perm), ss_add(b, u, perm))
<1>1. \A x \in Rights : Fits(a[x], u, NS_MAX_CLIENTS)
  BY AlwaysFits
<1>2. perm \in SUBSET Rights /\ perm # {} /\ Wanted(perm) \in SUBSET Rights
  <2>1. perm \in SUBSET Rights /\ perm # {}
    BY AclAssumption
  <2> QED BY <2>1 DEF Wanted
<1>3. add_succeeds(a, u, Wanted(perm), NS_MAX_CLIENTS)
  BY <1>1, <1>2 DEF add_succeeds
<1>4. file_add_access(a, u, perm) =
          [x \in Rights |-> IF x \in Wanted(perm) THEN a[x] \cup {u} ELSE a[x]]
  BY <1>1 DEF file_add_access, Rights
<1>5. ASSUME NEW v \in Users, NEW x \in Rights
      PROVE  MayAccess(file_add_access(a, u, perm), v, x) <=> MayAccess(ss_add(b, u, perm), v, x)
  <2>1. MayAccess(a, v, x) <=> MayAccess(b, v, x)
    BY DEF Alike
  <2> QED BY <1>2, <1>4, <2>1 DEF MayAccess, ss_add, Wanted, Rights
<1> QED BY <1>3, <1>5 DEF Alike

\* So does what REMACCESS does; the storage server finds the user when the name
\* server did.
LEMMA RemoveAlike ==
    ASSUME NEW a \in Acl, NEW b \in Acl, NEW u \in Users, Alike(a, b)
    PROVE  /\ Alike(remove_access(a, u), remove_access(b, u))
           /\ acl_contains(a, u) # {} => acl_contains(b, u) # {}
<1>1. MayAccess(a, u, "R") <=> MayAccess(b, u, "R")
  BY DEF Alike, Rights
<1>2. ASSUME NEW v \in Users, NEW x \in Rights
      PROVE  MayAccess(remove_access(a, u), v, x) <=> MayAccess(remove_access(b, u), v, x)
  <2>1. MayAccess(a, v, x) <=> MayAccess(b, v, x)
    BY DEF Alike
  <2> QED BY <2>1 DEF MayAccess, remove_access, Rights
<1> QED BY <1>1, <1>2 DEF Alike, acl_contains, MayAccess, Rights

\* Other lists for the entry of a name.
LEMMA EntriesSetAcl ==
    ASSUME files \in Seq(FileMetadata), NamesUnique, NEW i \in DOMAIN files, NEW a \in Acl,
           files' = [files EXCEPT ![i].acl = a]
    PROVE  /\ \A j, k \in DOMAIN files' : files'[j].filename = files'[k].filename => j = k
           /\ \A m : m.filename # files[i].filename => (m \in Entries' <=> m \in Entries)
           /\ \A m \in Entries' : m.filename = files[i].filename
                                    => m.owner = files[i].owner /\ m.acl = a
           /\ \E m \in Entries' : m.filename = files[i].filename /\ m.owner = files[i].owner
<1> DEFINE e == [files[i] EXCEPT !.acl = a]
<1>1. files[i] \in FileMetadata
  OBVIOUS
<1>2. e.filename = files[i].filename /\ e.owner = files[i].owner /\ e.acl = a
  BY <1>1 DEF FileMetadata
<1>3. files' = [files EXCEPT ![i] = e]
  OBVIOUS
<1> HIDE DEF e
<1>4. /\ DOMAIN files' = DOMAIN files /\ files'[i] = e
      /\ \A j \in DOMAIN files : j # i => files'[j] = files[j]
  BY <1>3
<1>5. \A j \in DOMAIN files : files'[j].filename = files[j].filename
  BY <1>2, <1>4
<1>6. \A j \in DOMAIN files : files[j].filename = files[i].filename => j = i
  BY DEF NamesUnique
<1>7. \A j, k \in DOMAIN files' : files'[j].filename = files'[k].filename => j = k
  BY <1>4, <1>5 DEF NamesUnique
<1>8. \A m : m \in Entries <=> \E j \in DOMAIN files : m = files[j]
  BY DEF Entries
<1>9. \A m : m \in Entries' <=> \E j \in DOMAIN files : m = files'[j]
  BY <1>4 DEF Entries
<1>10. ASSUME NEW m, m.filename # files[i].filename PROVE m \in Entries' <=> m \in Entries
  BY <1>2, <1>4, <1>8, <1>9, <1>10
<1>11. ASSUME NEW m \in Entries', m.filename = files[i].filename
       PROVE  m.owner = files[i].owner /\ m.acl = a
  BY <1>2, <1>4, <1>5, <1>6, <1>9, <1>11
<1>12. \E m \in Entries' : m.filename = files[i].filename /\ m.owner = files[i].owner
  BY <1>2, <1>4, <1>9
<1> QED BY <1>7, <1>10, <1>11, <1>12

\* A new entry for a name that has none.
LEMMA EntriesAppend ==
    ASSUME files \in Seq(FileMetadata), NamesUnique, NEW e \in FileMetadata,
           Lookup(e.filename) = {}, files' = Append(files, e)
    PROVE  /\ \A j, k \in DOMAIN files' : files'[j].filename = files'[k].filename => j = k
           /\ Entries' = Entries \cup {e}
           /\ \A m \in Entries : m.filename # e.filename
<1>1. /\ Len(files) \in Nat /\ DOMAIN files = 1..Len(files)
      /\ DOMAIN files' = 1..(Len(files) + 1)
      /\ files'[Len(files) + 1] = e
      /\ \A j \in DOMAIN files : files'[j] = files[j]
  OBVIOUS
<1>2. \A j \in DOMAIN files : files[j].filename # e.filename
  BY DEF Lookup
<1>3. \A j \in DOMAIN files' : j \in DOMAIN files \/ j = Len(files) + 1
  BY <1>1
<1>4. \A j, k \in DOMAIN files' : files'[j].filename = files'[k].filename => j = k
  BY <1>1, <1>2, <1>3 DEF NamesUnique
<1>5. DOMAIN files' = DOMAIN files \cup {Len(files) + 1}
  BY <1>1
<1>6. Entries' = Entries \cup {e}
  BY <1>1, <1>5 DEF Entries
<1> QED BY <1>2, <1>4, <1>6 DEF Entries

\* The catalogue without the entry of a name.
LEMMA EntriesWithout ==
    ASSUME files \in Seq(FileMetadata), NamesUnique, NEW i \in DOMAIN files,
           files' = Without(i)
    PROVE  /\ \A j, k \in DOMAIN files' : files'[j].filename = files'[k].filename => j = k
           /\ \A m : m.filename # files[i].filename => (m \in Entries' <=> m \in Entries)
           /\ \A m \in Entries' : m.filename # files[i].filename
<1> DEFINE n == Len(files)
           s == [files EXCEPT ![i] = files[Len(files)]]
<1>1. n \in Nat \ {0} /\ DOMAIN files = 1..n /\ i \in 1..n /\ n \in DOMAIN files
  OBVIOUS
<1>2. /\ s \in Seq(FileMetadata) /\ Len(s) = n
      /\ \A j \in 1..n : s[j] = IF j = i THEN files[n] ELSE files[j]
  BY <1>1
<1>3. files' = SubSeq(s, 1, n - 1)
  BY DEF Without
<1> HIDE DEF s
<1>4. /\ Len(files') = n - 1 /\ DOMAIN files' = 1..(n - 1)
      /\ \A j \in 1..(n - 1) : files'[j] = s[j]
  BY <1>1, <1>2, <1>3
<1>5. \A j \in 1..(n - 1) : files'[j] = IF j = i THEN files[n] ELSE files[j]
  BY <1>1, <1>2, <1>4
<1>6. \A j, k \in 1..n : files[j].filename = files[k].filename => j = k
  BY <1>1 DEF NamesUnique
<1> HIDE DEF n
<1>7. \A j, k \in DOMAIN files' : files'[j].filename = files'[k].filename => j = k
  <2> SUFFICES ASSUME NEW j \in 1..(n - 1), NEW k \in 1..(n - 1),
                      files'[j].filename = files'[k].filename
               PROVE  j = k
    BY <1>4
  <2>1. j \in 1..n /\ k \in 1..n /\ j # n /\ k # n /\ n \in 1..n
    BY <1>1
  <2> QED BY <1>5, <1>6, <2>1
<1>8. \A m : m \in Entries <=> \E j \in 1..n : m = files[j]
  BY <1>1 DEF Entries
<1>9. \A m : m \in Entries' <=> \E j \in 1..(n - 1) : m = files'[j]
  BY <1>4 DEF Entries
<1>10. \A m \in Entries' : m.filename # files[i].filename
  <2> SUFFICES ASSUME NEW j \in 1..(n - 1) PROVE files'[j].filename # files[i].filename
    BY <1>9
  <2>1. j \in 1..n /\ j # n /\ n \in 1..n
    BY <1>1
  <2> QED BY <1>1, <1>5, <1>6, <2>1
<1>11. ASSUME NEW m, m.filename # files[i].filename, m \in Entries PROVE m \in Entries'
  <2>1. PICK j \in 1..n : m = files[j]
    BY <1>8, <1>11
  <2>2. j # i
    BY <2>1, <1>11
  <2>3. CASE j = n
    <3>1. i \in 1..(n - 1) /\ files'[i] = m
      BY <1>1, <1>5, <2>1, <2>2, <2>3
    <3> QED BY <3>1, <1>9
  <2>4. CASE j # n
    <3>1. j \in 1..(n - 1) /\ files'[j] = m
      BY <1>1, <1>5, <2>1, <2>2, <2>4
    <3> QED BY <3>1, <1>9
  <2> QED BY <2>3, <2>4
<1>12. ASSUME NEW m \in Entries' PROVE m \in Entries
  <2>1. PICK j \in 1..(n - 1) : m = files'[j]
    BY <1>9
  <2>2. j \in 1..n /\ n \in 1..n
    BY <1>1
  <2> QED BY <1>5, <1>8, <2>1, <2>2
<1> QED BY <1>7, <1>10, <1>11, <1>12

-----------------------------------------------------------------------------
(* One handler works on one file *)

\* An entry of another name than the file h works on is none of its business.
LEMMA Elsewhere ==
    ASSUME NEW h \in Users, NEW f \in Files, NEW m \in FileMetadata,
           Mirrored(m), m.filename # f,
           ssFiles'[m.filename] = ssFiles[m.filename],
           \A k \in Users \ {h} : pc'[k] = pc[k] /\ cmd'[k] = cmd[k],
           pc[h] = "idle" \/ cmd[h].filename = f,
           pc'[h] = "idle" \/ cmd'[h].filename = f
    PROVE  Mirrored(m)'
<1>1. m.owner \in Users
  BY DEF FileMetadata
<1>2. CASE m.owner = h
  <2>1. ~WorkedOn(m) /\ ~WorkedOn(m)'
    BY <1>2 DEF WorkedOn
  <2> QED BY <2>1 DEF Mirrored
<1>3. CASE m.owner # h
  <2>1. pc'[m.owner] = pc[m.owner] /\ cmd'[m.owner] = cmd[m.owner]
    BY <1>1, <1>3
  <2> QED BY <2>1 DEF Mirrored, WorkedOn
<1> QED BY <1>2, <1>3

\* A step of h that concerns only a file of h.
LEMMA OwnersStep ==
    ASSUME IInv, IInv', MirrorInv, NEW h \in Users, NEW f \in Files, Connected',
           \A k \in Users \ {h} : pc'[k] = pc[k] /\ cmd'[k] = cmd[k],
           pc[h] = "idle" \/ cmd[h].filename = f,
           \A g \in Files \ {f} : ssFiles'[g] = ssFiles[g],
           \A m : m.filename # f => (m \in Entries' <=> m \in Entries),
           \A m \in Entries : m.filename = f => m.owner = h,
           \A j, k \in DOMAIN files' : files'[j].filename = files'[k].filename => j = k,
           ssFiles'[f] # NoFile => \E m \in Entries' : m.filename = f,
           \A m \in Entries' : m.filename = f => Mirrored(m)',
           pc'[h] # "idle" =>
             /\ cmd'[h].filename = f /\ cmd'[h].op \in {"add", "remove", "create"}
             /\ pc'[h] = "failed" => cmd'[h].op = "create"
             /\ \E m \in Entries' : m.filename = f /\ m.owner = h
    PROVE  MirrorInv'
<1>1. NamesUnique'
  <2>1. ASSUME NEW g \in Files, ssFiles'[g] # NoFile
        PROVE  \E m \in Entries' : m.filename = g
    <3>1. CASE g = f
      BY <2>1, <3>1
    <3>2. CASE g # f
      BY <2>1, <3>2 DEF MirrorInv, NamesUnique
    <3> QED BY <3>1, <3>2
  <2> QED BY <2>1 DEF NamesUnique
<1>2. OwnersWork'
  <2>1. ASSUME NEW k \in Users, pc'[k] # "idle"
        PROVE  /\ cmd'[k].op \in {"add", "remove", "create"}
               /\ pc'[k] = "failed" => cmd'[k].op = "create"
               /\ \E m \in Entries' : m.filename = cmd'[k].filename /\ m.owner = k
    <3>1. CASE k = h
      BY <2>1, <3>1
    <3>2. CASE k # h
      <4>1. pc'[k] = pc[k] /\ cmd'[k] = cmd[k]
        BY <3>2
      <4>2. PICK m \in Entries : m.filename = cmd[k].filename /\ m.owner = k
        BY <2>1, <4>1 DEF MirrorInv, OwnersWork
      <4>3. m \in Entries'
        BY <3>2, <4>2
      <4>4. /\ cmd[k].op \in {"add", "remove", "create"}
            /\ pc[k] = "failed" => cmd[k].op = "create"
        BY <2>1, <4>1 DEF MirrorInv, OwnersWork
      <4> QED BY <4>1, <4>2, <4>3, <4>4
    <3> QED BY <3>1, <3>2
  <2> QED BY <2>1 DEF OwnersWork
<1>3. ASSUME NEW m \in Entries' PROVE Mirrored(m)'
  <2>1. CASE m.filename = f
    BY <2>1
  <2>2. CASE m.filename # f
    <3>1. m \in Entries /\ Mirrored(m)
      BY <2>2 DEF MirrorInv
    <3>2. m \in FileMetadata /\ m.filename \in Files
      <4>1. m \in FileMetadata
        BY <3>1 DEF Entries, IInv, CatalogType
      <4> QED BY <4>1 DEF FileMetadata
    <3>3. ssFiles'[m.filename] = ssFiles[m.filename]
      BY <2>2, <3>2
    <3>4. pc'[h] = "idle" \/ cmd'[h].filename = f
      OBVIOUS
    <3> QED BY <2>2, <3>1, <3>2, <3>3, <3>4, Elsewhere
  <2> QED BY <2>1, <2>2
<1> QED BY <1>1, <1>2, <1>3 DEF MirrorInv

\* The entry that a lookup finds is the one of its name.
LEMMA TheEntry ==
    ASSUME IInv, MirrorInv, NEW f, NEW i \in Lookup(f)
    PROVE  /\ files[i] \in Entries /\ files[i].filename = f /\ f \in Files
           /\ \A m \in Entries : m.filename = f => m = files[i]
<1>1. i \in DOMAIN files /\ files[i].filename = f /\ files[i] \in FileMetadata
  BY LookupFinds DEF IInv, CatalogType
<1>2. f \in Files
  BY <1>1 DEF FileMetadata
<1> QED BY <1>1, <1>2 DEF Entries, MirrorInv, NamesUnique

\* The entry of a file on which its owner has no command.
LEMMA IdleEntry ==
    ASSUME IInv, MirrorInv, NEW m \in Entries, pc[m.owner] = "idle"
    PROVE  /\ ssFiles[m.filename] \in FileRecord /\ ssFiles[m.filename].acl \in Acl
           /\ ssFiles[m.filename] # NoFile
           /\ m.acl \in Acl /\ Alike(m.acl, ssFiles[m.filename].acl)
<1>1. m \in FileMetadata
  BY DEF Entries, IInv, CatalogType
<1>2. m.filename \in Files /\ m.acl \in Acl
  BY <1>1 DEF FileMetadata
<1>3. ssFiles[m.filename] # NoFile /\ Alike(m.acl, ssFiles[m.filename].acl)
  BY DEF MirrorInv, Mirrored, WorkedOn
<1>4. ssFiles[m.filename] \in FileRecord
  BY <1>2, <1>3 DEF IInv, CatalogType
<1> QED BY <1>2, <1>3, <1>4 DEF FileRecord

\* Begin, while the storage server is connected.
LEMMA BeginSends ==
    ASSUME IInv, Connected, NEW h \in Users, NEW c, Begin(h, c)
    PROVE  /\ pc'[h] = "send" /\ cmd'[h] = c
           /\ \A k \in Users \ {h} : pc'[k] = pc[k] /\ cmd'[k] = cmd[k]
           /\ ssFiles' = ssFiles /\ Connected'
BY DEF Begin, IInv, MailType, Connected, ss

\* ADDACCESS changes the catalogue; the storage server will do the same.
LEMMA AddAccessMirrors ==
    ASSUME Reliable, IInv, IInv', MirrorInv, NEW h \in Users, NEW f \in Files,
           NEW u \in Users, NEW perm \in Perms, AddAccess(h, f, u, perm)
    PROVE  MirrorInv'
<1> DEFINE a(i) == file_add_access(files[i].acl, u, perm)
           c(i) == [op |-> "add", filename |-> f, file_index |-> i,
                    user |-> u, perm |-> perm, had |-> {}, req |-> 0]
<1>1. PICK i \in Lookup(f) :
          /\ pc[h] = "idle" /\ files[i].owner = h
          /\ files' = [files EXCEPT ![i].acl = a(i)]
          /\ IF add_succeeds(files[i].acl, u, Wanted(perm), NS_MAX_CLIENTS)
             THEN Begin(h, c(i)) ELSE UNCHANGED <<ss, pc, cmd>>
  BY Zenon DEF AddAccess, Idle
<1> DEFINE b == ssFiles[f].acl
<1>2. /\ i \in DOMAIN files /\ files[i].filename = f /\ files \in Seq(FileMetadata)
      /\ files[i] \in Entries /\ \A m \in Entries : m.filename = f => m = files[i]
  BY <1>1, LookupFinds, TheEntry DEF IInv, CatalogType
<1>3. /\ ssFiles[f] # NoFile /\ files[i].acl \in Acl /\ b \in Acl
      /\ Alike(files[i].acl, b)
  BY <1>1, <1>2, IdleEntry
<1>4. /\ add_succeeds(files[i].acl, u, Wanted(perm), NS_MAX_CLIENTS)
      /\ Alike(a(i), ss_add(b, u, perm))
  BY <1>3, AddAlike
<1>5. a(i) \in Acl
  BY <1>3, AclTypes
<1>6. Begin(h, c(i))
  BY <1>1, <1>4
<1> HIDE DEF a, b
<1>7. /\ pc'[h] = "send" /\ cmd'[h] = c(i) /\ ssFiles' = ssFiles /\ Connected'
      /\ \A k \in Users \ {h} : pc'[k] = pc[k] /\ cmd'[k] = cmd[k]
  BY <1>6, BeginSends DEF MirrorInv
<1>8. /\ \A j, k \in DOMAIN files' : files'[j].filename = files'[k].filename => j = k
      /\ \A m : m.filename # f => (m \in Entries' <=> m \in Entries)
      /\ \A m \in Entries' : m.filename = f => m.owner = h /\ m.acl = a(i)
      /\ \E m \in Entries' : m.filename = f /\ m.owner = h
  <2>1. NamesUnique /\ files' = [files EXCEPT ![i].acl = a(i)] /\ files[i].owner = h
    BY <1>1 DEF MirrorInv
  <2>2. /\ \A j, k \in DOMAIN files' : files'[j].filename = files'[k].filename => j = k
        /\ \A m : m.filename # files[i].filename => (m \in Entries' <=> m \in Entries)
        /\ \A m \in Entries' : m.filename = files[i].filename
                                 => m.owner = files[i].owner /\ m.acl = a(i)
        /\ \E m \in Entries' : m.filename = files[i].filename /\ m.owner = files[i].owner
    BY <2>1, <1>2, <1>5, EntriesSetAcl, Zenon
  <2> QED BY <1>2, <2>1, <2>2
<1>9. c(i).filename = f /\ c(i).op = "add" /\ c(i).user = u /\ c(i).perm = perm
  OBVIOUS
<1> HIDE DEF c
<1>10. ASSUME NEW m \in Entries', m.filename = f PROVE Mirrored(m)'
  <2>1. m.owner = h /\ m.acl = a(i)
    BY <1>8, <1>10
  <2> QED BY <2>1, <1>3, <1>4, <1>7, <1>9, <1>10 DEF Mirrored, WorkedOn, b
<1> QED BY <1>1, <1>2, <1>3, <1>7, <1>8, <1>9, <1>10, OwnersStep

\* So does REMACCESS.
LEMMA RemAccessMirrors ==
    ASSUME IInv, IInv', MirrorInv, NEW h \in Users, NEW f \in Files, NEW u \in Users,
           RemAccess(h, f, u)
    PROVE  MirrorInv'
<1> DEFINE a(i) == remove_access(files[i].acl, u)
           c(i) == [op |-> "remove", filename |-> f, file_index |-> i, user |-> u,
                    perm |-> {}, had |-> acl_contains(files[i].acl, u), req |-> 0]
<1>1. PICK i \in Lookup(f) :
          /\ pc[h] = "idle" /\ files[i].owner = h /\ acl_contains(files[i].acl, u) # {}
          /\ files' = [files EXCEPT ![i].acl = a(i)] /\ Begin(h, c(i))
  BY Zenon DEF RemAccess, Idle
<1> DEFINE b == ssFiles[f].acl
<1>2. /\ i \in DOMAIN files /\ files[i].filename = f /\ files \in Seq(FileMetadata)
      /\ files[i] \in Entries /\ \A m \in Entries : m.filename = f => m = files[i]
  BY <1>1, LookupFinds, TheEntry DEF IInv, CatalogType
<1>3. /\ ssFiles[f] # NoFile /\ files[i].acl \in Acl /\ b \in Acl
      /\ Alike(files[i].acl, b)
  BY <1>1, <1>2, IdleEntry
<1>4. Alike(a(i), remove_access(b, u)) /\ acl_contains(b, u) # {}
  BY <1>1, <1>3, RemoveAlike
<1>5. a(i) \in Acl
  BY <1>3, AclTypes
<1> HIDE DEF a, b
<1>7. /\ pc'[h] = "send" /\ cmd'[h] = c(i) /\ ssFiles' = ssFiles /\ Connected'
      /\ \A k \in Users \ {h} : pc'[k] = pc[k] /\ cmd'[k] = cmd[k]
  BY <1>1, BeginSends DEF MirrorInv
<1>8. /\ \A j, k \in DOMAIN files' : files'[j].filename = files'[k].filename => j = k
      /\ \A m : m.filename # f => (m \in Entries' <=> m \in Entries)
      /\ \A m \in Entries' : m.filename = f => m.owner = h /\ m.acl = a(i)
      /\ \E m \in Entries' : m.filename = f /\ m.owner = h
  <2>1. NamesUnique /\ files' = [files EXCEPT ![i].acl = a(i)] /\ files[i].owner = h
    BY <1>1 DEF MirrorInv
  <2>2. /\ \A j, k \in DOMAIN files' : files'[j].filename = files'[k].filename => j = k
        /\ \A m : m.filename # files[i].filename => (m \in Entries' <=> m \in Entries)
        /\ \A m \in Entries' : m.filename = files[i].filename
                                 => m.owner = files[i].owner /\ m.acl = a(i)
        /\ \E m \in Entries' : m.filename = files[i].filename /\ m.owner = files[i].owner
    BY <2>1, <1>2, <1>5, EntriesSetAcl, Zenon
  <2> QED BY <1>2, <2>1, <2>2
<1>9. c(i).filename = f /\ c(i).op = "remove" /\ c(i).user = u
  OBVIOUS
<1> HIDE DEF c
<1>10. ASSUME NEW m \in Entries', m.filename = f PROVE Mirrored(m)'
  <2>1. m.owner = h /\ m.acl = a(i)
    BY <1>8, <1>10
  <2> QED BY <2>1, <1>3, <1>4, <1>7, <1>9, <1>10 DEF Mirrored, WorkedOn, b
<1> QED BY <1>1, <1>2, <1>3, <1>7, <1>8, <1>9, <1>10, OwnersStep

\* CREATE adds an entry for a name the storage server does not have.
LEMMA CreateMirrors ==
    ASSUME IInv, IInv', MirrorInv, NEW h \in Users, NEW f \in Files, Create(h, f)
    PROVE  MirrorInv'
<1> DEFINE c == [op |-> "create", filename |-> f, file_index |-> Len(files) + 1,
                 user |-> h, perm |-> {}, had |-> {}, req |-> 0]
           e == [filename |-> f, owner |-> h, acl |-> NoAcl]
<1>1. /\ pc[h] = "idle" /\ Lookup(f) = {} /\ files' = Append(files, e) /\ Begin(h, c)
  BY Zenon DEF Create, Idle
<1>2. e \in FileMetadata /\ e.filename = f /\ e.owner = h /\ e.acl = NoAcl
  BY DEF FileMetadata, NoAcl, Acl
<1>3. c.filename = f /\ c.op = "create"
  OBVIOUS
<1> HIDE DEF c, e
<1>4. /\ pc'[h] = "send" /\ cmd'[h] = c /\ ssFiles' = ssFiles /\ Connected'
      /\ \A k \in Users \ {h} : pc'[k] = pc[k] /\ cmd'[k] = cmd[k]
  BY <1>1, BeginSends DEF MirrorInv
<1>5. /\ \A j, k \in DOMAIN files' : files'[j].filename = files'[k].filename => j = k
      /\ Entries' = Entries \cup {e} /\ \A m \in Entries : m.filename # f
  BY <1>1, <1>2, EntriesAppend DEF IInv, CatalogType, MirrorInv
<1>6. ssFiles[f] = NoFile
  BY <1>5 DEF MirrorInv, NamesUnique
<1>7. ASSUME NEW m \in Entries', m.filename = f PROVE Mirrored(m)'
  <2>1. m = e
    BY <1>5, <1>7
  <2> QED BY <2>1, <1>2, <1>3, <1>4, <1>6 DEF Mirrored, WorkedOn
<1>8. /\ \A m : m.filename # f => (m \in Entries' <=> m \in Entries)
      /\ \E m \in Entries' : m.filename = f /\ m.owner = h
      /\ \A m \in Entries : m.filename = f => m.owner = h
  BY <1>2, <1>5
<1> QED BY <1>1, <1>3, <1>4, <1>5, <1>6, <1>7, <1>8, OwnersStep

\* DELETE removes a file on both sides.
LEMMA DeleteMirrors ==
    ASSUME IInv, IInv', MirrorInv, NEW h \in Users, NEW f \in Files, Delete(h, f)
    PROVE  MirrorInv'
<1>1. PICK i \in Lookup(f) :
          /\ pc[h] = "idle" /\ files[i].owner = h /\ files' = Without(i)
          /\ ssFiles' = [ssFiles EXCEPT ![f] = NoFile]
          /\ UNCHANGED <<ssAlive, reported, pc, cmd>>
  BY Zenon DEF Delete, Idle
<1>2. /\ i \in DOMAIN files /\ files[i].filename = f /\ files \in Seq(FileMetadata)
      /\ files[i] \in Entries /\ \A m \in Entries : m.filename = f => m = files[i]
  BY <1>1, LookupFinds, TheEntry DEF IInv, CatalogType
<1>3. /\ \A j, k \in DOMAIN files' : files'[j].filename = files'[k].filename => j = k
      /\ \A m : m.filename # f => (m \in Entries' <=> m \in Entries)
      /\ \A m \in Entries' : m.filename # f
  BY <1>1, <1>2, EntriesWithout DEF MirrorInv
<1>4. /\ ssFiles'[f] = NoFile /\ \A g \in Files \ {f} : ssFiles'[g] = ssFiles[g]
      /\ pc' = pc /\ cmd' = cmd /\ Connected'
  BY <1>1 DEF IInv, CatalogType, Connected, MirrorInv
<1> QED BY <1>1, <1>2, <1>3, <1>4, OwnersStep

\* The file of the command h carries out: its entry is the only one, and of h.
LEMMA Working ==
    ASSUME IInv, MirrorInv, NEW h \in Users, pc[h] # "idle"
    PROVE  /\ cmd[h].filename \in Files /\ cmd[h] \in Command
           /\ \A m \in Entries : m.filename = cmd[h].filename =>
                 m.owner = h /\ Mirrored(m) /\ WorkedOn(m) /\ m \in FileMetadata
           /\ \E m \in Entries : m.filename = cmd[h].filename /\ m.owner = h
<1>1. cmd[h] \in Command /\ cmd[h].filename \in Files
  BY DEF IInv, MailType, Command
<1>2. PICK e \in Entries : e.filename = cmd[h].filename /\ e.owner = h
  BY DEF MirrorInv, OwnersWork
<1>3. \A m \in Entries : m.filename = cmd[h].filename => m = e
  BY <1>2 DEF Entries, MirrorInv, NamesUnique
<1>4. e \in FileMetadata
  BY DEF Entries, IInv, CatalogType
<1> QED BY <1>1, <1>2, <1>3, <1>4 DEF MirrorInv, WorkedOn

\* A step that only moves h on, or ends its command.
LEMMA MovesOn ==
    ASSUME IInv, IInv', MirrorInv, NEW h \in Users, pc[h] # "idle", Connected',
           files' = files, cmd'[h].filename = cmd[h].filename \/ pc'[h] = "idle",
           \A k \in Users \ {h} : pc'[k] = pc[k] /\ cmd'[k] = cmd[k],
           \A g \in Files \ {cmd[h].filename} : ssFiles'[g] = ssFiles[g],
           \A m \in Entries : m.filename = cmd[h].filename => Mirrored(m)',
           pc'[h] # "idle" => cmd'[h] = cmd[h] /\ (pc'[h] = "failed" => cmd[h].op = "create")
    PROVE  MirrorInv'
<1> DEFINE f == cmd[h].filename
<1>1. Entries' = Entries
  BY DEF Entries
<1>2. /\ f \in Files /\ \A m \in Entries : m.filename = f => m.owner = h
      /\ \E m \in Entries : m.filename = f /\ m.owner = h
  BY Working
<1>3. cmd[h].op \in {"add", "remove", "create"}
  BY DEF MirrorInv, OwnersWork
<1>4. \A j, k \in DOMAIN files' : files'[j].filename = files'[k].filename => j = k
  BY DEF MirrorInv, NamesUnique
<1> HIDE DEF f
<1> QED BY <1>1, <1>2, <1>3, <1>4, OwnersStep DEF f

\* The storage server carries out the command: it cannot refuse it, and then the
\* two agree.
LEMMA SsExecuteMirrors ==
    ASSUME Reliable, IInv, IInv', MirrorInv, NEW h \in Users, SsExecute(h)
    PROVE  MirrorInv'
<1> DEFINE c == cmd[h]
           f == cmd[h].filename
           rec == ssFiles[f]
<1>1. /\ pc[h] = "send" /\ SsApply(c)
      /\ pc' = [pc EXCEPT ![h] = IF SsAccepts(c) THEN "ok" ELSE "failed"]
      /\ UNCHANGED <<files, ssAlive, reported, cmd>>
  BY DEF SsExecute, ns
<1>2. /\ c \in Command /\ f \in Files
      /\ \A m \in Entries : m.filename = f =>
            m.owner = h /\ Mirrored(m) /\ WorkedOn(m) /\ m \in FileMetadata
  BY <1>1, Working
<1>3. PICK e \in Entries : e.filename = f /\ e.owner = h
  BY <1>1, Working
<1>4. c.op \in {"add", "remove", "create"} /\ c.user \in Users
  BY <1>1, <1>2 DEF MirrorInv, OwnersWork, Command
<1>5. Mirrored(e) /\ WorkedOn(e) /\ pc[e.owner] = "send" /\ cmd[e.owner] = c
      /\ e \in FileMetadata /\ e.acl \in Acl
  BY <1>1, <1>2, <1>3 DEF FileMetadata
<1>6. f \in Files /\ rec \in FileRecord \cup {NoFile}
  BY <1>2 DEF IInv, CatalogType
<1>7. /\ rec # NoFile => rec \in FileRecord /\ rec.acl \in Acl
      /\ c.op = "create" => rec = NoFile /\ e.acl = NoAcl
      /\ c.op = "remove" => /\ rec # NoFile /\ acl_contains(rec.acl, c.user) # {}
                            /\ Alike(e.acl, remove_access(rec.acl, c.user))
      /\ c.op = "add" => rec # NoFile /\ Alike(e.acl, ss_add(rec.acl, c.user, c.perm))
  BY <1>3, <1>5, <1>6 DEF Mirrored, FileRecord
<1>8. SsAccepts(c)
  <2>1. c.perm \in SUBSET Rights
    BY <1>2 DEF Command
  <2>2. c.op = "add" => add_succeeds(rec.acl, c.user, c.perm, SS_MAX_USERS_PER_FILE)
    BY <1>4, <1>7, <2>1, AlwaysFits DEF add_succeeds
  <2> QED BY <1>4, <1>7, <2>2 DEF SsAccepts
<1> DEFINE new == CASE c.op = "create" -> [owner |-> c.user, acl |-> NoAcl]
                    [] c.op = "remove" -> [rec EXCEPT !.acl = remove_access(@, c.user)]
                    [] OTHER -> [rec EXCEPT !.acl = ss_add(@, c.user, c.perm)]
<1>9. ssFiles' = [ssFiles EXCEPT ![f] = new]
  BY <1>1, <1>8 DEF SsApply
<1>10. new # NoFile /\ Alike(e.acl, new.acl)
  <2>1. CASE c.op = "create"
    <3>1. new = [owner |-> c.user, acl |-> NoAcl] /\ new \in FileRecord /\ new.acl = NoAcl
      BY <2>1, <1>4 DEF FileRecord, NoAcl, Acl
    <3> QED BY <2>1, <3>1, <1>7, NoFileAssumption DEF Alike
  <2>2. CASE c.op = "remove"
    <3>1. remove_access(rec.acl, c.user) \in Acl
      BY <2>2, <1>4, <1>7, AclTypes
    <3>2. new = [rec EXCEPT !.acl = remove_access(rec.acl, c.user)]
      BY <2>2
    <3> HIDE DEF new
    <3>3. new \in FileRecord /\ new.acl = remove_access(rec.acl, c.user)
      BY <2>2, <3>1, <3>2, <1>7 DEF FileRecord
    <3> QED BY <2>2, <3>3, <1>7, NoFileAssumption
  <2>3. CASE c.op = "add"
    <3>1. ss_add(rec.acl, c.user, c.perm) \in Acl
      BY <2>3, <1>4, <1>7, AclTypes
    <3>2. new = [rec EXCEPT !.acl = ss_add(rec.acl, c.user, c.perm)]
      BY <2>3
    <3> HIDE DEF new
    <3>3. new \in FileRecord /\ new.acl = ss_add(rec.acl, c.user, c.perm)
      BY <2>3, <3>1, <3>2, <1>7 DEF FileRecord
    <3> QED BY <2>3, <3>3, <1>7, NoFileAssumption
  <2> QED BY <1>4, <2>1, <2>2, <2>3
<1> HIDE DEF new
<1>11. ssFiles'[f] = new /\ \A g \in Files \ {f} : ssFiles'[g] = ssFiles[g]
  BY <1>2, <1>9 DEF IInv, CatalogType
<1>12. pc'[h] = "ok" /\ cmd' = cmd /\ \A k \in Users \ {h} : pc'[k] = pc[k]
  BY <1>1, <1>8 DEF IInv, MailType
<1>13. ASSUME NEW m \in Entries, m.filename = f PROVE Mirrored(m)'
  <2>1. m = e
    BY <1>3, <1>13 DEF Entries, MirrorInv, NamesUnique
  <2>2. ssFiles'[e.filename] # NoFile /\ Alike(e.acl, ssFiles'[e.filename].acl) /\ pc'[e.owner] = "ok"
    BY <1>3, <1>10, <1>11, <1>12
  <2> QED BY <2>1, <2>2 DEF Mirrored
<1>14. Connected'
  BY <1>1 DEF MirrorInv, Connected
<1>15. files' = files
  BY <1>1
<1> HIDE DEF f, c, rec
<1> QED BY <1>1, <1>11, <1>12, <1>13, <1>14, <1>15, MovesOn DEF f, c

\* The storage server cannot create the file.
LEMMA CannotCreateMirrors ==
    ASSUME IInv, IInv', MirrorInv, NEW h \in Users, CannotCreate(h)
    PROVE  MirrorInv'
<1>1. /\ pc[h] = "send" /\ cmd[h].op = "create" /\ cmd' = cmd /\ files' = files
      /\ ssFiles' = ssFiles /\ Connected'
  BY DEF CannotCreate, ns, ss, Connected, MirrorInv
<1>2. pc'[h] = "failed" /\ \A k \in Users \ {h} : pc'[k] = pc[k]
  BY DEF CannotCreate, IInv, MailType
<1>3. ASSUME NEW m \in Entries, m.filename = cmd[h].filename PROVE Mirrored(m)'
  <2>1. m.owner = h /\ Mirrored(m) /\ WorkedOn(m)
    BY <1>1, <1>3, Working
  <2>2. ssFiles[m.filename] = NoFile
    BY <1>1, <2>1 DEF Mirrored
  <2> QED BY <1>1, <1>2, <1>3, <2>1, <2>2 DEF Mirrored, WorkedOn
<1> QED BY <1>1, <1>2, <1>3, MovesOn

\* The command is done: the servers agreed before.
LEMMA SucceedMirrors ==
    ASSUME IInv, IInv', MirrorInv, NEW h \in Users, Succeed(h)
    PROVE  MirrorInv'
<1>1. /\ pc[h] = "ok" /\ files' = files /\ ssFiles' = ssFiles /\ Connected'
  BY DEF Succeed, Done, ns, ss, Connected, MirrorInv
<1>2. pc'[h] = "idle" /\ \A k \in Users \ {h} : pc'[k] = pc[k] /\ cmd'[k] = cmd[k]
  BY DoneGoesOn DEF Succeed, IInv
<1>3. ASSUME NEW m \in Entries, m.filename = cmd[h].filename PROVE Mirrored(m)'
  <2>1. m.owner = h /\ Mirrored(m)
    BY <1>1, <1>3, Working
  <2>2. ssFiles[m.filename] # NoFile /\ Alike(m.acl, ssFiles[m.filename].acl)
    BY <1>1, <2>1 DEF Mirrored
  <2> QED BY <1>1, <1>2, <2>1, <2>2 DEF Mirrored, WorkedOn
<1> QED BY <1>1, <1>2, <1>3, MovesOn

\* CREATE takes its entry out again: the storage server has no such file.
LEMMA CreateRollbackMirrors ==
    ASSUME IInv, IInv', MirrorInv, NEW h \in Users, CreateRollback(h)
    PROVE  MirrorInv'
<1> DEFINE f == cmd[h].filename
           i == CHOOSE k \in Lookup(f) : TRUE
<1>1. /\ pc[h] = "failed" /\ ssFiles' = ssFiles /\ Connected'
      /\ files' = IF Lookup(f) = {} THEN files ELSE Without(i)
  BY DEF CreateRollback, Done, ss, Connected, MirrorInv
<1>2. pc'[h] = "idle" /\ \A k \in Users \ {h} : pc'[k] = pc[k] /\ cmd'[k] = cmd[k]
  BY DoneGoesOn DEF CreateRollback, IInv
<1>3. PICK e \in Entries : /\ f \in Files /\ e.filename = f /\ e.owner = h
                           /\ Mirrored(e) /\ WorkedOn(e)
  BY <1>1, Working
<1>4. ssFiles[f] = NoFile
  BY <1>1, <1>3 DEF Mirrored
<1>5. Lookup(f) # {} /\ i \in Lookup(f)
  BY <1>3 DEF Lookup, Entries
<1> HIDE DEF i
<1>6. /\ i \in DOMAIN files /\ files[i].filename = f /\ files \in Seq(FileMetadata)
      /\ files[i] \in Entries /\ \A m \in Entries : m.filename = f => m = files[i]
  BY <1>5, LookupFinds, TheEntry DEF IInv, CatalogType
<1>7. /\ \A j, k \in DOMAIN files' : files'[j].filename = files'[k].filename => j = k
      /\ \A m : m.filename # f => (m \in Entries' <=> m \in Entries)
      /\ \A m \in Entries' : m.filename # f
  BY <1>1, <1>5, <1>6, EntriesWithout DEF MirrorInv
<1> HIDE DEF f
<1> QED BY <1>1, <1>2, <1>3, <1>4, <1>6, <1>7, OwnersStep DEF f

\* At first both servers have the same files and nobody but the owners has rights.
LEMMA MirrorInit == Init => MirrorInv
<1> SUFFICES ASSUME Init PROVE MirrorInv
  OBVIOUS
<1> DEFINE D == DOMAIN InitialOwner
           n == Cardinality(D)
           names == [i \in 1..n |-> files[i].filename]
<1>1. IsFiniteSet(D) /\ n \in Nat
  BY AclAssumption, FS_Subset, FS_CardinalityType
<1>2. /\ files \in [1..n -> [filename : D, owner : Users, acl : {NoAcl}]]
      /\ \A i \in 1..n : files[i].owner = InitialOwner[files[i].filename]
      /\ \A f \in D : \E i \in 1..n : files[i].filename = f
  BY DEF Init
<1>3. /\ DOMAIN files = 1..n
      /\ \A i \in 1..n : files[i].filename \in D /\ files[i].acl = NoAcl /\ files[i].owner \in Users
  BY <1>2
<1> HIDE DEF D, n
<1>4. names \in Surjection(1..n, D)
  BY <1>2, <1>3 DEF Surjection
<1>5. IsFiniteSet(1..n) /\ Cardinality(1..n) = Cardinality(D)
  BY <1>1, FS_Interval DEF n
<1>6. names \in Injection(1..n, D)
  BY <1>4, <1>5, FS_SurjSameCardinalityImpliesInj
<1>7. \A i, j \in DOMAIN files : files[i].filename = files[j].filename => i = j
  BY <1>3, <1>6 DEF Injection, IsInjective
<1>8. /\ \A f \in Files : ssFiles[f] # NoFile => f \in D
      /\ \A f \in D : f \in Files /\ ssFiles[f] = [owner |-> InitialOwner[f], acl |-> NoAcl]
  BY AclAssumption DEF Init, D
<1>9. NamesUnique
  BY <1>2, <1>3, <1>7, <1>8 DEF NamesUnique, Entries
<1>10. Connected /\ OwnersWork
  BY DEF Init, Connected, OwnersWork
<1>11. ASSUME NEW m \in Entries PROVE Mirrored(m)
  <2>1. m.filename \in D /\ m.acl = NoAcl /\ m.owner \in Users
    BY <1>3 DEF Entries
  <2>2. pc[m.owner] = "idle"
    BY <2>1 DEF Init
  <2>3. InitialOwner[m.filename] \in Users
    BY <2>1, AclAssumption DEF D
  <2>4. ssFiles[m.filename] \in FileRecord /\ ssFiles[m.filename].acl = NoAcl
    <3>1. NoAcl \in Acl
      BY DEF NoAcl, Acl
    <3>2. ssFiles[m.filename] = [owner |-> InitialOwner[m.filename], acl |-> NoAcl]
      BY <2>1, <1>8
    <3> QED BY <2>3, <3>1, <3>2 DEF FileRecord
  <2> QED BY <2>1, <2>2, <2>4, NoFileAssumption DEF Mirrored, WorkedOn, Alike
<1> QED BY <1>9, <1>10, <1>11 DEF MirrorInv

\* Every step keeps the lists alike, or has the storage server catch up.
LEMMA MirrorNext ==
    ASSUME Reliable, IInv, IInv', MirrorInv, [Next]_vars
    PROVE  MirrorInv'
<1>1. ASSUME NEW h \in Users, ClientStep(h) PROVE MirrorInv'
  <2>1. CASE \E f \in Files, u \in Users, perm \in Perms : AddAccess(h, f, u, perm)
    BY <2>1, AddAccessMirrors
  <2>2. CASE \E f \in Files, u \in Users : RemAccess(h, f, u)
    BY <2>2, RemAccessMirrors
  <2>3. CASE \E f \in Files, perm \in Perms : RequestAccess(h, f, perm)
    <3>1. UNCHANGED <<files, ssFiles, ssAlive, reported, pc, cmd>>
      BY <2>3 DEF RequestAccess, ss
    <3> QED BY <3>1 DEF MirrorInv, Connected, NamesUnique, OwnersWork, Entries, Mirrored, WorkedOn
  <2>4. CASE \E r \in DOMAIN access_requests : ApproveAccess(h, r)
    BY <2>4 DEF ApproveAccess, Idle, Reliable
  <2>5. CASE \E r \in DOMAIN access_requests : RejectAccess(h, r)
    <3>1. UNCHANGED <<files, ssFiles, ssAlive, reported, pc, cmd>>
      BY <2>5 DEF RejectAccess, ss
    <3> QED BY <3>1 DEF MirrorInv, Connected, NamesUnique, OwnersWork, Entries, Mirrored, WorkedOn
  <2>6. CASE \E f \in Files : Create(h, f)
    BY <2>6, CreateMirrors
  <2>7. CASE \E f \in Files : Delete(h, f)
    BY <2>7, DeleteMirrors
  <2>8. CASE \E f \in Files : SsDownAfterDelete(h, f)
    BY <2>8 DEF SsDownAfterDelete, Lost, Reliable
  <2>9. CASE Rollback(h)
    BY <2>9 DEF Rollback, MirrorInv, OwnersWork
  <2>10. CASE Succeed(h) \/ CreateRollback(h)
    BY <2>10, SucceedMirrors, CreateRollbackMirrors
  <2> QED BY <1>1, <2>1, <2>2, <2>3, <2>4, <2>5, <2>6, <2>7, <2>8, <2>9, <2>10 DEF ClientStep
<1>2. ASSUME NEW h \in Users, SsExecute(h) PROVE MirrorInv'
  BY <1>2, SsExecuteMirrors
<1>3. ASSUME NEW h \in Users, CannotCreate(h) PROVE MirrorInv'
  BY <1>3, CannotCreateMirrors
<1>4. ASSUME NEW h \in Users PROVE ~SsDownAfter(h)
  BY DEF SsDownAfter, Lost, Reliable
<1>5. ~SsDown /\ ~ss_emit_file_list /\ \A m \in reported : ~HasFile(m)
  BY DEF SsDown, Lost, Reliable, ss_emit_file_list, MirrorInv, Connected
<1>6. CASE UNCHANGED vars
  <2>1. UNCHANGED <<files, ssFiles, ssAlive, reported, pc, cmd>>
    BY <1>6 DEF vars, ns, ss
  <2> QED BY <2>1 DEF MirrorInv, Connected, NamesUnique, OwnersWork, Entries, Mirrored, WorkedOn
<1> QED BY <1>1, <1>2, <1>3, <1>4, <1>5, <1>6 DEF Next

\* What is alike shows when nobody works on the file.
LEMMA MirrorSuffices == IInv /\ MirrorInv => AclMirrors
<1> SUFFICES ASSUME IInv, MirrorInv, NEW i \in DOMAIN files,
                    \A h \in Users : pc[h] # "idle" => cmd[h].filename # files[i].filename
             PROVE  Alike(files[i].acl, ssFiles[files[i].filename].acl)
  BY DEF AclMirrors, Alike
<1>1. files[i] \in FileMetadata /\ files[i] \in Entries
  BY DEF IInv, CatalogType, Entries
<1>2. files[i].owner \in Users
  BY <1>1 DEF FileMetadata
<1>3. ~WorkedOn(files[i])
  BY <1>2 DEF WorkedOn
<1> QED BY <1>1, <1>3 DEF MirrorInv, Mirrored

\* "mirror": as long as the storage server stays connected, APPROVEACCESS is not
\* used and the lists have room, the name server and the storage server allow the
\* same to everybody on every file that no command is changing, however ADDACCESS,
\* REMACCESS, CREATE, its rollback and DELETE of any number of users interleave.
THEOREM ListsMirror ==
    ASSUME Reliable
    PROVE  Spec => []AclMirrors
<1>1. IInv /\ IInv' /\ MirrorInv /\ [Next]_vars => MirrorInv'
  BY MirrorNext
<1> QED BY <1>1, IInvInit, IInvStep, MirrorInit, MirrorSuffices, PTL DEF Spec

-----------------------------------------------------------------------------
(* Who may access *)

\* OnlyOwnerGrants is about files that stay what they are: where CREATE may give
\* the name or the place of a file to another owner, a handler that still has the
\* old position or the old owner gives rights on the new file (see README.md).
FilesStay == "create" \notin Ops

\* Whoever these lists of f admit was granted it: it is in g.
Allowed(g, f, acl) ==
    \A u \in Users, x \in Rights : MayAccess(acl, u, x) => <<f, u, x>> \in g

\* The rights perm on f, and those they imply, were granted to u.
Granted(g, f, u, perm) == \A x \in Wanted(perm) : <<f, u, x>> \in g

CatalogAllowed == \A i \in DOMAIN files : Allowed(granted, files[i].filename, files[i].acl)

\* The files the name server knows are those of the start that are still there.
Catalogued ==
    /\ \A i, j \in DOMAIN files : files[i].filename = files[j].filename => i = j
    /\ \A i \in DOMAIN files :
          /\ files[i].filename \in DOMAIN InitialOwner
          /\ files[i].owner = InitialOwner[files[i].filename]

StoredAllowed ==
    \A f \in Files : ssFiles[f] # NoFile => Allowed(granted, f, ssFiles[f].acl)

\* The storage server has no other files.
Stored ==
    \A f \in Files : ssFiles[f] # NoFile =>
        /\ Lookup(f) # {} /\ f \in DOMAIN InitialOwner
        /\ ssFiles[f].owner = InitialOwner[f]

\* What it reports may be taken over.
Reportable(m) ==
    /\ Lookup(m.filename) # {} /\ m.filename \in DOMAIN InitialOwner
    /\ m.owner = InitialOwner[m.filename] /\ Allowed(granted, m.filename, m.acl)

Reports == \A m \in reported : Reportable(m)

\* A request is addressed to the owner of its file.
Addressed ==
    \A r \in DOMAIN access_requests :
        LET q == access_requests[r]
        IN  q.filename \in DOMAIN InitialOwner /\ q.to_user = InitialOwner[q.filename]

\* A handler works on a file of its user; what it gives, or would give back, was
\* granted, and its position still is the one of its file.
MayDo(h, c) ==
    /\ c.op \in {"add", "remove", "approve"}
    /\ c.filename \in DOMAIN InitialOwner /\ InitialOwner[c.filename] = h
    /\ c.op # "remove" => Granted(granted, c.filename, c.user, c.perm)
    /\ c.op = "remove" =>
          /\ Granted(granted, c.filename, c.user, c.had)
          /\ c.file_index \in DOMAIN files =>
                files[c.file_index].filename = c.filename

Entrusted(h) == pc[h] # "idle" => MayDo(h, cmd[h])

\* The inductive invariant of OnlyOwnerGrants.
GrantInv ==
    /\ Catalogued /\ CatalogAllowed /\ Stored /\ StoredAllowed /\ Reports /\ Addressed
    /\ \A h \in Users : Entrusted(h)

\* Adding a user who was granted the rights.
LEMMA AddAllowed ==
    ASSUME NEW g, NEW f, NEW acl \in Acl, NEW u \in Users, NEW perm \in SUBSET Rights,
           Allowed(g, f, acl), Granted(g, f, u, perm)
    PROVE  Allowed(g, f, file_add_access(acl, u, perm)) /\ Allowed(g, f, ss_add(acl, u, perm))
<1>1. \A x \in perm : x \in Wanted(perm)
  BY DEF Wanted
<1>2. "W" \in perm => Wanted(perm) = Rights
  BY DEF Wanted
<1>3. "W" \in Wanted(perm) => "W" \in perm
  BY DEF Wanted
<1>4. Allowed(g, f, file_add_access(acl, u, perm))
  <2> SUFFICES ASSUME NEW v \in Users, NEW x \in Rights,
                      MayAccess(file_add_access(acl, u, perm), v, x)
               PROVE  <<f, v, x>> \in g
    BY DEF Allowed
  <2>1. MayAccess(acl, v, x) => <<f, v, x>> \in g
    BY DEF Allowed
  <2>2. MayAccess(acl, v, x) \/ (v = u /\ x \in Wanted(perm))
    BY <1>2, <1>3 DEF MayAccess, file_add_access, Rights
  <2> QED BY <2>1, <2>2 DEF Granted
<1>5. Allowed(g, f, ss_add(acl, u, perm))
  <2> SUFFICES ASSUME NEW v \in Users, NEW x \in Rights,
                      MayAccess(ss_add(acl, u, perm), v, x)
               PROVE  <<f, v, x>> \in g
    BY DEF Allowed
  <2>1. MayAccess(acl, v, x) => <<f, v, x>> \in g
    BY DEF Allowed
  <2>2. MayAccess(acl, v, x) \/ (v = u /\ x \in Wanted(perm))
    BY <1>1, <1>2 DEF MayAccess, ss_add, Rights
  <2> QED BY <2>1, <2>2 DEF Granted
<1> QED BY <1>4, <1>5

LEMMA RemoveAllowed ==
    ASSUME NEW g, NEW f, NEW acl \in Acl, NEW u \in Users, Allowed(g, f, acl)
    PROVE  Allowed(g, f, remove_access(acl, u))
BY DEF Allowed, MayAccess, remove_access, Rights

\* The rights that a user has on a list.
LEMMA HadGranted ==
    ASSUME NEW g, NEW f, NEW acl \in Acl, NEW u \in Users, Allowed(g, f, acl)
    PROVE  Granted(g, f, u, acl_contains(acl, u))
BY DEF Allowed, MayAccess, Granted, Wanted, acl_contains, Rights

\* More is granted.
LEMMA GrantsGrow ==
    ASSUME granted \subseteq granted'
    PROVE  /\ \A f, acl : Allowed(granted, f, acl) => Allowed(granted', f, acl)
           /\ \A f, u, perm : Granted(granted, f, u, perm) => Granted(granted', f, u, perm)
BY DEF Allowed, Granted

\* The catalogue has the same files at the same places.
SamePlaces ==
    /\ DOMAIN files' = DOMAIN files
    /\ \A i \in DOMAIN files : /\ files'[i].filename = files[i].filename
                               /\ files'[i].owner = files[i].owner

LEMMA StillMayDo ==
    ASSUME granted \subseteq granted', SamePlaces
    PROVE  \A h, c : MayDo(h, c) => MayDo(h, c)'
BY GrantsGrow DEF MayDo, SamePlaces

\* Every handler goes on with its command, or ends it.
LEMMA StayEntrusted ==
    ASSUME granted \subseteq granted', SamePlaces, \A h \in Users : Entrusted(h),
           \A h \in Users : pc'[h] # "idle" => pc[h] # "idle" /\ cmd'[h] = cmd[h]
    PROVE  \A h \in Users : Entrusted(h)'
BY StillMayDo DEF Entrusted

\* A handler begins.
LEMMA BeginEntrusted ==
    ASSUME MailType, granted \subseteq granted', SamePlaces,
           \A h \in Users : Entrusted(h),
           NEW k \in Users, NEW c \in Command, Begin(k, c), MayDo(k, c)'
    PROVE  \A h \in Users : Entrusted(h)'
<1>1. /\ cmd'[k] = c
      /\ \A h \in Users : h # k => pc'[h] = pc[h] /\ cmd'[h] = cmd[h]
  BY DEF Begin, MailType
<1> QED BY <1>1, StillMayDo DEF Entrusted

\* No file comes into being, and none gets another owner.
SameRecords ==
    \A f \in Files : ssFiles'[f] # NoFile =>
        ssFiles[f] # NoFile /\ ssFiles'[f].owner = ssFiles[f].owner

\* A step that leaves every file where it is.
LEMMA InPlace ==
    ASSUME GrantInv, SamePlaces, SameRecords, granted \subseteq granted',
           CatalogAllowed', StoredAllowed', Addressed',
           \A m \in reported' : Reportable(m),
           \A h \in Users : Entrusted(h)'
    PROVE  GrantInv'
<1>1. \A f : Lookup(f)' = Lookup(f)
  BY DEF Lookup, SamePlaces
<1>2. Catalogued'
  BY DEF GrantInv, Catalogued, SamePlaces
<1>3. Stored'
  BY <1>1 DEF GrantInv, Stored, SameRecords
<1>4. \A m : Reportable(m) => Reportable(m)'
  BY <1>1, GrantsGrow DEF Reportable
<1>5. Reports'
  BY <1>4 DEF Reports
<1> QED BY <1>2, <1>3, <1>5 DEF GrantInv

\* The storage server keeps its files.
LEMMA StoredStays ==
    ASSUME granted \subseteq granted', StoredAllowed, ssFiles' = ssFiles
    PROVE  SameRecords /\ StoredAllowed'
BY GrantsGrow DEF SameRecords, StoredAllowed

\* Every request is still addressed to the owner of its file.
LEMMA PendingAddressed ==
    ASSUME access_requests \in Seq(AccessRequest), Addressed,
           NEW r \in DOMAIN access_requests, NEW b \in BOOLEAN,
           access_requests' = SetPending(r, b)
    PROVE  Addressed'
<1> DEFINE m == [access_requests[r] EXCEPT !.is_pending = b]
<1>1. access_requests[r] \in AccessRequest
  OBVIOUS
<1>2. m.to_user = access_requests[r].to_user /\ m.filename = access_requests[r].filename
  BY <1>1 DEF AccessRequest
<1>3. access_requests' = [access_requests EXCEPT ![r] = m]
  BY DEF SetPending
<1> HIDE DEF m
<1>4. /\ DOMAIN access_requests' = DOMAIN access_requests
      /\ \A s \in DOMAIN access_requests :
            /\ access_requests'[s].to_user = access_requests[s].to_user
            /\ access_requests'[s].filename = access_requests[s].filename
  BY <1>2, <1>3
<1> QED BY <1>4 DEF Addressed

\* One entry gets other lists, which admit who was granted it.
LEMMA ListsSet ==
    ASSUME files \in Seq(FileMetadata), CatalogAllowed, granted \subseteq granted',
           NEW i \in DOMAIN files, NEW a, Allowed(granted', files[i].filename, a),
           files' = [files EXCEPT ![i].acl = a]
    PROVE  SamePlaces /\ CatalogAllowed'
<1> DEFINE m == [files[i] EXCEPT !.acl = a]
<1>1. files[i] \in FileMetadata
  OBVIOUS
<1>2. m.filename = files[i].filename /\ m.owner = files[i].owner /\ m.acl = a
  BY <1>1 DEF FileMetadata
<1>3. files' = [files EXCEPT ![i] = m]
  OBVIOUS
<1> HIDE DEF m
<1>4. SamePlaces
  BY <1>2, <1>3 DEF SamePlaces
<1>5. ASSUME NEW j \in DOMAIN files PROVE Allowed(granted', files'[j].filename, files'[j].acl)
  <2>1. CASE j = i
    BY <1>2, <1>3, <2>1
  <2>2. CASE j # i
    BY <1>3, <2>2, GrantsGrow DEF CatalogAllowed
  <2> QED BY <2>1, <2>2
<1> QED BY <1>4, <1>5 DEF CatalogAllowed, SamePlaces

\* The owner of a file gives rights on it.
LEMMA Gives ==
    ASSUME IInv, GrantInv, NEW h \in Users, NEW i \in DOMAIN files,
           NEW u \in Users, NEW perm \in SUBSET Rights,
           files[i].owner = h, Grant(h, i, u, perm),
           files' = [files EXCEPT ![i].acl = file_add_access(@, u, perm)]
    PROVE  /\ SamePlaces /\ CatalogAllowed' /\ granted \subseteq granted'
           /\ Granted(granted', files[i].filename, u, perm)
<1> DEFINE f == files[i].filename
           a == file_add_access(files[i].acl, u, perm)
<1> files \in Seq(FileMetadata) /\ files[i] \in FileMetadata
  BY DEF IInv, CatalogType
<1>1. files[i].acl \in Acl
  BY DEF FileMetadata
<1>2. granted \subseteq granted' /\ Granted(granted', f, u, perm)
  BY DEF Grant, Granted
<1>3. Allowed(granted', f, files[i].acl)
  BY <1>2, GrantsGrow DEF GrantInv, CatalogAllowed
<1>4. Allowed(granted', f, a)
  BY <1>1, <1>2, <1>3, AddAllowed
<1>5. files' = [files EXCEPT ![i].acl = a]
  OBVIOUS
<1> HIDE DEF a
<1>6. SamePlaces /\ CatalogAllowed'
  BY <1>1, <1>2, <1>4, <1>5, ListsSet DEF GrantInv
<1> QED BY <1>2, <1>6

\* What IInv says of the types.
LEMMA Kinds ==
    ASSUME IInv
    PROVE  /\ MailType /\ files \in Seq(FileMetadata)
           /\ access_requests \in Seq(AccessRequest)
BY DEF IInv, MailType, CatalogType

\* ADDACCESS.
LEMMA AddAccessGrants ==
    ASSUME IInv, GrantInv, NEW h \in Users, NEW f \in Files, NEW u \in Users,
           NEW perm \in Perms, AddAccess(h, f, u, perm)
    PROVE  GrantInv'
<1> DEFINE c(i) == [op |-> "add", filename |-> f, file_index |-> i,
                    user |-> u, perm |-> perm, had |-> {}, req |-> 0]
<1>1. PICK i \in Lookup(f) :
          /\ files[i].owner = h /\ Grant(h, i, u, perm)
          /\ files' = [files EXCEPT ![i].acl = file_add_access(@, u, perm)]
          /\ Begin(h, c(i)) \/ UNCHANGED <<ss, pc, cmd>>
          /\ UNCHANGED access_requests
  BY Zenon DEF AddAccess
<1>2. i \in DOMAIN files /\ i \in Nat \ {0} /\ files[i].filename = f
  BY Kinds, LookupFinds
<1>3. perm \in SUBSET Rights
  BY AclAssumption
<1>4. /\ SamePlaces /\ CatalogAllowed' /\ granted \subseteq granted'
      /\ Granted(granted', f, u, perm)
  BY <1>1, <1>2, <1>3, Gives
<1>5. UNCHANGED ss
  BY <1>1 DEF Begin
<1>6. SameRecords /\ StoredAllowed' /\ Addressed' /\ reported' = reported
  BY <1>1, <1>4, <1>5, StoredStays DEF GrantInv, Addressed, ss
<1>7. f \in DOMAIN InitialOwner /\ InitialOwner[f] = h
  BY <1>1, <1>2 DEF GrantInv, Catalogued
<1>8. c(i) \in Command /\ MayDo(h, c(i))'
  BY <1>2, <1>3, <1>4, <1>7 DEF Command, MayDo
<1> HIDE DEF c
<1>9. \A k \in Users : Entrusted(k)'
  BY <1>1, <1>4, <1>8, Kinds, BeginEntrusted, StayEntrusted DEF GrantInv
<1> QED BY <1>4, <1>6, <1>9, InPlace DEF GrantInv, Reports

\* APPROVEACCESS: who decides is the owner.
LEMMA ApproveGrants ==
    ASSUME IInv, GrantInv, NEW h \in Users, NEW r \in DOMAIN access_requests,
           ApproveAccess(h, r)
    PROVE  GrantInv'
<1> DEFINE q == access_requests[r]
           c(i) == [op |-> "approve", filename |-> q.filename, file_index |-> i,
                    user |-> q.from_user, perm |-> q.grant, had |-> {}, req |-> r]
<1>1. PICK i \in Lookup(q.filename) :
          /\ MayDecide(h, r) /\ Grant(h, i, q.from_user, q.grant)
          /\ files' = [files EXCEPT ![i].acl = file_add_access(@, q.from_user, q.grant)]
          /\ access_requests' = SetPending(r, FALSE)
          /\ Begin(h, c(i))
  BY Zenon DEF ApproveAccess
<1>2. i \in DOMAIN files /\ i \in Nat \ {0} /\ files[i].filename = q.filename
  BY Kinds, LookupFinds
<1>3. q \in AccessRequest /\ r \in Nat
  BY Kinds
<1> PICK d : d = c(i)
  OBVIOUS
<1>4. q.from_user \in Users /\ q.filename \in Files /\ q.grant \in SUBSET Rights
  BY <1>3 DEF AccessRequest
<1>5. q.filename \in DOMAIN InitialOwner /\ InitialOwner[q.filename] = h
  BY <1>1 DEF GrantInv, Addressed, MayDecide
<1>6. files[i].owner = h
  BY <1>2, <1>5 DEF GrantInv, Catalogued
<1>7. /\ SamePlaces /\ CatalogAllowed' /\ granted \subseteq granted'
      /\ Granted(granted', q.filename, q.from_user, q.grant)
  BY <1>1, <1>2, <1>4, <1>6, Gives
<1>8. Addressed'
  BY <1>1, Kinds, PendingAddressed DEF GrantInv
<1>9. SameRecords /\ StoredAllowed' /\ reported' = reported
  BY <1>1, <1>7, StoredStays DEF GrantInv, Begin, ss
<1>10. d \in Command
  BY <1>2, <1>3, <1>4 DEF Command
<1>11. MayDo(h, d)'
  BY <1>5, <1>7 DEF MayDo
<1>12. \A k \in Users : Entrusted(k)'
  BY <1>1, <1>7, <1>10, <1>11, Kinds, BeginEntrusted DEF GrantInv
<1> QED BY <1>7, <1>8, <1>9, <1>12, InPlace DEF GrantInv, Reports

\* REMACCESS: what is taken away may be given back.
LEMMA RemAccessGrants ==
    ASSUME IInv, GrantInv, NEW h \in Users, NEW f \in Files, NEW u \in Users,
           RemAccess(h, f, u)
    PROVE  GrantInv'
<1> DEFINE had(i) == acl_contains(files[i].acl, u)
           c(i) == [op |-> "remove", filename |-> f, file_index |-> i,
                    user |-> u, perm |-> {}, had |-> had(i), req |-> 0]
<1>1. PICK i \in Lookup(f) :
          /\ files[i].owner = h
          /\ files' = [files EXCEPT ![i].acl = remove_access(@, u)]
          /\ Begin(h, c(i))
          /\ UNCHANGED <<access_requests, history>>
  BY Zenon DEF RemAccess
<1> PICK d : d = c(i)
  OBVIOUS
<1>2. /\ i \in DOMAIN files /\ i \in Nat \ {0} /\ files[i].filename = f
      /\ files[i].acl \in Acl
  BY Kinds, LookupFinds
<1>3. Allowed(granted, f, files[i].acl) /\ granted' = granted
  BY <1>1, <1>2 DEF GrantInv, CatalogAllowed, history
<1>4. Allowed(granted', f, remove_access(files[i].acl, u)) /\ Granted(granted', f, u, had(i))
  BY <1>2, <1>3, RemoveAllowed, HadGranted
<1>5. SamePlaces /\ CatalogAllowed'
  BY <1>1, <1>2, <1>3, <1>4, Kinds, ListsSet DEF GrantInv
<1>6. SameRecords /\ StoredAllowed' /\ Addressed' /\ reported' = reported
  BY <1>1, <1>3, StoredStays DEF GrantInv, Addressed, Begin, ss
<1>7. f \in DOMAIN InitialOwner /\ InitialOwner[f] = h
  BY <1>1, <1>2 DEF GrantInv, Catalogued
<1>8. had(i) \in SUBSET Rights
  BY DEF acl_contains
<1> HIDE DEF had
<1>9. d \in Command
  BY <1>2, <1>8 DEF Command
<1>10. MayDo(h, d)'
  BY <1>2, <1>4, <1>5, <1>7 DEF MayDo, SamePlaces
<1>11. \A k \in Users : Entrusted(k)'
  BY <1>1, <1>3, <1>5, <1>9, <1>10, Kinds, BeginEntrusted DEF GrantInv
<1> QED BY <1>3, <1>5, <1>6, <1>11, InPlace DEF GrantInv, Reports

\* A step that changes neither the catalogue nor what was granted.
LEMMA CatalogStays ==
    ASSUME GrantInv, UNCHANGED <<files, granted>>, Addressed',
           SameRecords, StoredAllowed', \A m \in reported' : Reportable(m),
           \A h \in Users : pc'[h] # "idle" => pc[h] # "idle" /\ cmd'[h] = cmd[h]
    PROVE  GrantInv'
<1>1. SamePlaces /\ CatalogAllowed' /\ granted \subseteq granted'
  BY DEF SamePlaces, GrantInv, CatalogAllowed
<1>2. \A h \in Users : Entrusted(h)'
  BY <1>1, StayEntrusted DEF GrantInv
<1> QED BY <1>1, <1>2, InPlace

\* REQUESTACCESS is addressed to the owner.
LEMMA RequestGrants ==
    ASSUME IInv, GrantInv, NEW h \in Users, NEW f \in Files, NEW perm \in Perms,
           RequestAccess(h, f, perm)
    PROVE  GrantInv'
<1> DEFINE q(i) == [filename |-> f, from_user |-> h, to_user |-> files[i].owner,
                    grant |-> perm, is_pending |-> TRUE]
<1>1. PICK i \in Lookup(f) : /\ access_requests' = Append(access_requests, q(i))
                            /\ UNCHANGED <<files, ss, pc, cmd, history>>
  BY Zenon DEF RequestAccess
<1> PICK p : p = q(i)
  OBVIOUS
<1>2. i \in DOMAIN files /\ files[i].filename = f
  BY Kinds, LookupFinds
<1>3. p.filename \in DOMAIN InitialOwner /\ p.to_user = InitialOwner[p.filename]
  BY <1>2 DEF GrantInv, Catalogued
<1> HIDE DEF q
<1>4. \A r \in DOMAIN access_requests' :
          \/ r \in DOMAIN access_requests /\ access_requests'[r] = access_requests[r]
          \/ access_requests'[r] = p
  <2>1. access_requests' = Append(access_requests, p)
    BY <1>1
  <2> QED BY <2>1, Kinds
<1>5. Addressed'
  BY <1>3, <1>4 DEF GrantInv, Addressed
<1>6. SameRecords /\ StoredAllowed' /\ reported' = reported /\ granted' = granted
  BY <1>1, StoredStays DEF GrantInv, ss, history
<1> QED BY <1>1, <1>5, <1>6, CatalogStays DEF GrantInv, Reports

\* REJECTACCESS.
LEMMA RejectGrants ==
    ASSUME IInv, GrantInv, NEW h \in Users, NEW r \in DOMAIN access_requests,
           RejectAccess(h, r)
    PROVE  GrantInv'
<1>1. Addressed'
  BY Kinds, PendingAddressed DEF GrantInv, RejectAccess
<1>2. SameRecords /\ StoredAllowed' /\ reported' = reported
  BY StoredStays DEF GrantInv, RejectAccess, ss
<1> QED BY <1>1, <1>2, CatalogStays DEF GrantInv, Reports, RejectAccess

\* The storage server does what the owner asked for.
LEMMA SsApplyGrants ==
    ASSUME IInv, GrantInv, granted' = granted,
           NEW h \in Users, NEW c \in Command, MayDo(h, c), SsApply(c)
    PROVE  SameRecords /\ StoredAllowed'
<1> DEFINE f == c.filename
           rec == ssFiles[f]
           a == IF c.op = "remove" THEN remove_access(rec.acl, c.user)
                                   ELSE ss_add(rec.acl, c.user, c.perm)
<1>1. CASE ~SsAccepts(c)
  BY <1>1, StoredStays DEF SsApply, GrantInv
<1>2. CASE SsAccepts(c)
  <2>1. c.op \in {"add", "remove", "approve"}
    BY DEF MayDo
  <2>2. f \in Files /\ c.user \in Users /\ c.perm \in SUBSET Rights
    BY DEF Command
  <2>3. rec # NoFile
    BY <1>2, <2>1 DEF SsAccepts
  <2>4. ssFiles \in [Files -> FileRecord \cup {NoFile}]
    BY DEF IInv, CatalogType
  <2>5. rec \in FileRecord
    BY <2>2, <2>3, <2>4
  <2>6. rec.acl \in Acl
    BY <2>5 DEF FileRecord
  <2>7. Allowed(granted, f, rec.acl)
    BY <2>2, <2>3 DEF GrantInv, StoredAllowed
  <2>8. Allowed(granted, f, a)
    BY <2>1, <2>2, <2>6, <2>7, AddAllowed, RemoveAllowed DEF MayDo
  <2>9. ssFiles' = [ssFiles EXCEPT ![f] = [rec EXCEPT !.acl = a]]
    BY <1>2, <2>1 DEF SsApply
  <2> HIDE DEF a
  <2>10. [rec EXCEPT !.acl = a].acl = a /\ [rec EXCEPT !.acl = a].owner = rec.owner
    BY <2>5 DEF FileRecord
  <2>11. /\ \A g \in Files \ {f} : ssFiles'[g] = ssFiles[g]
         /\ ssFiles'[f].acl = a /\ ssFiles'[f].owner = rec.owner
    BY <2>2, <2>4, <2>9, <2>10
  <2> QED BY <2>3, <2>8, <2>11 DEF GrantInv, SameRecords, StoredAllowed
<1> QED BY <1>1, <1>2

\* The storage server answers.
LEMMA SsExecuteGrants ==
    ASSUME IInv, GrantInv, NEW h \in Users, SsExecute(h)
    PROVE  GrantInv'
<1>1. cmd[h] \in Command /\ MayDo(h, cmd[h])
  BY DEF IInv, MailType, SsExecute, GrantInv, Entrusted
<1>2. /\ granted' = granted /\ UNCHANGED <<ns, reported, cmd>>
      /\ \A k \in Users : pc'[k] # "idle" => pc[k] # "idle"
  BY Kinds DEF SsExecute, history, MailType
<1>3. SameRecords /\ StoredAllowed'
  BY <1>1, <1>2, SsApplyGrants DEF SsExecute
<1>4. Addressed' /\ UNCHANGED files
  BY <1>2 DEF GrantInv, Addressed, ns
<1> QED BY <1>2, <1>3, <1>4, CatalogStays DEF GrantInv, Reports

\* The connection is lost.
LEMMA LostGrants ==
    ASSUME GrantInv, Lost, SameRecords, StoredAllowed'
    PROVE  GrantInv'
<1>1. UNCHANGED <<files, granted>> /\ Addressed' /\ reported' = {}
  BY DEF GrantInv, Addressed, Lost, ns, history
<1>2. \A k \in Users : pc'[k] # "idle" => pc[k] # "idle" /\ cmd'[k] = cmd[k]
  BY DEF Lost
<1> QED BY <1>1, <1>2, CatalogStays

LEMMA SsDownGrants ==
    ASSUME GrantInv, SsDown
    PROVE  GrantInv'
<1>1. Lost /\ SameRecords /\ StoredAllowed'
  BY StoredStays DEF GrantInv, SsDown, Lost, history
<1> QED BY <1>1, LostGrants

LEMMA SsDownAfterGrants ==
    ASSUME IInv, GrantInv, NEW h \in Users, SsDownAfter(h)
    PROVE  GrantInv'
<1>1. cmd[h] \in Command /\ MayDo(h, cmd[h])
  BY DEF IInv, MailType, SsDownAfter, GrantInv, Entrusted
<1>2. Lost /\ SameRecords /\ StoredAllowed'
  BY <1>1, SsApplyGrants DEF SsDownAfter, Lost, history
<1> QED BY <1>2, LostGrants

\* A DELETE that the storage server carried out.
LEMMA RecordGone ==
    ASSUME IInv, StoredAllowed, granted' = granted, NEW f \in Files,
           ssFiles' = [ssFiles EXCEPT ![f] = NoFile]
    PROVE  SameRecords /\ StoredAllowed'
<1>1. ssFiles'[f] = NoFile /\ \A g \in Files \ {f} : ssFiles'[g] = ssFiles[g]
  BY DEF IInv, CatalogType
<1> QED BY <1>1 DEF SameRecords, StoredAllowed

LEMMA SsDownAfterDeleteGrants ==
    ASSUME IInv, GrantInv, NEW h \in Users, NEW f \in Files, SsDownAfterDelete(h, f)
    PROVE  GrantInv'
<1>1. Lost /\ SameRecords /\ StoredAllowed'
  BY RecordGone DEF GrantInv, SsDownAfterDelete, Lost, history
<1> QED BY <1>1, LostGrants

\* The storage server reports what it has.
LEMMA EmitGrants ==
    ASSUME GrantInv, ss_emit_file_list
    PROVE  GrantInv'
<1>1. \A m \in reported' : Reportable(m)
  BY DEF ss_emit_file_list, GrantInv, Stored, StoredAllowed, Reportable
<1>2. UNCHANGED <<files, granted, pc, cmd>> /\ Addressed' /\ ssFiles' = ssFiles
  BY DEF GrantInv, Addressed, ss_emit_file_list, ns, history
<1>3. SameRecords /\ StoredAllowed'
  BY <1>2, StoredStays DEF GrantInv
<1> QED BY <1>1, <1>2, <1>3, CatalogStays

\* The name server takes over a report: the entry gets other lists.
LEMMA HasFileGrants ==
    ASSUME IInv, GrantInv, NEW m \in reported, HasFile(m)
    PROVE  GrantInv'
<1>1. Reportable(m) /\ granted' = granted
  BY DEF GrantInv, Reports, HasFile, history
<1>2. files' = [i \in DOMAIN files |-> IF i \in Lookup(m.filename) THEN m ELSE files[i]]
  BY <1>1 DEF HasFile, Reportable
<1>3. \A i \in DOMAIN files :
          i \in Lookup(m.filename) => files[i].filename = m.filename /\ files[i].owner = m.owner
  BY <1>1 DEF Lookup, Reportable, GrantInv, Catalogued
<1>4. SamePlaces
  BY <1>2, <1>3 DEF SamePlaces
<1>5. ASSUME NEW i \in DOMAIN files PROVE Allowed(granted', files'[i].filename, files'[i].acl)
  BY <1>1, <1>2 DEF Reportable, GrantInv, CatalogAllowed
<1>6. CatalogAllowed'
  BY <1>4, <1>5 DEF CatalogAllowed, SamePlaces
<1>7. Addressed' /\ UNCHANGED <<pc, cmd, ssFiles>>
  BY DEF GrantInv, Addressed, HasFile
<1>8. SameRecords /\ StoredAllowed'
  BY <1>1, <1>7, StoredStays DEF GrantInv
<1>9. \A h \in Users : Entrusted(h)'
  BY <1>1, <1>4, <1>7, StayEntrusted DEF GrantInv
<1>10. \A r \in reported' : Reportable(r)
  BY DEF HasFile, GrantInv, Reports
<1> QED BY <1>1, <1>4, <1>6, <1>7, <1>8, <1>9, <1>10, InPlace

\* A command ends,
LEMMA SucceedGrants ==
    ASSUME IInv, GrantInv, NEW h \in Users, Succeed(h)
    PROVE  GrantInv'
<1>1. \A k \in Users : pc'[k] # "idle" => pc[k] # "idle" /\ cmd'[k] = cmd[k]
  BY Kinds, DoneGoesOn DEF Succeed
<1>2. SameRecords /\ StoredAllowed'
  BY StoredStays DEF GrantInv, Succeed, Done, ss
<1>3. UNCHANGED <<files, granted>> /\ Addressed' /\ reported' = reported
  BY DEF GrantInv, Addressed, Succeed, Done, ns, ss
<1> QED BY <1>1, <1>2, <1>3, CatalogStays DEF GrantInv, Reports

\* ... or is undone: rights are given back to who had them.
LEMMA RollbackGrants ==
    ASSUME IInv, GrantInv, NEW h \in Users, Rollback(h)
    PROVE  GrantInv'
<1> DEFINE c == cmd[h]
           a(i) == IF c.op = "remove" THEN file_add_access(files[i].acl, c.user, c.had)
                                      ELSE remove_access(files[i].acl, c.user)
<1>1. /\ c \in Command /\ MayDo(h, c) /\ granted' = granted
      /\ files' = [i \in DOMAIN files |->
            IF i # c.file_index THEN files[i] ELSE [files[i] EXCEPT !.acl = a(i)]]
  BY DEF Rollback, IInv, MailType, GrantInv, Entrusted
<1>2. c.user \in Users /\ c.had \in SUBSET Rights
  BY <1>1 DEF Command
<1>3. ASSUME NEW i \in DOMAIN files
      PROVE  /\ files'[i].filename = files[i].filename
             /\ files'[i].owner = files[i].owner
             /\ Allowed(granted, files[i].filename, files'[i].acl)
  <2>1. files[i] \in FileMetadata
    BY Kinds
  <2>2. files[i].acl \in Acl
    BY <2>1 DEF FileMetadata
  <2>3. Allowed(granted, files[i].filename, files[i].acl)
    BY DEF GrantInv, CatalogAllowed
  <2>4. CASE i # c.file_index
    BY <1>1, <2>3, <2>4
  <2>5. CASE i = c.file_index
    <3>1. Allowed(granted, files[i].filename, remove_access(files[i].acl, c.user))
      BY <1>2, <2>2, <2>3, RemoveAllowed
    <3>2. c.op = "remove" => Granted(granted, files[i].filename, c.user, c.had)
      BY <1>1, <2>5 DEF MayDo
    <3>3. c.op = "remove" =>
              Allowed(granted, files[i].filename, file_add_access(files[i].acl, c.user, c.had))
      BY <1>2, <2>2, <2>3, <3>2, AddAllowed
    <3>4. Allowed(granted, files[i].filename, a(i))
      BY <3>1, <3>3
    <3>5. files'[i] = [files[i] EXCEPT !.acl = a(i)]
      BY <1>1, <2>5
    <3> HIDE DEF a
    <3> QED BY <2>1, <3>4, <3>5 DEF FileMetadata
  <2> QED BY <2>4, <2>5
<1>4. SamePlaces
  BY <1>1, <1>3 DEF SamePlaces
<1>5. CatalogAllowed'
  BY <1>1, <1>3, <1>4 DEF CatalogAllowed, SamePlaces
<1>6. Addressed'
  <2>1. CASE c.op # "approve"
    BY <2>1 DEF GrantInv, Addressed, Rollback
  <2>2. CASE c.op = "approve"
    <3>1. c.req \in DOMAIN access_requests
      BY <2>2 DEF IInv, DecidedOnce, Rollback
    <3>2. access_requests' = SetPending(c.req, TRUE)
      BY <2>2 DEF Rollback
    <3> QED BY <3>1, <3>2, Kinds, PendingAddressed DEF GrantInv
  <2> QED BY <2>1, <2>2
<1>7. \A k \in Users : pc'[k] # "idle" => pc[k] # "idle" /\ cmd'[k] = cmd[k]
  BY Kinds, DoneGoesOn DEF Rollback
<1>8. SameRecords /\ StoredAllowed' /\ reported' = reported
  BY <1>1, StoredStays DEF GrantInv, Rollback, Done, ss
<1>9. \A k \in Users : Entrusted(k)'
  BY <1>1, <1>4, <1>7, StayEntrusted DEF GrantInv
<1> QED BY <1>1, <1>4, <1>5, <1>6, <1>8, <1>9, InPlace DEF GrantInv, Reports

\* Without an entry, the last one has its place.
LEMMA PlacesWithout ==
    ASSUME files \in Seq(FileMetadata), NEW i \in DOMAIN files, files' = Without(i)
    PROVE  /\ DOMAIN files' \subseteq DOMAIN files
           /\ \A j \in DOMAIN files' : j # i => files'[j] = files[j]
           /\ \A j \in DOMAIN files' : \E k \in DOMAIN files : files'[j] = files[k]
           /\ Len(files) \notin DOMAIN files'
           /\ i \in DOMAIN files' => files'[i] = files[Len(files)]
           /\ \A j \in DOMAIN files : j \in DOMAIN files' \/ j = Len(files)
<1> DEFINE n == Len(files)
           s == [files EXCEPT ![i] = files[Len(files)]]
<1>1. n \in Nat \ {0} /\ DOMAIN files = 1..n /\ i \in 1..n /\ n \in DOMAIN files
  OBVIOUS
<1>2. /\ s \in Seq(FileMetadata) /\ Len(s) = n
      /\ \A j \in 1..n : s[j] = IF j = i THEN files[n] ELSE files[j]
  BY <1>1
<1>3. files' = SubSeq(s, 1, n - 1)
  BY DEF Without
<1> HIDE DEF s
<1>4. /\ DOMAIN files' = 1..(n - 1)
      /\ \A j \in 1..(n - 1) : files'[j] = s[j]
  BY <1>1, <1>2, <1>3
<1>5. \A j \in 1..(n - 1) : j \in 1..n /\ files'[j] = IF j = i THEN files[n] ELSE files[j]
  BY <1>1, <1>2, <1>4
<1> HIDE DEF n
<1>6. Len(files) = n
  BY DEF n
<1> QED BY <1>1, <1>4, <1>5, <1>6

\* DELETE takes a file of an idle handler away, with what was granted on it.
LEMMA DeleteGrants ==
    ASSUME IInv, GrantInv, NEW h \in Users, NEW f \in Files, Delete(h, f)
    PROVE  GrantInv'
<1>1. PICK i \in Lookup(f) :
          /\ files[i].owner = h /\ pc[h] = "idle" /\ reported = {}
          /\ files' = Without(i)
          /\ access_requests' =
                [r \in DOMAIN access_requests |->
                    IF access_requests[r].filename = f
                    THEN [access_requests[r] EXCEPT !.is_pending = FALSE]
                    ELSE access_requests[r]]
          /\ ssFiles' = [ssFiles EXCEPT ![f] = NoFile]
          /\ granted' = {g \in granted : g[1] # f}
          /\ UNCHANGED <<reported, pc, cmd>>
  BY Zenon DEF Delete, Idle, Synced, Forget
<1>2. i \in DOMAIN files /\ files[i].filename = f
  BY Kinds, LookupFinds
<1>3. /\ DOMAIN files' \subseteq DOMAIN files
      /\ \A j \in DOMAIN files' : j # i => files'[j] = files[j]
      /\ \A j \in DOMAIN files' : \E k \in DOMAIN files : files'[j] = files[k]
      /\ Len(files) \notin DOMAIN files'
      /\ i \in DOMAIN files' => files'[i] = files[Len(files)]
      /\ \A j \in DOMAIN files : j \in DOMAIN files' \/ j = Len(files)
  BY <1>1, <1>2, Kinds, PlacesWithout
<1>4. Len(files) \in DOMAIN files
  BY <1>2, Kinds
<1>5. \A j, k \in DOMAIN files : files[j].filename = files[k].filename => j = k
  BY DEF GrantInv, Catalogued
<1>6. f \in DOMAIN InitialOwner /\ InitialOwner[f] = h
  BY <1>1, <1>2 DEF GrantInv, Catalogued
\* other files keep what was granted on them
<1>7. \A g, acl : g # f /\ Allowed(granted, g, acl) => Allowed(granted', g, acl)
  BY <1>1 DEF Allowed
<1>8. \A g, u, perm : g # f /\ Granted(granted, g, u, perm) => Granted(granted', g, u, perm)
  BY <1>1 DEF Granted
<1>9. \A j \in DOMAIN files' : files'[j].filename # f
  BY <1>2, <1>3, <1>4, <1>5
<1>10. Catalogued'
  <2>1. \A j \in DOMAIN files' :
            /\ files'[j].filename \in DOMAIN InitialOwner
            /\ files'[j].owner = InitialOwner[files'[j].filename]
    BY <1>3 DEF GrantInv, Catalogued
  <2>2. \A j, k \in DOMAIN files' : files'[j].filename = files'[k].filename => j = k
    <3> SUFFICES ASSUME NEW j \in DOMAIN files', NEW k \in DOMAIN files',
                        files'[j].filename = files'[k].filename
                 PROVE  j = k
      OBVIOUS
    <3> QED BY <1>3, <1>4, <1>5
  <2> QED BY <2>1, <2>2 DEF Catalogued
<1>11. CatalogAllowed'
  <2>1. \A j \in DOMAIN files' : Allowed(granted, files'[j].filename, files'[j].acl)
    BY <1>3 DEF GrantInv, CatalogAllowed
  <2> QED BY <2>1, <1>7, <1>9 DEF CatalogAllowed
<1>12. ssFiles'[f] = NoFile /\ \A g \in Files \ {f} : ssFiles'[g] = ssFiles[g]
  BY <1>1 DEF IInv, CatalogType
<1>13. ASSUME NEW g \in Files \ {f}, Lookup(g) # {} PROVE Lookup(g)' # {}
  <2>1. PICK j \in DOMAIN files : files[j].filename = g
    BY <1>13 DEF Lookup
  <2>2. \E k \in DOMAIN files' : files'[k] = files[j]
    BY <1>2, <1>3, <1>4, <2>1
  <2> QED BY <2>1, <2>2 DEF Lookup
<1>14. Stored' /\ StoredAllowed'
  BY <1>7, <1>12, <1>13 DEF GrantInv, Stored, StoredAllowed
<1>15. Reports'
  BY <1>1 DEF Reports
<1>16. Addressed'
  <2> SUFFICES ASSUME NEW r \in DOMAIN access_requests
               PROVE  /\ access_requests'[r].filename \in DOMAIN InitialOwner
                      /\ access_requests'[r].to_user
                            = InitialOwner[access_requests'[r].filename]
    BY <1>1 DEF Addressed
  <2>1. access_requests[r] \in AccessRequest
    BY Kinds
  <2>2. /\ access_requests'[r].filename = access_requests[r].filename
        /\ access_requests'[r].to_user = access_requests[r].to_user
    BY <1>1, <2>1 DEF AccessRequest
  <2> QED BY <2>2 DEF GrantInv, Addressed
<1>17. ASSUME NEW k \in Users PROVE Entrusted(k)'
  <2> SUFFICES ASSUME pc[k] # "idle" PROVE MayDo(k, cmd[k])'
    BY <1>1 DEF Entrusted
  <2>1. MayDo(k, cmd[k]) /\ cmd' = cmd
    BY <1>1 DEF GrantInv, Entrusted
  <2>2. cmd[k].filename # f
    BY <1>1, <1>6, <2>1 DEF MayDo
  <2>3. ASSUME cmd[k].op = "remove", cmd[k].file_index \in DOMAIN files'
        PROVE  files'[cmd[k].file_index].filename = cmd[k].filename
    <3>1. files[cmd[k].file_index].filename = cmd[k].filename
      BY <1>3, <2>1, <2>3 DEF MayDo
    <3> QED BY <1>2, <1>3, <2>2, <2>3, <3>1
  <2> QED BY <1>8, <2>1, <2>2, <2>3 DEF MayDo
<1> QED BY <1>10, <1>11, <1>14, <1>15, <1>16, <1>17 DEF GrantInv

\* No file is created.
LEMMA NoCreate ==
    ASSUME FilesStay, GrantInv, NEW h \in Users
    PROVE  /\ \A f \in Files : ~Create(h, f)
           /\ ~CannotCreate(h) /\ ~CreateRollback(h)
<1>1. pc[h] # "idle" => cmd[h].op # "create"
  BY DEF GrantInv, Entrusted, MayDo
<1> QED BY <1>1 DEF FilesStay, Create, Idle, CannotCreate, CreateRollback

LEMMA GrantsStay == GrantInv /\ UNCHANGED vars => GrantInv'
BY DEF GrantInv, vars, ns, ss, history, Catalogued, CatalogAllowed, Stored, StoredAllowed,
       Lookup, Reports, Reportable, Addressed, Entrusted, MayDo

LEMMA GrantNext ==
    FilesStay /\ IInv /\ GrantInv /\ [Next]_vars => GrantInv'
<1> SUFFICES ASSUME FilesStay, IInv, GrantInv, [Next]_vars PROVE GrantInv'
  OBVIOUS
<1>1. ASSUME NEW h \in Users, ClientStep(h) PROVE GrantInv'
  BY <1>1, NoCreate, AddAccessGrants, RemAccessGrants, RequestGrants, ApproveGrants,
     RejectGrants, DeleteGrants, SsDownAfterDeleteGrants, SucceedGrants, RollbackGrants
     DEF ClientStep
<1>2. ASSUME NEW h \in Users, SsExecute(h) \/ CannotCreate(h) \/ SsDownAfter(h)
      PROVE  GrantInv'
  BY <1>2, NoCreate, SsExecuteGrants, SsDownAfterGrants
<1>3. SsDown \/ ss_emit_file_list => GrantInv'
  BY SsDownGrants, EmitGrants
<1>4. ASSUME NEW m \in reported, HasFile(m) PROVE GrantInv'
  BY <1>4, HasFileGrants
<1> QED BY <1>1, <1>2, <1>3, <1>4, GrantsStay DEF Next

\* At first nobody may access a file but its owner.
LEMMA NobodyAllowed == \A g, f : Allowed(g, f, NoAcl)
BY DEF Allowed, MayAccess, NoAcl, Rights

LEMMA GrantInit == Init => GrantInv
<1> SUFFICES ASSUME Init PROVE GrantInv
  OBVIOUS
<1>1. \A i, j \in DOMAIN files : files[i].filename = files[j].filename => i = j
  BY MirrorInit DEF MirrorInv, NamesUnique
<1>2. /\ \A i \in DOMAIN files :
            /\ files[i].filename \in DOMAIN InitialOwner /\ files[i].acl = NoAcl
            /\ files[i].owner = InitialOwner[files[i].filename]
      /\ \A f \in DOMAIN InitialOwner : \E i \in DOMAIN files : files[i].filename = f
  BY DEF Init
<1>3. Catalogued /\ CatalogAllowed
  BY <1>1, <1>2, NobodyAllowed DEF Catalogued, CatalogAllowed
<1>4. \A f \in Files : ssFiles[f] # NoFile =>
          /\ f \in DOMAIN InitialOwner /\ ssFiles[f].owner = InitialOwner[f]
          /\ ssFiles[f].acl = NoAcl
  BY DEF Init
<1>5. Stored /\ StoredAllowed
  BY <1>2, <1>4, NobodyAllowed DEF Stored, StoredAllowed, Lookup
<1>6. Reports /\ Addressed /\ \A h \in Users : Entrusted(h)
  BY DEF Init, Reports, Addressed, Entrusted
<1> QED BY <1>3, <1>5, <1>6 DEF GrantInv

\* "Only the owner may modify access", whatever the number of files, users and
\* requests, the limits on the lists, and whenever the storage server goes down
\* or comes back: whoever a list admits was granted it by the owner of the file.
THEOREM RightsAreGranted ==
    ASSUME FilesStay
    PROVE  Spec => []OnlyOwnerGrants
<1>1. IInv /\ GrantInv /\ [Next]_vars => GrantInv'
  BY GrantNext
<1>2. GrantInv => OnlyOwnerGrants
  BY DEF GrantInv, CatalogAllowed, StoredAllowed, Allowed, OnlyOwnerGrants
<1> QED BY <1>1, <1>2, IInvInit, IInvStep, GrantInit, PTL DEF Spec
=============================================================================
