-------------------------- MODULE NsAccessControl --------------------------
(***************************************************************************)
(* Access control lists.  The name server and the storage server that      *)
(* holds a file each keep one list of readers and one of writers; ADDACCESS,*)
(* REMACCESS and APPROVEACCESS change the name server's lists under        *)
(* state_lock, release it, have the storage server change its own, and     *)
(* undo the first change under state_lock if the second one failed.        *)
(* REQUESTACCESS and REJECTACCESS use the mailbox of access requests, and  *)
(* CREATE and DELETE make and remove the files that all this is about.     *)
(*                                                                         *)
(* ns_register_client admits one connection per user, so a user stands for *)
(* the thread that serves it.  One storage server holds all files.  A      *)
(* handler gets the answer to its own request (NsSsChannel shows when that *)
(* is so), and a lookup finds the entry of the name (NsCatalog).           *)
(***************************************************************************)
EXTENDS Naturals, Sequences, FiniteSets

CONSTANTS
    Users,                  \* connected users
    Files,                  \* names of files
    NoFile,                 \* the storage server does not have the file
    NoCommand,              \* the handler carries out none of the commands below
    InitialOwner,           \* [some files -> Users]: the files there are at first
    Ops,                    \* commands that clients send: see OpNames
    Perms,                  \* permissions they ask for: sets of rights
    MayFail,                \* whether the storage server may go down
    NS_MAX_CLIENTS,         \* length of a list of the name server
    SS_MAX_USERS_PER_FILE,  \* length of a list of the storage server
    NS_MAX_ACCESS_REQUESTS

OpNames == {"add", "remove", "request", "approve", "reject", "create", "delete"}
Rights == {"R", "W"}

ASSUME AclAssumption ==
    /\ DOMAIN InitialOwner \subseteq Files /\ IsFiniteSet(Files)
    /\ \A f \in DOMAIN InitialOwner : InitialOwner[f] \in Users
    /\ Ops \subseteq OpNames
    /\ Perms \subseteq (SUBSET Rights) \ {{}}
    /\ MayFail \in BOOLEAN
    /\ NS_MAX_CLIENTS \in Nat /\ SS_MAX_USERS_PER_FILE \in Nat
    /\ NS_MAX_ACCESS_REQUESTS \in Nat

Acl == [Rights -> SUBSET Users]
FileMetadata == [filename : Files, owner : Users, acl : Acl]
FileRecord == [owner : Users, acl : Acl]

ASSUME NoFileAssumption == NoFile \notin FileRecord

AccessRequest == [filename : Files, from_user : Users, to_user : Users,
                  grant : SUBSET Rights, is_pending : BOOLEAN]

VARIABLES
    files,            \* ns->files: Seq(FileMetadata)
    access_requests,  \* Seq(AccessRequest); the id of a request is its position
    ssFiles,          \* [Files -> FileRecord or NoFile], as the storage server saved it
    ssAlive,          \* the storage server is connected
    reported,         \* SS_HAS_FILE messages that are still to be read
    pc,               \* [Users -> "idle", "send", "ok" or "failed"]
    cmd,              \* [Users -> the command the handler carries out]
    granted,          \* history: <<file, user, right>> granted by its owner
    rejected          \* history: requests rejected

ns == <<files, access_requests>>
ss == <<ssFiles, ssAlive, reported>>
history == <<granted, rejected>>
vars == <<ns, ss, pc, cmd, history>>

Command == [op : {"add", "remove", "approve", "create"}, filename : Files,
            file_index : Nat \ {0}, user : Users, perm : SUBSET Rights,
            had : SUBSET Rights, req : Nat]

-----------------------------------------------------------------------------
(* Lists *)

NoAcl == [x \in Rights |-> {}]

\* Mutant: being on one of the lists counts as being on both.
acl_contains_Merged(acl, u) == {x \in Rights : \E y \in Rights : u \in acl[y]}

acl_contains(acl, u) == {x \in Rights : u \in acl[x]}

\* Adding a user that is listed succeeds even when the list is full.
Fits(list, u, max) == u \in list \/ Cardinality(list) < max

\* file_add_access: a writer is made a reader too.  Each list that has room
\* gets the user; when the readers' list is full the writers' is not tried.
Wanted(perm) == IF "W" \in perm THEN Rights ELSE perm

add_succeeds(acl, u, perm, max) == \A x \in perm : Fits(acl[x], u, max)

file_add_access(acl, u, perm) ==
    [x \in Rights |->
        IF /\ x \in Wanted(perm) /\ Fits(acl[x], u, NS_MAX_CLIENTS)
           /\ x = "W" => Fits(acl["R"], u, NS_MAX_CLIENTS)
        THEN acl[x] \cup {u} ELSE acl[x]]

\* Mutant: only the writers' list loses the user.
remove_access_WritersOnly(acl, u) == [acl EXCEPT !["W"] = @ \ {u}]

\* file_remove_access, and what SS_REMACCESS does.
remove_access(acl, u) == [x \in Rights |-> acl[x] \ {u}]

\* file_has_read_access, file_has_write_access, ss_check_read_access and
\* ss_check_write_access for a user who is not the owner: writers may read.
MayAccess(acl, u, x) == u \in acl[x] \/ u \in acl["W"]

\* SS_ADDACCESS on the storage server: all or nothing, and no implied right.
ss_add(acl, u, perm) ==
    [x \in Rights |-> IF x \in perm THEN acl[x] \cup {u} ELSE acl[x]]

-----------------------------------------------------------------------------

Init ==
    /\ files \in {s \in [1..Cardinality(DOMAIN InitialOwner) ->
                        [filename : DOMAIN InitialOwner, owner : Users, acl : {NoAcl}]] :
                    /\ \A i \in DOMAIN s : s[i].owner = InitialOwner[s[i].filename]
                    /\ \A f \in DOMAIN InitialOwner :
                          \E i \in DOMAIN s : s[i].filename = f}
    /\ access_requests = <<>>
    /\ ssFiles = [f \in Files |-> IF f \in DOMAIN InitialOwner
                                 THEN [owner |-> InitialOwner[f], acl |-> NoAcl]
                                 ELSE NoFile]
    /\ ssAlive = TRUE /\ reported = {}
    /\ pc = [u \in Users |-> "idle"]
    /\ cmd = [u \in Users |-> NoCommand]
    /\ granted = {} /\ rejected = {}

Idle(h, op) == pc[h] = "idle" /\ op \in Ops

\* The position where the lookup of f finds its entry, if there is one.
Lookup(f) == {i \in DOMAIN files : files[i].filename = f}

\* The last entry takes the place of the one removed.
Without(i) ==
    SubSeq([files EXCEPT ![i] = files[Len(files)]], 1, Len(files) - 1)

\* Commands are only sent to a storage server whose file list has been read:
\* a handler that waits before takes an SS_HAS_FILE for its answer (NsSsChannel).
Synced == reported = {}

\* The catalogue was changed under state_lock; now the storage server is asked,
\* if it is connected, else the command fails.
Begin(h, c) ==
    /\ Synced
    /\ pc' = [pc EXCEPT ![h] = IF ssAlive THEN "send" ELSE "failed"]
    /\ cmd' = [cmd EXCEPT ![h] = c]
    /\ UNCHANGED ss

\* Records the rights that h gives to u on the file at position i, if it is its
\* owner.
Grant(h, i, u, perm) ==
    granted' = granted \cup
        {<<files[i].filename, u, x>> : x \in {y \in Wanted(perm) : files[i].owner = h}}

\* ADDACCESS: refused unless the owner sends it; a list that is full leaves what
\* was done before, and the storage server is not asked.
AddAccess(h, f, u, perm) ==
    \E i \in Lookup(f) :
        /\ Idle(h, "add") /\ files[i].owner = h /\ u # h
        /\ files' = [files EXCEPT ![i].acl = file_add_access(@, u, perm)]
        /\ Grant(h, i, u, perm)
        /\ IF add_succeeds(files[i].acl, u, Wanted(perm), NS_MAX_CLIENTS)
           THEN Begin(h, [op |-> "add", filename |-> f, file_index |-> i,
                          user |-> u, perm |-> perm, had |-> {}, req |-> 0])
           ELSE UNCHANGED <<ss, pc, cmd>>
        /\ UNCHANGED <<access_requests, rejected>>

\* REMACCESS.
RemAccess(h, f, u) ==
    \E i \in Lookup(f) :
        LET had == acl_contains(files[i].acl, u)
        IN  /\ Idle(h, "remove") /\ files[i].owner = h /\ had # {}
            /\ files' = [files EXCEPT ![i].acl = remove_access(@, u)]
            /\ Begin(h, [op |-> "remove", filename |-> f, file_index |-> i,
                         user |-> u, perm |-> {}, had |-> had, req |-> 0])
            /\ UNCHANGED <<access_requests, history>>

\* REQUESTACCESS, addressed to the owner of the file.
RequestAccess(h, f, perm) ==
    \E i \in Lookup(f) :
        /\ Idle(h, "request")
        /\ Len(access_requests) < NS_MAX_ACCESS_REQUESTS
        /\ access_requests' = Append(access_requests,
              [filename |-> f, from_user |-> h, to_user |-> files[i].owner,
               grant |-> perm, is_pending |-> TRUE])
        /\ UNCHANGED <<files, ss, pc, cmd, history>>

\* Mutant: a decision does not look whether the request is pending.
MayDecide_Anytime(h, r) == access_requests[r].to_user = h

MayDecide(h, r) == access_requests[r].is_pending /\ access_requests[r].to_user = h

SetPending(r, b) == [access_requests EXCEPT ![r].is_pending = b]

\* APPROVEACCESS: whether the lists had room is not looked at, and neither is
\* the owner the file has now.
ApproveAccess(h, r) ==
    LET q == access_requests[r]
    IN  \E i \in Lookup(q.filename) :
            /\ Idle(h, "approve") /\ MayDecide(h, r)
            /\ files' = [files EXCEPT ![i].acl = file_add_access(@, q.from_user, q.grant)]
            /\ access_requests' = SetPending(r, FALSE)
            /\ Grant(h, i, q.from_user, q.grant)
            /\ Begin(h, [op |-> "approve", filename |-> q.filename, file_index |-> i,
                         user |-> q.from_user, perm |-> q.grant, had |-> {},
                         req |-> r])
            /\ UNCHANGED rejected

\* REJECTACCESS.
RejectAccess(h, r) ==
    /\ Idle(h, "reject") /\ MayDecide(h, r)
    /\ access_requests' = SetPending(r, FALSE)
    /\ rejected' = rejected \cup {r}
    /\ UNCHANGED <<files, ss, pc, cmd, granted>>

\* CREATE records the file, then asks a connected storage server for it.
Create(h, f) ==
    /\ Idle(h, "create") /\ Lookup(f) = {} /\ ssAlive
    /\ files' = Append(files, [filename |-> f, owner |-> h, acl |-> NoAcl])
    /\ Begin(h, [op |-> "create", filename |-> f, file_index |-> Len(files) + 1,
                 user |-> h, perm |-> {}, had |-> {}, req |-> 0])
    /\ UNCHANGED <<access_requests, history>>

\* What was granted on a file ends with it.
Forget(f) == granted' = {g \in granted : g[1] # f}

\* DELETE keeps state_lock until the storage server and the name server have
\* both removed the file; pending requests for it are cancelled.
Delete(h, f) ==
    \E i \in Lookup(f) :
        /\ Idle(h, "delete") /\ files[i].owner = h
        /\ Synced /\ ssAlive /\ ssFiles[f] # NoFile
        /\ files' = Without(i)
        /\ access_requests' =
              [r \in DOMAIN access_requests |->
                  IF access_requests[r].filename = f
                  THEN [access_requests[r] EXCEPT !.is_pending = FALSE]
                  ELSE access_requests[r]]
        /\ ssFiles' = [ssFiles EXCEPT ![f] = NoFile]
        /\ Forget(f)
        /\ UNCHANGED <<ssAlive, reported, pc, cmd, rejected>>

-----------------------------------------------------------------------------
(* The storage server: ns_control_loop *)

\* The storage server carries out a command, or refuses it.
SsAccepts(c) ==
    LET rec == ssFiles[c.filename]
    IN  CASE c.op = "create" -> rec = NoFile
          [] c.op = "remove" -> rec # NoFile /\ acl_contains(rec.acl, c.user) # {}
          [] OTHER -> rec # NoFile /\ add_succeeds(rec.acl, c.user, c.perm,
                                                   SS_MAX_USERS_PER_FILE)

SsApply(c) ==
    LET rec == ssFiles[c.filename]
        new == CASE c.op = "create" -> [owner |-> c.user, acl |-> NoAcl]
                 [] c.op = "remove" -> [rec EXCEPT !.acl = remove_access(@, c.user)]
                 [] OTHER -> [rec EXCEPT !.acl = ss_add(@, c.user, c.perm)]
    IN  ssFiles' = IF SsAccepts(c) THEN [ssFiles EXCEPT ![c.filename] = new]
                                   ELSE ssFiles

SsExecute(h) ==
    /\ pc[h] = "send"
    /\ SsApply(cmd[h])
    /\ pc' = [pc EXCEPT ![h] = IF SsAccepts(cmd[h]) THEN "ok" ELSE "failed"]
    /\ UNCHANGED <<ns, ssAlive, reported, cmd, history>>

\* ss_create_file cannot open the file on disk.
CannotCreate(h) ==
    /\ pc[h] = "send" /\ cmd[h].op = "create"
    /\ pc' = [pc EXCEPT ![h] = "failed"]
    /\ UNCHANGED <<ns, ss, cmd, history>>

\* The connection is lost: every handler that waits is told so.
Lost ==
    /\ MayFail /\ ssAlive
    /\ ssAlive' = FALSE /\ reported' = {}
    /\ pc' = [h \in Users |-> IF pc[h] = "send" THEN "failed" ELSE pc[h]]
    /\ UNCHANGED <<ns, cmd, history>>

SsDown == Lost /\ UNCHANGED ssFiles

\* ... after the storage server carried out a command whose answer is lost,
SsDownAfter(h) == pc[h] = "send" /\ Lost /\ SsApply(cmd[h])

\* ... or a DELETE, which then leaves the catalogue alone.
SsDownAfterDelete(h, f) ==
    /\ Idle(h, "delete") /\ Synced /\ ssFiles[f] # NoFile
    /\ \E i \in Lookup(f) : files[i].owner = h
    /\ Lost
    /\ ssFiles' = [ssFiles EXCEPT ![f] = NoFile]

\* The storage server comes back, with the files it saved, and reports them.
ss_emit_file_list ==
    /\ ~ssAlive
    /\ ssAlive' = TRUE
    /\ reported' = {[filename |-> f, owner |-> ssFiles[f].owner, acl |-> ssFiles[f].acl] :
                       f \in {g \in Files : ssFiles[g] # NoFile}}
    /\ UNCHANGED <<ns, ssFiles, pc, cmd, history>>

\* SS_HAS_FILE: the name server takes over what is reported.
HasFile(m) ==
    /\ m \in reported
    /\ reported' = reported \ {m}
    /\ files' = IF Lookup(m.filename) = {} THEN Append(files, m)
                ELSE [i \in DOMAIN files |->
                        IF i \in Lookup(m.filename) THEN m ELSE files[i]]
    /\ UNCHANGED <<access_requests, ssFiles, ssAlive, pc, cmd, history>>

-----------------------------------------------------------------------------
(* The end of a command *)

Done(h) ==
    /\ pc' = [pc EXCEPT ![h] = "idle"] /\ cmd' = [cmd EXCEPT ![h] = NoCommand]
    /\ UNCHANGED <<ss, rejected>>

Succeed(h) == pc[h] = "ok" /\ Done(h) /\ UNCHANGED <<ns, granted>>

\* The lists are restored at the position found before, if there still is one.
Rollback(h) ==
    LET c == cmd[h]
    IN  /\ pc[h] = "failed" /\ c.op # "create"
        /\ files' = [i \in DOMAIN files |->
              IF i # c.file_index THEN files[i]
              ELSE [files[i] EXCEPT !.acl =
                      IF c.op = "remove" THEN file_add_access(@, c.user, c.had)
                                         ELSE remove_access(@, c.user)]]
        /\ access_requests' = IF c.op = "approve" THEN SetPending(c.req, TRUE)
                              ELSE access_requests
        /\ Done(h) /\ UNCHANGED granted

\* CREATE removes the entry of the name; requests for it stay in the mailbox.
CreateRollback(h) ==
    /\ pc[h] = "failed" /\ cmd[h].op = "create"
    /\ files' = IF Lookup(cmd[h].filename) = {} THEN files
                ELSE Without(CHOOSE i \in Lookup(cmd[h].filename) : TRUE)
    /\ Forget(cmd[h].filename)
    /\ Done(h) /\ UNCHANGED access_requests

ClientStep(h) ==
    \/ \E f \in Files, u \in Users, perm \in Perms : AddAccess(h, f, u, perm)
    \/ \E f \in Files, u \in Users : RemAccess(h, f, u)
    \/ \E f \in Files, perm \in Perms : RequestAccess(h, f, perm)
    \/ \E r \in DOMAIN access_requests : ApproveAccess(h, r) \/ RejectAccess(h, r)
    \/ \E f \in Files : Create(h, f) \/ Delete(h, f) \/ SsDownAfterDelete(h, f)
    \/ Succeed(h) \/ Rollback(h) \/ CreateRollback(h)

Next ==
    \/ \E h \in Users : ClientStep(h) \/ SsExecute(h) \/ CannotCreate(h) \/ SsDownAfter(h)
    \/ SsDown \/ ss_emit_file_list
    \/ \E m \in reported : HasFile(m)

Spec == Init /\ [][Next]_vars

-----------------------------------------------------------------------------
(* Properties *)

\* The type of every variable, and the limits on the lists.
TypeOK ==
    /\ files \in Seq(FileMetadata) /\ access_requests \in Seq(AccessRequest)
    /\ Len(access_requests) <= NS_MAX_ACCESS_REQUESTS
    /\ \A i \in DOMAIN files : \A x \in Rights :
          Cardinality(files[i].acl[x]) <= NS_MAX_CLIENTS
    /\ ssFiles \in [Files -> FileRecord \cup {NoFile}]
    /\ ssAlive \in BOOLEAN /\ reported \subseteq FileMetadata
    /\ pc \in [Users -> {"idle", "send", "ok", "failed"}]
    /\ cmd \in [Users -> Command \cup {NoCommand}]
    /\ \A h \in Users : pc[h] # "idle" => cmd[h] # NoCommand
    /\ granted \subseteq Files \X Users \X Rights
    /\ rejected \subseteq DOMAIN access_requests

\* "Only the owner may modify access": whoever may read or write a file, at the
\* name server or at the storage server, got that right from its owner, by
\* ADDACCESS or APPROVEACCESS on this very file.
OnlyOwnerGrants ==
    \A u \in Users, x \in Rights :
        /\ \A i \in DOMAIN files :
              MayAccess(files[i].acl, u, x) => <<files[i].filename, u, x>> \in granted
        /\ \A f \in Files : ssFiles[f] # NoFile /\ MayAccess(ssFiles[f].acl, u, x)
              => <<f, u, x>> \in granted

\* A request that was rejected stays rejected, although a failed APPROVEACCESS
\* makes its request pending again.
RejectedIsFinal == \A r \in rejected : ~access_requests[r].is_pending

\* The lists of the storage server "mirror" those of the name server: when no
\* command on a file is under way both allow the same to everybody.
AclMirrors ==
    \A i \in DOMAIN files :
        LET f == files[i].filename
        IN  /\ ssAlive /\ Synced /\ ssFiles[f] # NoFile
            /\ \A h \in Users : pc[h] # "idle" => cmd[h].filename # f
            => \A u \in Users, x \in Rights :
                  MayAccess(files[i].acl, u, x) <=> MayAccess(ssFiles[f].acl, u, x)

=============================================================================
