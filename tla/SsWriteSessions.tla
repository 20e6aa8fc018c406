-------------------------- MODULE SsWriteSessions --------------------------
(***************************************************************************)
(* The storage server's write path for one document: sentence locks,      *)
(* ETIRW commits, UNDO, CHECKPOINT, REVERT, and the CREATE_FILE,          *)
(* DELETE_FILE and SS_COPY commands of the name server, interleaved at    *)
(* the points where the code releases or acquires a mutex.                *)
(*                                                                         *)
(* Text is a sequence of units, a unit being a word or one sentence        *)
(* delimiter; offsets count units where the code counts bytes, and the     *)
(* white space between words is not represented.                           *)
(*                                                                         *)
(* sessions_lock is only ever held for straight-line code and is innermost *)
(* so a section under it is one step.  files_lock and the file_lock of a   *)
(* record are variables.  All FileRecords here carry the same file name:   *)
(* they are the successive incarnations of one path on disk.               *)
(***************************************************************************)
EXTENDS Integers, Sequences, FiniteSets

CONSTANTS
    Clients,         \* client connections: one client_thread each
    NS,              \* the thread that runs ns_control_loop
    Recs,            \* FileRecord heap blocks; a freed block is not reused
    NoRec,           \* the NULL FileRecord pointer
    NoThread,        \* an unlocked mutex
    NoSession,       \* no WriteSession is listed for a client fd
    Tags,            \* checkpoint tags
    NoTag,           \* the request carries no tag
    Word,            \* every word of a document
    Dot,             \* every sentence delimiter ('.', '!', '?')
    InitialTexts,    \* contents of the document when the server starts
    CopyTexts,       \* contents SS_COPY may bring from its source file
    ClientOps,       \* requests that clients send
    NsOps,           \* commands that the name server sends
    MaxIndex,        \* bound: largest sentence index a client asks for
    MaxText,         \* bound: no edit is sent once the document is this long
    MaxSentence,     \* bound: no edit is sent once the sentence is this long
    MaxCheckpoints   \* SS_MAX_CHECKPOINTS

Unit == {Word, Dot}
Text == Seq(Unit)
Threads == Clients \cup {NS}
ClientOpNames == {"lock", "undo", "checkpoint", "revert"}
NsOpNames == {"create", "delete", "copy"}

ASSUME ConstantsAssumption ==
    /\ Word # Dot
    /\ NS \notin Clients
    /\ NoRec \notin Recs
    /\ NoThread \notin Threads
    /\ NoTag \notin Tags
    /\ InitialTexts \subseteq Text /\ InitialTexts # {}
    /\ CopyTexts \subseteq Text
    /\ ClientOps \subseteq ClientOpNames
    /\ NsOps \subseteq NsOpNames
    /\ MaxIndex \in Nat /\ MaxText \in Nat /\ MaxSentence \in Nat
    /\ MaxCheckpoints \in Nat \ {0}

Session == [file : Recs, sentence_index : Nat, sentence_start : Nat,
            sentence_end : Nat, sentence_text : Text,
            sentence_working : Text]

ASSUME NoSessionAssumption == NoSession \notin Session

\* The local variables of the handler a thread is running.
Frame == [op : ClientOpNames \cup NsOpNames \cup {"none", "etirw"},
          rec : Recs \cup {NoRec}, index : Nat, from : Nat, to : Nat,
          tag : Tags \cup {NoTag}, text : Text]

IdleFrame == [op |-> "none", rec |-> NoRec, index |-> 0, from |-> 0,
              to |-> 0, tag |-> NoTag, text |-> <<>>]

Labels == {"idle", "find", "enter", "check", "create", "etirw", "commit",
           "detach", "sync", "replace", "save", "unlink", "delist", "free"}

Checkpoint == [tag : Tags, text : Text]

VARIABLES
    listed,      \* records linked in ss->files
    freed,       \* records passed to free()
    onDisk,      \* the content file exists
    content,     \* what it contains
    undo,        \* content of the .undo sidecar
    undoOnDisk,  \* the .undo sidecar exists
    undoAvail,   \* [Recs -> BOOLEAN]: undo_available
    ckpts,       \* [Recs -> Seq(Checkpoint)]: checkpoints[], oldest first
    sessions,    \* [Clients -> Session or NoSession]: ss->sessions by client_fd
    filesLock,   \* holder of ss->files_lock
    fileLock,    \* [Recs -> holder of file_lock]
    pc,          \* [Threads -> label]
    frame,       \* [Threads -> Frame]
    crashed,     \* a thread touched freed memory and the process is gone
    staleCommit  \* history: some ETIRW committed at offsets that were no
                 \* longer those of its session

disk == <<onDisk, content, undo, undoOnDisk>>
records == <<listed, freed, undoAvail, ckpts>>
locks == <<filesLock, fileLock>>
aux == <<crashed, staleCommit>>
vars == <<disk, records, sessions, locks, pc, frame, aux>>

-----------------------------------------------------------------------------
(* Sentences of a text *)

Dots(s) == {p \in DOMAIN s : s[p] = Dot}

\* ss_get_sentence_bounds: the sentence with index i starts after the i-th
\* delimiter and runs to the next one included, or to the end of the text when
\* there is none: the index after the last delimiter names the tail, which may
\* be empty.  The set is empty where the code returns -1.
ss_get_sentence_bounds(s, i) ==
    {b \in [start : 0..Len(s), end : 0..Len(s)] :
        /\ b.start <= b.end
        /\ b.start = 0 \/ s[b.start] = Dot
        /\ Cardinality({p \in Dots(s) : p <= b.start}) = i
        /\ b.end = Len(s) \/ (b.start < b.end /\ s[b.end] = Dot)
        /\ \A p \in Dots(s) : p <= b.start \/ b.end <= p}

\* Units from..to-1 (zero-based offsets) of a text.
Span(s, from, to) == SubSeq(s, from + 1, to)

count_sentences_in_span(s) ==
    IF s = <<>> THEN 0
    ELSE IF Dots(s) = {} THEN 1 ELSE Cardinality(Dots(s))

\* ss_apply_word_edit: the words of an edit go before the word at unit offset
\* p of the sentence, or after the last one; the delimiter that ended the
\* sentence still ends it, unless the new last word brings its own.
EndsWithDot(s) == s # <<>> /\ s[Len(s)] = Dot

Body(s) == IF EndsWithDot(s) THEN SubSeq(s, 1, Len(s) - 1) ELSE s

InsertPoints(s) ==
    {p \in 0..Len(Body(s)) : p = Len(Body(s)) \/ Body(s)[p + 1] # Dot}

ss_apply_word_edit(s, p, words) ==
    LET b == SubSeq(Body(s), 1, p) \o words \o SubSeq(Body(s), p + 1, Len(Body(s)))
    IN  IF EndsWithDot(s) /\ ~EndsWithDot(b) THEN Append(b, Dot) ELSE b

\* An edit inserts one word, or one word that ends a sentence.
Edits == {<<Word>>, <<Word, Dot>>}

-----------------------------------------------------------------------------
(* The session list *)

HasSession(c) == sessions[c] # NoSession

\* Mutant: sentence indices compared one-based with zero-based.
ss_find_session_by_sentence_OffByOne(r, i) ==
    \E c \in Clients : /\ HasSession(c)
                       /\ sessions[c].file = r
                       /\ sessions[c].sentence_index = i + 1

ss_find_session_by_sentence(r, i) ==
    \E c \in Clients : /\ HasSession(c)
                       /\ sessions[c].file = r
                       /\ sessions[c].sentence_index = i

ss_file_has_active_writers(r) ==
    \E c \in Clients : HasSession(c) /\ sessions[c].file = r

\* ss_detach_session then ss_free_session.
ss_abort_session(c) == [sessions EXCEPT ![c] = NoSession]

ss_create_session(r, i, start, end, file_data) ==
    [file |-> r, sentence_index |-> i,
     sentence_start |-> start, sentence_end |-> end,
     sentence_text |-> Span(file_data, start, end),
     sentence_working |-> Span(file_data, start, end)]

\* Mutant: a session that starts where the replaced span ends stays behind.
Shifted_StrictlyAfter(s, edit_end, char_delta, sentence_delta) ==
    IF s.sentence_start > edit_end
    THEN [s EXCEPT !.sentence_start = @ + char_delta,
                   !.sentence_end = @ + char_delta,
                   !.sentence_index = @ + sentence_delta]
    ELSE s

\* One session of ss_update_active_sessions: it moves with the text when it
\* starts at or after the end of the replaced span.
Shifted(s, edit_end, char_delta, sentence_delta) ==
    IF s.sentence_start >= edit_end
    THEN [s EXCEPT !.sentence_start = @ + char_delta,
                   !.sentence_end = @ + char_delta,
                   !.sentence_index =
                        IF @ + sentence_delta < 0 THEN 0 ELSE @ + sentence_delta]
    ELSE s

\* Mutant: the length of the replacement subtracted the wrong way round.
ss_update_active_sessions_Backwards(c, r, edit_start, old_len, new_len, sentence_delta) ==
    [d \in Clients |->
        IF d # c /\ HasSession(d) /\ sessions[d].file = r
        THEN Shifted(sessions[d], edit_start + old_len, old_len - new_len,
                     sentence_delta)
        ELSE sessions[d]]

\* Mutant: the offsets of the other sessions are not recomputed.
ss_update_active_sessions_Skipped(c, r, edit_start, old_len, new_len, sentence_delta) ==
    sessions

ss_update_active_sessions(c, r, edit_start, old_len, new_len, sentence_delta) ==
    [d \in Clients |->
        IF d # c /\ HasSession(d) /\ sessions[d].file = r
        THEN Shifted(sessions[d], edit_start + old_len, new_len - old_len,
                     sentence_delta)
        ELSE sessions[d]]

-----------------------------------------------------------------------------
(* Initial state: ss_start after the existing file was loaded and reported.*)

Init ==
    /\ \E r \in Recs : listed = {r}
    /\ freed = {}
    /\ onDisk = TRUE
    /\ content \in InitialTexts
    /\ undo = <<>> /\ undoOnDisk = FALSE
    /\ undoAvail = [r \in Recs |-> FALSE]
    /\ ckpts = [r \in Recs |-> <<>>]
    /\ sessions = [c \in Clients |-> NoSession]
    /\ filesLock = NoThread
    /\ fileLock = [r \in Recs |-> NoThread]
    /\ pc = [t \in Threads |-> "idle"]
    /\ frame = [t \in Threads |-> IdleFrame]
    /\ crashed = FALSE
    /\ staleCommit = FALSE

-----------------------------------------------------------------------------
(* Steps shared by the handlers *)

Goto(t, label) == pc' = [pc EXCEPT ![t] = label]

SetFrame(t, f) == frame' = [frame EXCEPT ![t] = f]

\* The handler returns and its thread waits for the next request.
Return(t) ==
    /\ Goto(t, "idle")
    /\ SetFrame(t, IdleFrame)

Unlock(t) == fileLock' = [fileLock EXCEPT ![frame[t].rec] = NoThread]

\* The record a step dereferences has not been freed.
Usable(t) == frame[t].rec \notin freed

\* Lock files_lock and find the record; the thread keeps the mutex.
FindFile(t) ==
    /\ ~crashed /\ pc[t] = "find" /\ filesLock = NoThread
    /\ \E r \in listed : SetFrame(t, [frame[t] EXCEPT !.rec = r])
    /\ filesLock' = t
    /\ Goto(t, "enter")
    /\ UNCHANGED <<disk, records, sessions, fileLock, aux>>

\* The file is not listed, or the user of a client has no write access.
FindFails(t) ==
    /\ ~crashed /\ pc[t] = "find" /\ filesLock = NoThread
    /\ listed = {} \/ t \in Clients
    /\ Return(t)
    /\ UNCHANGED <<disk, records, sessions, locks, aux>>

\* Mutant: the handler goes on without waiting for file_lock.
EnterFile_NoWait(t) ==
    /\ ~crashed /\ pc[t] = "enter" /\ filesLock = t
    /\ fileLock' = [fileLock EXCEPT ![frame[t].rec] = t]
    /\ filesLock' = NoThread
    /\ Goto(t, "check")
    /\ UNCHANGED <<disk, records, sessions, frame, aux>>

\* Lock the record's file_lock, then release files_lock.
EnterFile(t) ==
    /\ ~crashed /\ pc[t] = "enter" /\ filesLock = t
    /\ fileLock[frame[t].rec] = NoThread
    /\ fileLock' = [fileLock EXCEPT ![frame[t].rec] = t]
    /\ filesLock' = NoThread
    /\ Goto(t, "check")
    /\ UNCHANGED <<disk, records, sessions, frame, aux>>

\* Unlock file_lock and answer with an error.
LeaveWithError(t) ==
    /\ Unlock(t)
    /\ Return(t)
    /\ UNCHANGED <<disk, records, sessions, filesLock, aux>>

-----------------------------------------------------------------------------
(* Write sessions: REQ_WRITE_LOCK, WRITE_DATA, ETIRW, end of connection *)

\* handle_client_write_lock up to the search of the file.
WriteLockRequest(c, i) ==
    /\ ~crashed /\ pc[c] = "idle" /\ "lock" \in ClientOps
    /\ sessions' = ss_abort_session(c)
    /\ SetFrame(c, [frame[c] EXCEPT !.op = "lock", !.index = i])
    /\ Goto(c, "find")
    /\ UNCHANGED <<disk, records, locks, aux>>

\* The first section under sessions_lock: is the sentence taken?
WriteLockCheck(c) ==
    /\ ~crashed /\ pc[c] = "check" /\ frame[c].op = "lock" /\ Usable(c)
    /\ IF ss_find_session_by_sentence(frame[c].rec, frame[c].index)
       THEN LeaveWithError(c)
       ELSE /\ Goto(c, "create")
            /\ UNCHANGED <<disk, records, sessions, locks, frame, aux>>

\* Read the file, find the sentence, create the session, answer OK_LOCKED.
WriteLockCreate(c) ==
    LET r == frame[c].rec
        i == frame[c].index
    IN  /\ ~crashed /\ pc[c] = "create" /\ Usable(c)
        /\ \/ /\ ~onDisk \/ ss_get_sentence_bounds(content, i) = {}
              /\ LeaveWithError(c)
           \/ /\ onDisk
              /\ \E b \in ss_get_sentence_bounds(content, i) :
                    sessions' = [sessions EXCEPT ![c] =
                        ss_create_session(r, i, b.start, b.end, content)]
              /\ Unlock(c)
              /\ Return(c)
              /\ UNCHANGED <<disk, records, filesLock, aux>>

\* handle_client_write_data, which takes no file_lock.
WriteData(c) ==
    LET s == sessions[c].sentence_working
    IN  /\ ~crashed /\ pc[c] = "idle" /\ HasSession(c)
        /\ Len(content) < MaxText /\ Len(s) < MaxSentence
        /\ \E p \in InsertPoints(s), words \in Edits :
              sessions' = [sessions EXCEPT ![c].sentence_working =
                              ss_apply_word_edit(s, p, words)]
        /\ UNCHANGED <<disk, records, locks, pc, frame, aux>>

\* handle_client_etirw: read the session's offsets under sessions_lock ...
EtirwRequest(c) ==
    /\ ~crashed /\ pc[c] = "idle" /\ HasSession(c)
    /\ SetFrame(c, [frame[c] EXCEPT !.op = "etirw",
                                     !.rec = sessions[c].file,
                                     !.from = sessions[c].sentence_start,
                                     !.to = sessions[c].sentence_end])
    /\ Goto(c, "etirw")
    /\ UNCHANGED <<disk, records, sessions, locks, aux>>

\* ... then lock the file ...
EtirwLock(c) ==
    /\ ~crashed /\ pc[c] = "etirw" /\ Usable(c)
    /\ fileLock[frame[c].rec] = NoThread
    /\ fileLock' = [fileLock EXCEPT ![frame[c].rec] = c]
    /\ Goto(c, "commit")
    /\ UNCHANGED <<disk, records, sessions, filesLock, frame, aux>>

\* ... replace the span read before by the working copy, save the previous
\* content for UNDO, move the other sessions, and unlock the file.  An error
\* leaves the session in place.
EtirwCommit(c) ==
    LET r == frame[c].rec
        from == frame[c].from
        to == frame[c].to
        new == sessions[c].sentence_working
        old == Span(content, from, to)
    IN  /\ ~crashed /\ pc[c] = "commit" /\ Usable(c)
        /\ IF ~onDisk \/ from > Len(content) \/ to > Len(content) \/ from > to
           THEN LeaveWithError(c)
           ELSE /\ undo' = content /\ undoOnDisk' = TRUE
                /\ content' = Span(content, 0, from) \o new
                                \o Span(content, to, Len(content))
                /\ undoAvail' = [undoAvail EXCEPT ![r] = TRUE]
                /\ sessions' = ss_update_active_sessions(c, r, from, to - from,
                      Len(new),
                      count_sentences_in_span(new) - count_sentences_in_span(old))
                /\ staleCommit' = (staleCommit \/
                      from # sessions[c].sentence_start \/
                      to # sessions[c].sentence_end)
                /\ Unlock(c)
                /\ Goto(c, "detach")
                /\ UNCHANGED <<onDisk, listed, freed, ckpts, filesLock, frame,
                               crashed>>

\* ... and only then detach the session and answer OK_WRITE_DONE.
EtirwDetach(c) ==
    /\ ~crashed /\ pc[c] = "detach"
    /\ sessions' = ss_abort_session(c)
    /\ Goto(c, "sync")
    /\ UNCHANGED <<disk, records, locks, frame, aux>>

\* Without any lock, read the record and the file again and send the size to
\* the name server in WRITE_COMPLETE.
ss_sync_metadata_to_ns(c) ==
    /\ ~crashed /\ pc[c] = "sync" /\ Usable(c)
    /\ Return(c)
    /\ UNCHANGED <<disk, records, sessions, locks, aux>>

\* The connection ends: client_thread leaves its loop.  The identity is then
\* free for the next connection that gets the same descriptor.
Disconnect(c) ==
    /\ ~crashed /\ pc[c] = "idle" /\ HasSession(c)
    /\ sessions' = ss_abort_session(c)
    /\ UNCHANGED <<disk, records, locks, pc, frame, aux>>

-----------------------------------------------------------------------------
(* Operations on the whole file: REQ_UNDO, REQ_CHECKPOINT, REQ_REVERT and *)
(* the name server's SS_COPY *)

\* A client asks for UNDO, CHECKPOINT or REVERT.  Its session stays open.
WholeFileRequest(c) ==
    /\ ~crashed /\ pc[c] = "idle"
    /\ \E op \in ClientOps \ {"lock"} :
          \E tag \in IF op = "undo" THEN {NoTag} ELSE Tags :
              SetFrame(c, [frame[c] EXCEPT !.op = op, !.tag = tag])
    /\ Goto(c, "find")
    /\ UNCHANGED <<disk, records, sessions, locks, aux>>

CopyRequest ==
    /\ ~crashed /\ pc[NS] = "idle" /\ "copy" \in NsOps
    /\ SetFrame(NS, [frame[NS] EXCEPT !.op = "copy"])
    /\ Goto(NS, "find")
    /\ UNCHANGED <<disk, records, sessions, locks, aux>>

HasTag(r, tag) == \E i \in DOMAIN ckpts[r] : ckpts[r][i].tag = tag

\* The texts the operation of thread t may put in the file; none when it is
\* refused after the check for writers.
Replacements(t) ==
    LET r == frame[t].rec
    IN  CASE frame[t].op = "undo" ->
               {x \in {undo} : undoAvail[r] /\ undoOnDisk}
          [] frame[t].op = "revert" ->
               {ckpts[r][i].text :
                    i \in {j \in DOMAIN ckpts[r] : ckpts[r][j].tag = frame[t].tag}}
          [] frame[t].op = "copy" -> CopyTexts
          [] OTHER -> {}

\* Refuse when the file has write sessions; otherwise fetch the text to
\* restore (UNDO, REVERT) or to copy (SS_COPY).
WholeFileCheck(t) ==
    /\ ~crashed /\ pc[t] = "check" /\ Usable(t)
    /\ frame[t].op \in {"undo", "revert", "copy"}
    /\ ~ss_file_has_active_writers(frame[t].rec)
    /\ \E x \in Replacements(t) : SetFrame(t, [frame[t] EXCEPT !.text = x])
    /\ Goto(t, "replace")
    /\ UNCHANGED <<disk, records, sessions, locks, aux>>

CheckpointCheck(c) ==
    /\ ~crashed /\ pc[c] = "check" /\ Usable(c)
    /\ frame[c].op = "checkpoint"
    /\ ~ss_file_has_active_writers(frame[c].rec)
    /\ ~HasTag(frame[c].rec, frame[c].tag)
    /\ Goto(c, "save")
    /\ UNCHANGED <<disk, records, sessions, locks, frame, aux>>

\* Writers are active, there is no undo, the tag is missing or taken, or the
\* source of the copy cannot be read.
WholeFileRefused(t) ==
    LET r == frame[t].rec
        op == frame[t].op
    IN  /\ ~crashed /\ pc[t] = "check" /\ Usable(t)
        /\ op \in {"undo", "checkpoint", "revert", "copy"}
        /\ \/ ss_file_has_active_writers(r)
           \/ op \in {"undo", "revert"} /\ Replacements(t) = {}
           \/ op = "checkpoint" /\ HasTag(r, frame[t].tag)
           \/ op = "copy"
        /\ LeaveWithError(t)

\* handle_client_undo: write the undo text, creating the file if need be.
UndoWrite(c) ==
    /\ ~crashed /\ pc[c] = "replace" /\ frame[c].op = "undo" /\ Usable(c)
    /\ content' = frame[c].text /\ onDisk' = TRUE
    /\ undoAvail' = [undoAvail EXCEPT ![frame[c].rec] = FALSE]
    /\ Unlock(c)
    /\ Return(c)
    /\ UNCHANGED <<undo, undoOnDisk, listed, freed, ckpts, sessions, filesLock, aux>>

\* Mutant: the content is not saved before it is replaced.
RevertWrite_NoUndo(c) ==
    /\ ~crashed /\ pc[c] = "replace" /\ frame[c].op = "revert" /\ Usable(c)
    /\ onDisk
    /\ content' = frame[c].text
    /\ Unlock(c)
    /\ Return(c)
    /\ UNCHANGED <<onDisk, undo, undoOnDisk, records, sessions, filesLock, aux>>

\* handle_client_revert: the current content becomes the undo text.
RevertWrite(c) ==
    /\ ~crashed /\ pc[c] = "replace" /\ frame[c].op = "revert" /\ Usable(c)
    /\ IF ~onDisk
       THEN LeaveWithError(c)
       ELSE /\ undo' = content /\ undoOnDisk' = TRUE
            /\ content' = frame[c].text
            /\ undoAvail' = [undoAvail EXCEPT ![frame[c].rec] = TRUE]
            /\ Unlock(c)
            /\ Return(c)
            /\ UNCHANGED <<onDisk, listed, freed, ckpts, sessions, filesLock, aux>>

\* handle_ss_copy: rename the temporary file over the destination and report the
\* new size.  The undo text is left alone.
CopyWrite ==
    /\ ~crashed /\ pc[NS] = "replace" /\ frame[NS].op = "copy" /\ Usable(NS)
    /\ content' = frame[NS].text /\ onDisk' = TRUE
    /\ Unlock(NS)
    /\ Return(NS)
    /\ UNCHANGED <<undo, undoOnDisk, records, sessions, filesLock, aux>>

\* handle_client_checkpoint: copy the file, evict the oldest when full.
CheckpointSave(c) ==
    LET r == frame[c].rec
        kept == IF Len(ckpts[r]) >= MaxCheckpoints THEN Tail(ckpts[r]) ELSE ckpts[r]
    IN  /\ ~crashed /\ pc[c] = "save" /\ Usable(c)
        /\ IF ~onDisk
           THEN LeaveWithError(c)
           ELSE /\ ckpts' = [ckpts EXCEPT ![r] =
                        Append(kept, [tag |-> frame[c].tag, text |-> content])]
                /\ Unlock(c)
                /\ Return(c)
                /\ UNCHANGED <<disk, listed, freed, undoAvail, sessions,
                               filesLock, aux>>

-----------------------------------------------------------------------------
(* CREATE_FILE and DELETE_FILE *)

\* ss_create_file, under files_lock.  The record is a new heap block.
ss_create_file ==
    /\ ~crashed /\ pc[NS] = "idle" /\ "create" \in NsOps
    /\ filesLock = NoThread /\ listed = {}
    /\ \E r \in Recs \ freed : listed' = {r}
    /\ content' = <<>> /\ onDisk' = TRUE
    /\ UNCHANGED <<undo, undoOnDisk, freed, undoAvail, ckpts, sessions, locks,
                   pc, frame, aux>>

\* ss_delete_file keeps files_lock throughout but never takes the record's
\* file_lock.  It tests for writers in a section under sessions_lock of its own: a
\* REQ_WRITE_LOCK that already holds file_lock may create its session afterwards.
ss_delete_file ==
    /\ ~crashed /\ pc[NS] = "idle" /\ "delete" \in NsOps
    /\ filesLock = NoThread
    /\ \E r \in listed :
          /\ ~ss_file_has_active_writers(r)
          /\ SetFrame(NS, [frame[NS] EXCEPT !.op = "delete", !.rec = r])
    /\ filesLock' = NS
    /\ Goto(NS, "unlink")
    /\ UNCHANGED <<disk, records, sessions, fileLock, aux>>

\* The content file goes first, under whoever reads or writes it ...
DeleteContent ==
    /\ ~crashed /\ pc[NS] = "unlink"
    /\ onDisk' = FALSE /\ content' = <<>>
    /\ Goto(NS, "delist")
    /\ UNCHANGED <<undo, undoOnDisk, records, sessions, locks, frame, aux>>

\* ... then the sidecars and the checkpoints, and the record leaves ss->files.
DeleteRecord ==
    LET r == frame[NS].rec
    IN  /\ ~crashed /\ pc[NS] = "delist"
        /\ undoOnDisk' = FALSE /\ undo' = <<>>
        /\ ckpts' = [ckpts EXCEPT ![r] = <<>>]
        /\ listed' = listed \ {r}
        /\ filesLock' = NoThread
        /\ Goto(NS, "free")
        /\ UNCHANGED <<onDisk, content, freed, undoAvail, sessions, fileLock,
                       frame, aux>>

\* After files_lock is released the record is destroyed, whoever uses it.
FreeRecord ==
    /\ ~crashed /\ pc[NS] = "free"
    /\ freed' = freed \cup {frame[NS].rec}
    /\ Return(NS)
    /\ UNCHANGED <<disk, listed, undoAvail, ckpts, sessions, locks, aux>>

\* A thread dereferences a freed record.  What follows is undefined; the model
\* ends the process there.
TouchFreed(t) ==
    /\ ~crashed
    /\ pc[t] \in {"check", "create", "etirw", "commit", "sync", "replace", "save"}
    /\ ~Usable(t)
    /\ crashed' = TRUE
    /\ UNCHANGED <<disk, records, sessions, locks, pc, frame, staleCommit>>

Crashed == crashed /\ UNCHANGED vars

-----------------------------------------------------------------------------

ClientStep(c) ==
    \/ \E i \in 0..MaxIndex : WriteLockRequest(c, i)
    \/ WriteLockCheck(c) \/ WriteLockCreate(c)
    \/ WriteData(c)
    \/ EtirwRequest(c) \/ EtirwLock(c) \/ EtirwCommit(c) \/ EtirwDetach(c)
    \/ ss_sync_metadata_to_ns(c)
    \/ Disconnect(c)
    \/ WholeFileRequest(c)
    \/ CheckpointCheck(c) \/ CheckpointSave(c)
    \/ UndoWrite(c) \/ RevertWrite(c)

ThreadStep(t) ==
    \/ FindFile(t) \/ FindFails(t) \/ EnterFile(t)
    \/ WholeFileCheck(t) \/ WholeFileRefused(t)
    \/ TouchFreed(t)

NsStep ==
    \/ CopyRequest \/ CopyWrite
    \/ ss_create_file
    \/ ss_delete_file \/ DeleteContent \/ DeleteRecord \/ FreeRecord

Next ==
    \/ \E c \in Clients : ClientStep(c)
    \/ \E t \in Threads : ThreadStep(t)
    \/ NsStep
    \/ Crashed

Spec == Init /\ [][Next]_vars

-----------------------------------------------------------------------------
(* Properties *)

\* The type of every variable of the storage server.
TypeOK ==
    /\ listed \in SUBSET Recs /\ freed \in SUBSET Recs
    /\ onDisk \in BOOLEAN /\ content \in Text
    /\ undo \in Text /\ undoOnDisk \in BOOLEAN
    /\ undoAvail \in [Recs -> BOOLEAN]
    /\ ckpts \in [Recs -> Seq(Checkpoint)]
    /\ sessions \in [Clients -> Session \cup {NoSession}]
    /\ filesLock \in Threads \cup {NoThread}
    /\ fileLock \in [Recs -> Threads \cup {NoThread}]
    /\ pc \in [Threads -> Labels]
    /\ frame \in [Threads -> Frame]
    /\ crashed \in BOOLEAN /\ staleCommit \in BOOLEAN

\* DELETE_FILE found no writers of the record and is unlinking its files.
BeingDeleted(r) == pc[NS] \in {"unlink", "delist"} /\ frame[NS].rec = r

\* A session whose ETIRW has not committed, on the file as it is now listed.
\* DELETE_FILE does not see a session created after its test for writers, and
\* takes the file away under it: nothing is claimed of such a session.
Live(c) ==
    /\ HasSession(c) /\ pc[c] # "detach"
    /\ sessions[c].file \in listed /\ ~BeingDeleted(sessions[c].file)

\* ETIRW recomputes the index and the offsets of every other session, so each
\* open session still names one sentence of the file as it is now: its offsets
\* are the bounds ss_get_sentence_bounds finds for its index.  Holds as long as
\* no ETIRW has committed at offsets read before another commit.
SpansAreSentences ==
    ~staleCommit =>
        \A c \in Clients : Live(c) =>
            [start |-> sessions[c].sentence_start, end |-> sessions[c].sentence_end]
                \in ss_get_sentence_bounds(content, sessions[c].sentence_index)

\* The sentence lock: two open sessions on the file never name the same
\* sentence, whatever the commits between the two REQ_WRITE_LOCKs did to the
\* numbering of the sentences.
SentenceLocked ==
    ~staleCommit =>
        \A c, d \in Clients : c # d /\ Live(c) /\ Live(d) =>
            sessions[c].sentence_index # sessions[d].sentence_index

\* While a client holds a sentence nobody changes its text: the span of the
\* session still holds what OK_CONTENT sent when the lock was granted.
LockedTextUnchanged ==
    ~staleCommit =>
        \A c \in Clients : Live(c) =>
            /\ sessions[c].sentence_end <= Len(content)
            /\ Span(content, sessions[c].sentence_start, sessions[c].sentence_end)
                 = sessions[c].sentence_text

\* UNDO, REVERT, CHECKPOINT and SS_COPY work on the whole file only while it
\* has no write session: none appears between their check for writers and
\* their write, for REQ_WRITE_LOCK creates sessions under the same file_lock.
WholeFileOpsExclusive ==
    \A t \in Threads : pc[t] \in {"replace", "save"} =>
        ~ss_file_has_active_writers(frame[t].rec)

\* Two concurrent CHECKPOINT requests never record the same tag twice.
CheckpointTagsUnique ==
    \A r \in Recs : \A i, j \in DOMAIN ckpts[r] :
        ckpts[r][i].tag = ckpts[r][j].tag => i = j

\* UNDO "reverts the latest modification on a file": whatever replaces the
\* content of a document that stays listed, UNDO itself, SS_COPY and the unlink of
\* DELETE_FILE excepted, leaves the content it found as the undo text and makes it available.
ChangesAreUndoable ==
    [][(content' # content /\ listed' = listed
            /\ ~CopyWrite /\ ~DeleteContent
            /\ ~\E c \in Clients : UndoWrite(c))
         => undo' = content /\ \A r \in listed : undoAvail'[r]]_vars

(* Statements of the documentation that the code does not keep *)

\* "allow concurrent users to safely edit different sentences of the same
\* file": the span that ETIRW is about to replace is the sentence its client
\* locked.
EtirwReplacesLockedSentence ==
    \A c \in Clients :
        pc[c] = "commit" /\ Live(c) =>
            Span(content, frame[c].from, frame[c].to) = sessions[c].sentence_text

\* file_lock "serializes concurrent operations on this file": no thread uses a
\* record that DELETE_FILE has freed.
NoUseAfterFree == ~crashed

=============================================================================
