# TLA+ model of the distributed document store

The repository is a document store in C: one **name server** that knows the
files, **storage servers** that hold them, and **clients** that edit them
sentence by sentence. This directory holds TLA+ models of its concurrent core,
the TLC configurations that check them on small instances, and TLAPS proofs of
the theorems that hold for instances of any size. `PROJECT.json` lists the runs,
the mutants, the source lines behind every definition, the disagreements found
and the hazards.

To repeat a check: `tlc -workers 2 -config MCChannel.cfg MCNsSsChannel`; to
repeat a proof: `tlapm SsCopy_proofs.tla`.

## 1. Inventory

| Component | State | Operations | Interacts with |
|---|---|---|---|
| Storage server, write path (`storage_server.c`) | `ss->files` list of `FileRecord` with `file_lock`, `undo_available`, `checkpoints[]`; `ss->sessions` | REQ_WRITE_LOCK, WRITE_DATA, ETIRW, UNDO, CHECKPOINT, REVERT; CREATE_FILE, DELETE_FILE, SS_COPY | clients (one thread each), the name server (`ns_control_loop`) |
| Storage server, disk | content file, `.meta` and `.undo` sidecars and checkpoint files in one flat directory | every request that changes a document, SS_RENAME, loading at start | all of the above |
| Storage server, access lists | readers and writers of a record | SS_ADDACCESS, SS_REMACCESS, the file list at registration | name server |
| Storage server, COPY | a temporary file, locks on source and destination | SS_COPY, the peer's READ | name server, other storage servers, write sessions |
| Storage server, read side | access time in the sidecar | READ, STREAM, VIEWCHECKPOINT, LISTCHECKPOINTS, stats | clients |
| Name server, channel (`name_server.c`) | per storage server: `awaiting_response`, `response_ready`, `response_raw`, `refcount`, `is_alive` | `storage_server_acquire`, `_send_and_wait`, `_release`, `_signal_failure`, `run_ss_loop` | handler threads, the reader thread of the storage server |
| Name server, catalogue | `files[]`, hash index, LRU cache, `ns_metadata.db` | CREATE, CREATEFOLDER, MOVE, DELETE, SS_HAS_FILE, lookups, save, load | all handlers, under `state_lock` |
| Name server, access control | readers and writers of an entry, `access_requests[]` | ADDACCESS, REMACCESS, REQUESTACCESS, APPROVEACCESS, REJECTACCESS | storage server lists |
| Name server, registration and placement | `storage_servers[]`, load counters, round-robin index | HELLO_SS, the file list, WRITE_COMPLETE, selection of a storage server | storage servers |
| Name server, client connections | `clients[]` | HELLO_CLIENT, the command loop, listings | clients |
| Client (`client.c`) | one connection to the name server, at most one to a storage server | the command line, the `write>` prompt | both servers |
| Protocol (`protocol.c`) | none | building, splitting, sending, receiving a message | all |
| Utilities (`utils.c`) | none | path flattening, validation, logging, strings, base64 | all |

What is hard in this code:

* **Interleavings.** The name server runs one thread per connection. Most
  commands release `state_lock` while they wait for a storage server and take it
  again to finish or to roll back; what they found before may have changed. On
  the storage server a handler goes through `files_lock`, `file_lock` and
  `sessions_lock` in separate sections.
* **Failure.** A storage server that goes away fails the requests in flight, and
  reports its files again when it comes back, perhaps before the rollback of a
  request it had carried out.
* **Ordering.** Answers and unsolicited messages share one connection and are
  told apart only by whether somebody waits.
* **Nothing times out.** `storage_server_send_and_wait` waits on a condition
  variable without a limit, and sends block while the other side does not read,
  some of them with a lock held. A storage server that waits in one command answers
  none of the next.
* **Crashes.** A document is several files, changed in place one after the other;
  a storage server rebuilds its list from what the directory holds.
* **Bytes.** Messages have no length and answers no count: where one ends is a
  convention between sender and reader.

What makes each component correct: a sentence that is locked is changed by its
holder only, and operations on the whole file never meet an open session (write
path); what was answered is on the disk and a crash loses no text (disk); a copy
is one version of its source (COPY); a handler gets the answer to its own
request, and gets it eventually (channel); index and cache find the entry of the
name they are asked for, and commands take effect as a whole (catalogue); rights
come from the owner only and both servers agree on them (access control); the
catalogue is what the disks hold, the counters are what the catalogue holds
(placement); client and server agree where an answer ends, and every command ends
(connections); what is received is what was sent (protocol).

## 2. Modules

| Module | Models | Extended by |
|---|---|---|
| `SsWriteSessions` | the storage server's write path for one path on disk | `MCSsWriteSessions`, `SsWriteSessions_proofs` |
| `SsFileStore` | the storage directory, crashes and restarts | `MCSsFileStore`, `SsFileStore_inv` (the invariants), `SsFileStore_proofs` |
| `SsCopy` | COPY between storage servers, with the name server's handlers | `MCSsCopy`, `SsCopy_proofs` |
| `NsSsChannel` | the request channel of the name server to one storage server | `MCNsSsChannel`, `Wire_proofs` |
| `Namespace` | abstract: what the catalogue promises | instantiated by `NsCatalog` |
| `NsCatalog` | files array, index, cache, metadata file | `MCNsCatalog`, `NsCatalog_proofs` |
| `NsAccessControl` | access lists on both servers, and the mailbox of requests | `MCNsAccessControl`, `NsAccessControl_proofs` |
| `NsPlacement` | registration, file lists, load counters, CREATE and DELETE over several storage servers | `MCNsPlacement`, `NsPlacement_proofs` |
| `ClientServer` | client programs and the threads that serve them | `MCClientServer`, `ClientServer_proofs` |
| `Wire` | one direction of a connection, byte by byte | `MCWire`, `Wire_proofs` |

The modules overlap on purpose. Each keeps the locks and messages its questions
depend on and takes the outcome of the rest: `SsFileStore` takes the tests of
`SsWriteSessions` as passed, `NsCatalog` and `NsAccessControl` take a request to a
storage server as answered or failed, which is what `NsSsChannel` is about,
`ClientServer` has the form of an answer and not its content, and every module but
`Wire` takes messages as whole.

### SsWriteSessions

`listed`, `freed`, `undoAvail` and `ckpts` are the `FileRecord`s (several, the
successive incarnations of one path), `content` and `undo` the files on disk,
`sessions` the list of `WriteSession`s by client descriptor, `filesLock` and
`fileLock` the mutexes. `pc` and `frame` say where each thread is and what its
local variables hold. A step is the code between two lock operations at which
another thread can get in:

* REQ_WRITE_LOCK: `WriteLockRequest`, `FindFile`/`FindFails` (under
  `files_lock`), `EnterFile` (`file_lock`), `WriteLockCheck` (is the sentence
  free?), `WriteLockCreate` (bounds, session).
* `WriteData` edits the session's copy. ETIRW is `EtirwRequest` (offsets read
  under `sessions_lock`), `EtirwLock`, `EtirwCommit` (splice, undo text, shift
  of the other sessions), `EtirwDetach`, `ss_sync_metadata_to_ns`.
* UNDO, CHECKPOINT, REVERT and SS_COPY share `WholeFileRequest` or
  `CopyRequest`, find and enter, then `WholeFileCheck`/`WholeFileRefused` or
  `CheckpointCheck`, and end in a write of their own.
* `ss_create_file`; `Disconnect`. DELETE_FILE keeps `files_lock` but never takes
  `file_lock`: `ss_delete_file` is its test for writers, `DeleteContent` and
  `DeleteRecord` the unlinks and the delisting, `FreeRecord` the end of the record.
  REQ_WRITE_LOCK may create its session at any point in between. `TouchFreed` is the
  use of a freed record: behaviour is undefined there, and the model ends the process.

Text is a sequence of units, a word or a sentence delimiter. Offsets count units
where the code counts bytes; blanks between words, which the code attaches to a
sentence without moving its delimiters, are left out. Writes to disk succeed.
`sentence_text` in a session and `staleCommit` are history variables: the text
when the lock was granted, and whether some ETIRW has committed at offsets that
were no longer those of its session.

### SsFileStore

`disk` maps paths to contents, `files` and `rec` are the records in memory. A handler
finds its record under `files_lock` (`Find`), gets `file_lock` and makes its tests
(`Lock`), and then works through `todo`, the file system calls of its program (`etirw`,
`undo`, `checkpoint`, `revert`, `ss_handle_rename`, `handle_ss_copy`, ...), one per
`Step`; `Done` releases its locks and answers. Opening truncates, the text arrives when
the file is closed. CREATE_FILE and DELETE_FILE run under `files_lock` alone. A write
stands for its session as well: it takes no `files_lock`, and may begin on a record that
DELETE_FILE has already tested for writers. `Restart` kills the process between any two
steps and loads the directory as `ss_load_existing_files` and `ss_load_metadata` do.
Paths are token sequences, so that flattening (`/` to `_`), sidecar suffixes and the
checkpoint names, which use the unflattened name, are what the code makes of them.
History variables: `docs`, what the answers so far promise; `touch` and `lost`, the
names a running request, or one cut short by a crash or by DELETE, was changing (in
`lost` also those of a write that began during the DELETE); `texts`, the texts a crash
may leave. `Recs` are the addresses of records: a bound, and `Restart` waits for enough
of them to load every document. One access list stands for readers and writers, times
are left out, disk writes succeed.

### SsCopy

Each storage server has a control thread (`ctl`, the steps of `handle_ss_copy`
between lock operations), a thread that serves a peer's READ (`peer`), and write
sessions. `Begin` to `LockRecord` is the order of the two locks by address,
`Clone` the local case, `Request` and `Receive` the remote one, `Push` and `Reply`
the WRITE_COMPLETE and the OK on the name server connection. A commit is
`CommitOpen` (the file is truncated: its text is `Torn`), `CommitClose`, `Detach`,
`Sync`. A client that reads, or asks for a write session, finds its file under
`files_lock` and keeps that lock until it has `file_lock` (`FindFile`, `EnterFile`), as
the peer's READ does. On the name server, `awaiting` and `slot` are the fields of the
shared response slot: `Send` empties it, `Deliver` puts the first message that comes
into it and releases it, `Take` is whichever waiter runs first. `Kill` ends a storage
server; both neighbours see their connections end. `seen` (versions of the source
since the request), `made` and `disturbed` (handlers whose wait a message or a request
of another may have changed) are history.

### NsSsChannel

The slot fields keep their names. A handler goes through `"check"` (alive?),
`"turn"` (until nobody awaits), `"wait"` and `"return"`; the reader thread
through `"receive"` and `"update"` (WRITE_COMPLETE, needs `state_lock`).
`comm_lock` is held for straight-line code and released only in
`pthread_cond_wait`, and every change of a predicate is followed by a broadcast,
so a wait is the guard of the next step. `toSS` and `toNS` are the connection;
`Serve`, `ss_sync_metadata_to_ns` and `Fail` are the storage server, and `Hang` a
command of it that waits for ever, as COPYs in a circle do (`SsCopy`). Requests
are numbered, and the answer to request k is k. `"held"` commands (DELETE, MOVE)
keep `state_lock` over the wait.

### NsCatalog

Paths are sequences of components, `files` is the array, `file_index` the hash table as
a function, `file_cache` a set of at most `FILE_CACHE_SIZE` entries whose replacement
policy is left open (the code evicts the least recently used one; what is shown holds
for any choice). CREATE is `CreateBegin`, then `CreateDone` or `CreateRollback`, with
`state_lock` free in between. MOVE and DELETE keep `state_lock` and work through a
`plan`, one step per entry. Every command that changed something ends in `"save"`, a
separate step because `ns_save_metadata` locks `state_lock` itself; it empties the file,
`SaveEntries` writes any number of the entries still missing, `SaveEnd` closes it.
`ns_load_metadata` is a restart at any point, during a save too: it loads the entries
written so far and, when the file ends within a line, possibly an entry with a name, an
owner or a kind that is cut short (`Loadable`; `CutEntries`, a bound, are what a cut
line can give). Should that name be one already loaded, the array has it twice and the
model ends (`doubled`). What MOVE and DELETE do on the storage servers appears by its
outcome only (`RenameAtStorage`, `DeleteAtStorage`): all of it done, or one file failed
and the command given up.

`Namespace` is the abstract specification: a map from paths to owner and kind, the map a
restart finds, and the CREATEs that may still be taken back; every command is one step.
Saving has a begin and an end; a restart in between (`CutSave`) leaves some of the
entries and at most one that was misread. The refinement mapping (`VisibleEntries`)
shows the entries of the array, except that a MOVE or DELETE in the middle of its plan
counts as done: entries still to be moved are shown where they are going, entries still
to be deleted are not shown. That is what any other thread can see, since the plan is
worked off with `state_lock` held.

### NsAccessControl

`files` and `access_requests` are the name server's, `ssFiles` the storage server's
records, `reported` the SS_HAS_FILE messages not yet read. A command changes the name
server's lists, is `"send"` until the storage server has carried it out (`SsExecute`),
refused it (`CannotCreate` when the disk does), or gone down (`SsDown`, or `SsDownAfter`
when it had carried it out), then `Succeed` or `Rollback`. `ss_emit_file_list` is the
storage server coming back. `granted` and `rejected` are history variables. The module
assumes what the others are about: a handler gets the answer to its own request and a
lookup finds the right entry. Commands are sent only when the file list of a storage
server that came back has been read. `ns_register_client` admits one connection per
user, so a user stands for the thread that serves it.

### NsPlacement

`storage_servers` is the table with its load counters (entries of servers that
went away stay), `files` the catalogue as far as it says where a file is and how
large, `disk` what each server stores. `Hello` registers a server and queues its
file list; the reader thread is in `"sync"` until SS_FILES_DONE, then in `"main"`;
`HandOver` gives a message to a waiting handler before anything else is tried, in
both loops. CREATE chooses by `Balanced` (fewest bytes, then fewest files, from the
round-robin index), records the entry, waits and counts or rolls back; DELETE of a
folder sends one request per file with `state_lock` held. `Commit` and `Sync` are
ETIRW and its WRITE_COMPLETE, `Restore` is UNDO or REVERT, which changes the size and
sends none (`untold` keeps the names). `doubt`, `raced` and `disturbed` are history: the
names and servers that the properties except, each set where the code loses track
(a command that failed after it was sent, a message taken for another's answer, a
file that two servers have, a DELETE of a name whose CREATE is under way).

### ClientServer

`cpc` is where a client program is (`"prompt"`, `"wait"`, `"connect"`,
`"write"`), `th` where the thread is that serves a connection, `out` the messages
of its answer not yet sent, `rep` and `req` the connection. A server thread that
sends waits while `Buffer` messages are unread. `state_lock` is kept while the
entries of a listing are sent, `file_lock` while READ, STREAM, checkpoints and
the locked sentence are sent, `files_lock` while a thread waits for `file_lock`.
Commands with the same form of answer are one kind; `run_client_loop` and
`handle_client` give the answers, `Final` and `Ends` what the client takes for the
end. Descriptors are the lowest free ones and sessions are found by them.
`client_cleanup` ends a program at any point, `Stop` a server, `SigPipe` is the
unhandled signal of a send to a closed connection.

### Wire

`out` is what `send` has not taken yet, `pipe` the bytes on their way (at most
`Capacity`), `buffer` what the receiver has of the current message. `Send` takes
any part that fits. The sender may close, or die, at any byte. `sent` and `got`
are history.

## 3. Runs

All bounds are CONSTANTS in the `.cfg` files.

| Run | Instance | Shows |
|---|---|---|
| `ss_sessions` | 2 clients, 2 records, sentences 0..2, texts `w` and `w.w` growing to 3 units and more, CREATE_FILE and DELETE_FILE in steps; 6.0 M states | `SpansAreSentences`, `SentenceLocked`, `LockedTextUnchanged`, `TypeOK` |
| `ss_whole_file` | 2 clients, 3 tags, 2 checkpoint slots, UNDO, CHECKPOINT, REVERT, SS_COPY and sessions; 0.6 M | `WholeFileOpsExclusive`, `CheckpointTagsUnique`, `ChangesAreUndoable` |
| `store` | names a and d/b, a client and the control thread, 5 requests of 11 kinds, one kill and restart, 1 checkpoint slot, 2 tags; 1.54 M | `PromisesKept`, `TextSurvivesCrash` |
| `copy` | 2 storage servers, 3 files of which one cannot be read, 2 handlers, 2 copies, 1 read or commit, 1 kill; 0.75 M; fairness | `CopiesASnapshot`, `AnswerTrue`, `CopyAnswered` |
| `channel` | 3 handlers, 4 requests, 1 unsolicited message, failure, a command that hangs; 0.78 M; fairness | `AwaitingHasWaiter`, `DeliveredOnce`, `NeverStale`, `OneInFlight`, `LastOneIsPaired`, `ChannelFreed`, `LoneWaitEnds` |
| `catalog` | 2 users, paths d, d/a, e, e/d, e/d/a, array of 3, cache of 1, one SS_HAS_FILE, stepwise saves, restarts, 2 cut entries; 0.46 M | `IndexExact`, `CacheCoherent`, `RollbackRemovesOwn`, `SavedEntriesSurvive`, `ImplementsNamespace` |
| `acl_requests` | owner and 2 users, 1 file, lists of 1, mailbox of 2, failure; 1.5 M | `OnlyOwnerGrants`, `RejectedIsFinal` |
| `acl_mirror` | 3 users, 2 files, ADDACCESS, REMACCESS, CREATE (which may fail) and DELETE, a storage server that stays up, lists with room; 0.26 M up to symmetry | `AclMirrors` |
| `placement` | 2 storage servers, 2 names, 2 handlers with 2 commands together, 1 commit, UNDO or REVERT, table of 2, failures and returns; 4.9 M | `OneLiveEntry`, `LoadExact`, `CatalogMatchesDisk`, `SizeCurrent` |
| `client_server` | 3 programs of 2 users, 1 file, 2 storage server connections, socket buffers of 1 message, the storage server may stop; 0.59 M; fairness | `InStep`, `OnlineIsServed`, `WriterHasSession`, `CommandEnds`, `GoneIsForgotten` |
| `wire` | 3 messages with lengths around a limit of 6 bytes, buffers of 4; 12 thousand; fairness | `FramesKept`, `FieldsKept`, `SizeLimit`, `Arrives` |
| `ss_stale_offsets` | the smallest instance that shows it | a violation, section 4 |

For every property of a passing run, `PROJECT.json` names a mutant: an operator in
the module, marked "Mutant", that changes one definition the way a plausible bug
would and makes the property fail. The type invariants of the modules hold too;
only that of `SsWriteSessions` is part of a run. `PlanHolds` of `NsCatalog` (MOVE
and DELETE find every entry they planned, each new path free) holds in the
instance of `catalog` and is a theorem (section 5).

Why the bounds are enough. Two clients are all that a sentence or file lock can
distinguish; three sentences give one before, one after and one between. Three tags and
two slots make eviction happen, and so do two tags and one slot. Five requests create a
document, write it, rename it, and leave two to run at the same time when the process is
killed. Two servers and two copies make all the lock orders and the crossing of section
4 happen; a commit before, during or after a read of its file needs one commit; `copy`
was also run with clients on both files (1.16 M states). In the channel, two handlers
are needed to swap answers and a third to come between them; four requests let a swap be
followed by another request. Two entries of the array are needed for a hole to be filled
by the last entry, three for a third entry that must stay untouched, and five paths for
three places make CREATE, CREATEFOLDER and SS_HAS_FILE meet a full array; `catalog` was
also run with one user and an array of four. Two programs of one user are needed for a
refused login, and a third program of another user for a lock that one client's answer
keeps from another; a second connection is needed for a descriptor to be used again.
`placement` with one handler and one command was also run with two commits, UNDOs or
REVERTs (1.57 M), `wire` with four messages, `client_server` with all kinds of commands.
Lists of length 1, a table of two servers and arrays of 3 reach the limits that in the
code are 128 and 1000 (`SS_MAX_USERS_PER_FILE`, `NS_MAX_CLIENTS`), 10000
(`NS_MAX_FILES`), 1024 (`NS_MAX_ACCESS_REQUESTS`), 32 (`SS_MAX_CHECKPOINTS`), and those
of `protocol.h` and `name_server.h`. The limit on client names is not reached in
`client_server`. Clients, servers, tags, and in `acl_mirror` users and files, are
symmetric where symmetry is declared (there the first owners are the only difference,
and they appear in no action); runs with liveness properties use none.

Fairness. In each case what is assumed is that threads of processes that run are
scheduled and that a message in a socket can be read; nobody is assumed to give a
command, to fail or to leave.

* `FairSpec` of `NsSsChannel`: weak fairness of every handler's steps after it has
  started, of the reader thread, and of `Serve`. POSIX condition variables with
  broadcast wake every waiter. That `ns_control_loop` answers a command is not assumed:
  `Hang` may come instead of `Serve`, and disables it for good; the liveness properties
  say what holds while it has not happened.
* `Spec` of `SsCopy` and of `ClientServer`: as long as some thread of the servers
  (and, in `ClientServer`, some client that reads an answer) can take a step, one
  of them does. A command takes finitely many such steps, so this is enough. In
  `SsCopy` threads that wait for each other's locks can take none, so circles of waits
  stay.
* `Spec` of `Wire`: weak fairness of the receiver and of each sender.

Deadlock checking is off where a run may end: the bounds of `store`, `copy`,
`placement`, `client_server` and `wire` let it stop when all requests are made or
every program has ended, and in `channel` and `copy` the code itself can stop
(section 4).

### What the properties say

* `SpansAreSentences`, `SentenceLocked`, `LockedTextUnchanged`: ETIRW shifts the
  offsets and sentence numbers of all other sessions. After any sequence of
  commits each session still names exactly one sentence, its own, with the text
  it was granted. They are stated for executions without a stale commit, and say
  nothing of a session on a file whose DELETE_FILE has passed its test for writers.
* `WholeFileOpsExclusive`: no session appears between the check for writers and
  the write of UNDO, REVERT, CHECKPOINT and SS_COPY.
* `PromisesKept`: what the answers promised (names, owners, lists, texts, undo texts,
  checkpoints) is what the server has, also after it was killed and has loaded the
  directory, except for documents on which a request was cut short, by the kill or by
  DELETE, or a write began during a DELETE. `TextSurvivesCrash`: of that one, the old
  text or the new one is whole, in the content file or in the undo file.
* `CopiesASnapshot`: a copy is a text its source had, never one a commit was in the
  middle of writing. `AnswerTrue`: the client is told "done" exactly when it was
  done, if no other message was on its way, no other handler waited or sent before
  the answer was taken, and nobody committed there meanwhile. `CopyAnswered`: a COPY
  goes unanswered only when copies wait in a circle (`Crossed`) or two handlers wait for
  one slot (`Overtaken`).
* `LastOneIsPaired`: a swapped answer always leaves some handler behind; a
  handler that returns as the only user of the channel has its own answer.
* `ChannelFreed`: the slot never stays reserved, unless a handler keeps
  `state_lock` from the reader thread or the storage server hangs. `LoneWaitEnds`: if
  no two handlers use the channel at the same time and the storage server does not
  hang for ever, no wait is endless.
* `IndexExact`, `CacheCoherent`: array, index and cache agree after rollbacks,
  removals that move the last entry, renames and restarts. `SavedEntriesSurvive`:
  when nobody is at work, a save included, a restart would bring every entry back.
* `ImplementsNamespace`: every behaviour of the catalogue is, through the mapping of
  section 2, one of `Namespace`: CREATE takes effect at once and is confirmed or
  withdrawn by the same user, MOVE and DELETE of a folder happen as a whole, nobody
  sees half of them, and a restart brings back what was saved or, during a save, what
  of it is written.
* `OnlyOwnerGrants`: whoever may read or write a file, on either server, got the
  right from its owner. `RejectedIsFinal`: a failed approval, which makes its
  request pending again, never revives a rejected one.
* `OneLiveEntry`: an address has one live entry however often its server comes back.
  `LoadExact`: the counters CREATE chooses by are those of the catalogue.
  `CatalogMatchesDisk`, `SizeCurrent`: when nothing is under way, entries and sizes
  are those on the disks. The exceptions each makes are where the code loses track,
  and are named in its comment.
* `InStep`: at a prompt nothing of an earlier answer is on its way.
  `OnlineIsServed`: a user is online exactly while one connection serves the name.
  `WriterHasSession`: a client at the `write>` prompt has its session, although
  descriptors are used again. `CommandEnds`, `GoneIsForgotten`: every command comes
  back, and what a client leaves behind is cleared away.
* `FramesKept`, `FieldsKept`, `Arrives`: however a socket cuts them, messages arrive
  in order, byte for byte and field for field, and all of them do. `SizeLimit`: a
  line of exactly `MAX_MESSAGE_SIZE - 1` bytes is still received.

## 4. Where the code disagrees with what it says

Shown by a run, with the quoted line in `PROJECT.json`: in `ss_stale_offsets`,
ETIRW commits at offsets it read before it took `file_lock`, and overwrites text
its client never locked.

Each of the following is a property of a module that TLC finds violated, with the
constants named (otherwise those of the module's run):

| Property | What the code does |
|---|---|
| `SsWriteSessions!NoUseAfterFree` (`ss_sessions`) | DELETE_FILE destroys and frees a record that a thread still waits for or holds. |
| `NsSsChannel!PairedResponse` | A handler returns the answer to another's request, or an unsolicited message (`MaxPushes = 1`). |
| `NsSsChannel!WaitEnds` | DELETE and MOVE wait with `state_lock` held for an answer that only a thread waiting for `state_lock` can deliver; a waiter overtaken by another sender waits for ever. |
| `NsAccessControl!OnlyOwnerGrants`, two files and `"create"` among `Ops`, `MayFail = TRUE` | The rollback of REMACCESS writes to a position that by then may hold another user's file; APPROVEACCESS compares with the owner the file had when the request was made. |
| `NsAccessControl!AclMirrors`, lists of 1 or `MayFail = TRUE` | The rollback of ADDACCESS removes rights the user had before, and may come after the storage server has reported its lists. |
| `SsFileStore!CheckpointServed` | `storage_server.h:15-19` puts checkpoints at `<physical_name>.ckpt_<tag>`; the code uses the unflattened name (`storage_server.c:2584`), so CHECKPOINT of a file in a folder fails. |
| `SsFileStore!PromisesKept`, names d/a and d_a | Two paths share one file on disk; the second CREATE empties the first document. |
| `SsFileStore!PromisesKept`, two equal values in `Clock`, 2 slots | A checkpoint file is named after the second and the tag as `ss_sanitize_tag` leaves it: tags v.1 and v_1 in one second share a file (`storage_server.c:2584`), and the second checkpoint overwrites the first. |
| `SsCopy!MetadataSynchronized`, `Copies = {<<a, b>>}` | `README.md:194` says metadata is synchronised after a COPY; the WRITE_COMPLETE of SS_COPY comes before its OK and is taken for the answer. |
| `NsPlacement!RegistersWhileRoom` | `name_server.h:29` limits servers "that can register simultaneously"; entries of servers that went away count as well (`name_server.c:4140`). |
| `ClientServer!ServersStay`, `Stops = {}` | A send to a client that has closed its connection raises SIGPIPE, which nobody handles, and ends the server. |
| `Wire!WholeOrNull` | `protocol.h:550-554` says NULL is returned if the connection was closed; a message cut by the close is returned like a whole one (`protocol.c:269`). |
| `Wire!FramesKept`, two threads | `protocol.h:28-29` leaves locking to the caller; `storage_server.c:608` sends WRITE_COMPLETE from client threads on the socket the control thread answers on. |

Also met while modelling, each the reason of an exception in a property; without it
TLC finds the behaviour described:

* DELETE_FILE tests for writers under `sessions_lock`, releases it, unlinks and delists
  (`storage_server.c:1503-1528`). A REQ_WRITE_LOCK that already has `file_lock` creates
  its session after the test and is answered OK_LOCKED on a file that is gone (`Live`
  in `LockedTextUnchanged` and `SpansAreSentences`; 8 states). Its ETIRW can write the
  file anew, and the next start lists a document that was deleted (`lost` in
  `PromisesKept`; 22 states).
* SS_COPY leaves the undo text of an older modification (`ChangesAreUndoable`). The
  snapshot taken at lock time is never used, although the header of
  `storage_server.c` says ETIRW saves it as the undo text.
* `ns_save_metadata` truncates the only copy of the catalogue and writes it line by line
  (`name_server.c:952-992`): a stop in between loses entries, and a cut line may load as
  a wrong one (`CutSave` of `Namespace`, "no save under way" in `SavedEntriesSurvive`).
  The rollback of CREATE is not saved, so that property goes one way. APPROVEACCESS
  changes an access list and never saves; lists are not part of an entry in `NsCatalog`.
* Sizes are pushed without a lock, so an older one may arrive last; UNDO and REVERT
  push none, so the catalogue has the size from before them until the next commit
  or the next registration (`raced` and `untold` in `SizeCurrent`).
* The slot is released before the waiter has run: the next sender empties it or its
  answer is taken by the other, so a COPY may be reported as done that failed
  (`disturbed` in `AnswerTrue`; 18 states), and a waiter whose answer another took
  waits for ever (`Overtaken` in `CopyAnswered`; 21 states).
* COPYs in a circle of servers wait for each other for ever, each with its destination
  locked: directly, or because a client or a peer keeps `files_lock` of a server while
  it waits for such a destination (`Crossed` in `CopyAnswered`; 15 states). The control
  thread of each then answers nothing any more (`hung` in `ChannelFreed` and
  `LoneWaitEnds`).

## 5. Theorems

Proved by TLAPS for all values of the constants, from the named ASSUMEs of the
modules, which say that special values differ from ordinary ones and that
bounds are natural numbers. Some theorems have a hypothesis of their own, explained
below: `ListsMirror` is about instances that are `Reliable`, `RightsAreGranted`
about files that stay (`FilesStay`), those of `Wire` about a socket that one
thread sends on (`OneThread`), and those of `SsFileStore` about names that have
files of their own (`NamesApart`) and checkpoints that do (`TimesApart`). `Wire_proofs`
holds the theorems of the request channel too, whose specification is `ChannelSpec`.

| Theorem | Statement |
|---|---|
| `SsWriteSessions_proofs!TypeCorrect` | `Spec => []TypeOK` |
| `SsWriteSessions_proofs!WholeFileExclusion` | `Spec => []WholeFileOpsExclusive` |
| `SsWriteSessions_proofs!UniqueTags` | `Spec => []CheckpointTagsUnique` |
| `SsWriteSessions_proofs!SessionsNameSentences` | `Spec => []SpansAreSentences` |
| `SsWriteSessions_proofs!SentencesAreLocked` | `Spec => []SentenceLocked` |
| `SsWriteSessions_proofs!LockedTextStays` | `Spec => []LockedTextUnchanged` |
| `SsWriteSessions_proofs!EveryChangeUndoable` | `Spec => ChangesAreUndoable`, an action property |
| `SsFileStore_proofs!TypesHold` | `NamesApart` gives `Spec => []Types` |
| `SsFileStore_proofs!TextIsKept` | `NamesApart` gives `Spec => []TextSurvivesCrash` |
| `SsFileStore_proofs!RecordsAreSingular` | `NamesApart` gives `Spec => []Singular`: the records of two documents differ in name, unless a crash cut a request on the name short |
| `SsFileStore_proofs!PromisesAreKept` | `NamesApart` and `TimesApart` give `Spec => []PromisesKept` |
| `SsCopy_proofs!CopyIsASnapshot` | `Spec => []CopiesASnapshot` |
| `SsCopy_proofs!AnswersAreTrue` | `Spec => []AnswerTrue` |
| `Wire_proofs!AwaitingIsWaiting` | `ChannelSpec => []AwaitingHasWaiter` |
| `Wire_proofs!OnceDelivered` | `ChannelSpec => []DeliveredOnce` |
| `Wire_proofs!SingleRequest` | `ChannelSpec => []OneInFlight` |
| `Wire_proofs!NoStaleAnswer` | `ChannelSpec => []NeverStale` |
| `Wire_proofs!LastOnePaired` | `ChannelSpec => []LastOneIsPaired` |
| `NsCatalog_proofs!TypeCorrect` | `Spec => []TypeOK` |
| `NsCatalog_proofs!IndexIsInverse` | `Spec => []IndexExact` |
| `NsCatalog_proofs!CacheIsRight` | `Spec => []CacheCoherent` |
| `NsCatalog_proofs!RollbackIsOwn` | `Spec => []RollbackRemovesOwn` |
| `NsCatalog_proofs!PlansHold` | `Spec => []PlanHolds` |
| `NsCatalog_proofs!NothingIsLost` | `Spec => []SavedEntriesSurvive` |
| `NsCatalog_proofs!CatalogImplementsNamespace` | `Spec => ImplementsNamespace`, the refinement |
| `NsAccessControl_proofs!RejectionIsFinal` | `Spec => []RejectedIsFinal` |
| `NsAccessControl_proofs!ListsMirror` | `Reliable` gives `Spec => []AclMirrors` |
| `NsAccessControl_proofs!RightsAreGranted` | `FilesStay` gives `Spec => []OnlyOwnerGrants` |
| `NsPlacement_proofs!AtMostOneLive` | `Spec => []OneLiveEntry` |
| `NsPlacement_proofs!EntriesAreFiles` | `Spec => []CatalogMatchesDisk` |
| `NsPlacement_proofs!SizesAreCurrent` | `Spec => []SizeCurrent` |
| `NsPlacement_proofs!CountersAreExact` | `Spec => []LoadExact` |
| `Wire_proofs!TypeCorrect` | `OneThread` gives `Spec => []TypeOK` |
| `Wire_proofs!FramesAreKept` | `OneThread` gives `Spec => []FramesKept` |
| `Wire_proofs!FieldsAreKept` | `OneThread` gives `Spec => []FieldsKept` |
| `Wire_proofs!SizeIsLimited` | `OneThread` gives `Spec => []SizeLimit` |
| `ClientServer_proofs!AnswersInStep` | `Spec => []InStep` |
| `ClientServer_proofs!OnlineExactly` | `Spec => []OnlineIsServed` |
| `ClientServer_proofs!WriterKeepsSession` | `Spec => []WriterHasSession` |

How each follows. TLC checked every inductive invariant on the instance of the
module's run before it was proved.

* **Storage server: types and `file_lock`.** `TypeOK` is not inductive:
  `EtirwCommit` cuts the content at offsets in a frame, and shifting a session
  subtracts lengths. `TypeInv` adds `SessionsOrdered` (a span does not end before
  it starts) and `FramesFilled` (a thread past `"find"` has a record, one in ETIRW
  has a session). `ExclusionInv` adds that a thread inside a file section holds
  that record's `file_lock` (`LocksHeld`) and that a tag about to be saved is new
  (`SavesNewTag`). Sessions are created only under `file_lock`, so the check made at
  the start of the section still holds at its end; DELETE_FILE ignores `file_lock`
  but creates no session.
* **Storage server: the sentence lock.** `SentenceInv` adds to `ExclusionInv`
  that the file has one record at a time and whatever refers to an older one refers
  to one that is gone (`RecordsInv`: a commit then moves every session that counts);
  that a sentence found free is still free when the session is created
  (`FreeToLock`, because `file_lock` is held in between); and `Kept`: a live session
  (one on a file that DELETE_FILE has not tested for writers yet)
  names a sentence with the text it was given, no two name the same, and edits keep
  the delimiter that ends a sentence (`EndsKept`). The last is what makes a commit
  harmless: without it the working copy would run into the sentence after it. What
  a commit does to the others is a fact about texts: sentences before the spliced
  one keep offsets, index and text (`EarlierKept`), sentences after it move by the
  difference of the lengths and of the numbers of delimiters (`LaterMoved`, by
  counting delimiters). `staleCommit` excepts what section 4 shows. The action
  property follows from `RecordsInv` too: the record that is marked is the one
  listed.
* **Storage server: the disk.** `NamesApart` says that no two names flatten to the
  same path and that none holds a token of a sidecar or checkpoint suffix. The code
  does not see to it, and section 4 shows what follows for d/a and d_a. A document
  is up to four files beside its checkpoints, and a crash may come between any two
  of the calls left in `todo`; so the invariant says what those calls do. `Safe`
  says of each name in `texts` that a whole text is in one place that the calls left
  do not touch: in the content file; in the undo snapshot; in the content file while
  the snapshot is written, from then on in the snapshot (`Saving`); or in the content
  file until the temporary file, written before, is renamed over it (`Copying`).
  For this to hold through steps of two threads, each may change only the files of
  its own names (`Confined`), which it may because it holds the `file_lock` of the
  one record of that name (`Records`, `Handlers`, `Unique`). CREATE_FILE and
  DELETE_FILE, which ignore `file_lock`, need their own facts: the name is new, or
  its text is no longer promised (`Creating`, `Deleting`); `Renaming` says which of
  the six calls of a rename are left and which name the record has by then. Names
  must be unique after a restart too, when they come from the sidecars: a sidecar
  lies at the path of the name in it (`Sidecars`), except between a rename's move of
  the sidecar and its rewriting (`Between`), and then the name is in `lost`.
* **Storage server: the promises.** `PInv` holds together with the invariant above.
  A document nobody works on is `Settled`: a listed record and its sidecar, content,
  undo and checkpoint files are what `docs` says. One that a handler works on is
  `Underway`: the calls left in its `todo` will make the record and the files what
  the answer is going to promise. What a sequence of calls makes of a path is said
  without running it (`Ends`: the path is there and left alone, or is written last,
  or is what a rename brings; `Removed`; `Final` for the record), so that one lemma
  per clause carries it over a `Step`, and one lemma per program says that it holds
  when the locks have been taken. That other handlers' calls do not disturb it
  needs `Confined` for the four files of a name and, for checkpoint files, that two
  names never refer to the same one (`CkptsApart`) and that those referred to are of
  the past (`CkptsDated`): a checkpoint keeps its path through a rename, after which
  the old name may be created again. This is where `TimesApart` is needed: the
  second and the sanitised tag tell checkpoints apart. For the restart, everything in
  the directory that would be loaded as a document is known to `docs`, to a request
  under way, or to one that was cut short (`RecListed`, `SideListed`, `FileListed`).
  A write that begins while DELETE_FILE unlinks its document puts the name into `lost`,
  which all of these except.
* **COPY.** The property speaks of the moment before the rename. The invariant
  says which locks the control thread has at each step, that a file is torn only
  while its writer has the lock or its server is dead (`TornIsLocked`), and that the
  text on its way, in the stream or the temporary file, has been `seen`. For the
  answer, `AnswerInv` follows the number of a command: numbers of running commands
  differ and none is new (`Numbered`); a server that works for an undisturbed handler
  has only its job, and the first message that comes says whether the copy is made
  (`Alone`); what is in the slot while an undisturbed handler waits is the right answer
  to it, and nobody else waits there who could take it (`Expects`); once answered, no
  server still has the number, so `made` does not change behind the answer (`Right`).
* **Channel** (last part of `Wire_proofs`). `ChannelInv`: types of the slot, and an
  answer sits in one place only, in the connection, in the slot or with one handler, and
  is not newer than the last request. `AnswersInv`: only the newest request can be
  unanswered (`NewestOnly`), the reader thread lives as long as the server is alive
  (`ReaderAlive`), `refcount` counts the handlers in the channel (`RefsCounted`), the
  sender of an unanswered request waits (`SenderWaits`), and after a swap somebody is
  left who will never get an answer (`SwapLeavesOrphan`). The last two are why a handler
  alone in the channel cannot have another's answer.
* **Catalogue.** `IInv` has the array with index and cache (`ArrayInv`), unique names in
  the metadata file (`DbInv`, without which a restart would break the index), who holds
  `state_lock` (`LockInv`), what the holder's plan relies on (`PlanInv`: entries there
  and its own, new paths free, and `Moved` one-to-one), that the entry of a running
  CREATE is its own (`CreateInv`), that a file being written is the first part of the
  array (`SavingInv`, so that what a restart then loads has unique names), and that
  whatever is not in the file yet is about to be saved or being saved (`SaveInv`). The
  refinement is `RefinesInit` and `RefinesStep`: CREATE, the first step of a MOVE or
  DELETE that can no longer fail, confirmations, withdrawals, the begin and the end of a
  save and restarts map to the steps of `Namespace`, everything else to a stutter;
  nothing counts as saved while the file is written.
* **Access control.** `RejectedIsFinal` needs the types and that a request is decided by
  one thread at a time (`DecidedOnce`): a rollback finds its own request approved, never
  a rejected one. `ListsMirror` is about instances that are `Reliable`: the storage
  server stays up (`~MayFail`), APPROVEACCESS is not among the commands, and both list
  limits are at least the number of users. These are the conditions of the run
  `acl_mirror`, and section 4 shows what happens without them. `MirrorInv` says that a
  file's two lists agree up to the one command on it that is under way, for every number
  of users and files. `RightsAreGranted` allows failures, restarts and APPROVEACCESS;
  its hypothesis is that CREATE is not among the commands, so that a name and a position
  never come to stand for a file of somebody else (section 4 shows what happens then).
  `GrantInv` says what each handler may still do: what it gives, or gives back, was
  granted; the position where a REMACCESS gives rights back is its file's or past the
  end, although DELETE moves the last entry to another place; requests, records and
  reports name the owner. DELETE is the one step that takes grants away, and it is the
  owner's, whose handler then has nothing else under way.
* **Placement: the table.** An address may have many entries, but only its last can be
  live (`LiveIsLast`), since `Hello` adds an entry only when no reader thread serves
  the address.
* **Placement: where the files are.** `BInv` has the types, what a handler knows while
  it waits (`Role`, `Awaited`), and that the list of files comes first on a new
  connection (`Link`). `PInv` speaks of each name nobody doubts: a CREATE under way is
  the only command about it (`OneCreator`); it is recorded and on the disk, or a
  command says why not (`Recorded`); on the disk, it is recorded or its report is on
  the way (`Reported`); and at most one request or answer about it is under way, the
  one that the connection awaits (`OneRequest`, `OneAnswer`). When nothing is under way,
  `Recorded` and `Reported` are the two inclusions of `CatalogMatchesDisk`.
* **Placement: sizes.** `SInv` adds that the last message that tells a size tells the
  one on the disk, or, when none is on its way, the catalogue has it (`LastSize`),
  and that a message about a size is followed by the answer to the DELETE that made
  it out of date (`FromHolder`). An UNDO or REVERT takes the file out until its
  next commit or the next registration of its server (`untold`).
* **Placement: load.** `LInv` says of a server that has reported and is not excepted
  that its entry counts what the catalogue has, without the CREATEs that have not
  ended (`Counted`), that these belong to its latest entry and to different files
  (`Coherent`), and that no DELETE is of a file that is being created (`NotPlanned`).
  The bytes are a sum over a set, `FoldSet` in the model. That this sum exists, and
  what adding or removing an element does to it, is proved by taking a least
  counterexample (`LeastNat`, `SumExists`), which needs no induction theorem.
* **Clients.** Names: a user is online exactly while a thread serves the name
  (`OnlineInv`). Descriptors: those of running threads differ, and a session belongs
  to the thread whose descriptor it names (`SessionInv`), so a descriptor that is
  used again never brings back a session. Answers: `Talk` says, for every client and
  connection, that what is unsent and unread together is the rest of the answer to
  the request the client waits for, which it reads to its end; nothing is left at
  the prompt.
* **Protocol.** One thread sends on the socket, which is what `protocol.h:28-29` asks
  of the callers; section 4 shows what two threads do. `Flow` says that `buffer`,
  `pipe` and `out` one behind the other are the lines of the messages not received
  yet, each from its first byte, the first one perhaps begun: `e[i]` is where message
  `i` ends. A line has one terminator, its last byte, so the receiver stops where the
  sender began the next line (`NextMessage`). `TooLong` says why the receiver left an
  open connection. `protocol_build_message` is a fold over the fields; what it builds
  is proved by a least counterexample (`BuildLines`). For the fields, the delimiters
  of a line are counted: in a line whose fields hold none, the `i`-th one is behind
  the `i`-th field (`FieldRanks`), so that the pieces are the fields.

Only liveness is left to TLC alone (`ChannelFreed`, `LoneWaitEnds`, `CopyAnswered`,
`CommandEnds`, `GoneIsForgotten`, `Arrives`): fairness and ENABLED are outside the
prover's reach.

## 6. Not modelled

* MOVE's renames on several storage servers one after the other, and their rollback,
  whose outcome the code ignores (`name_server.c:2722`). `NsCatalog` has the outcome
  of MOVE as a whole, `SsFileStore` the rename on one server.
* EXEC runs a shell on the fetched text, outside the program; only the form of its
  answer is in `ClientServer`.
* Which entries a listing shows, the counts of GET_STATS, access times and wording.
* The helpers of `utils.c` for logging, time, strings, base64 and addresses, which
  keep no state and several of which have no caller; `flatten_logical_path` is in
  `SsFileStore`. Sentence bounds and word edits are on units, not characters.
* Messages that `protocol.h` declares for migration and replication, which no code
  sends or reads.
* Errors of disk writes, socket set-up and command-line parsing.

## 7. Plan

Done, in this order: `SsWriteSessions`, `NsSsChannel`, `NsCatalog`, `NsAccessControl`
and their first theorems; `Namespace` and the refinement, `SsFileStore` (crashes,
renames, flattening), `SsCopy`, `NsPlacement`, `ClientServer` and `Wire`; then the
theorems of section 5. Next: MOVE of a folder over several storage servers, with its
rollback.
