------------------------------- MODULE SsCopy -------------------------------
(***************************************************************************)
(* COPY, from the client's command at the name server to the renamed       *)
(* destination file and the answer.  The name server sends SS_COPY to the  *)
(* server of the destination, whose control thread reads the source from   *)
(* its own disk or, as a client with REQ_READ, from another storage server *)
(* while it holds the destination's file_lock.  Clients write the files    *)
(* meanwhile, and a server may die.                                        *)
(*                                                                         *)
(* Composes the request channel of NsSsChannel (the reader puts the first  *)
(* message it reads, whatever it is, into the server's slot, and whichever *)
(* waiter runs first takes it) with the locks of SsWriteSessions for two   *)
(* or more servers.  COPY commands are numbered; the code has no such      *)
(* number, and only the properties look at it.                             *)
(***************************************************************************)
EXTENDS Naturals, Sequences, FiniteSets

CONSTANTS
    Servers, Files,
    Home,         \* [Files -> server that stores the file]
    Rank,         \* [Files -> address of its FileRecord]
    Unreadable,   \* files that REQ_READ refuses: not there, or no access
    Copies,       \* <<source, destination>> of the COPY commands
    Handlers, NoHandler,
    Free,         \* a mutex is free
    NoMsg,
    Written,      \* bound: the files that clients read and write
    MaxCopies, MaxCommits, MaxKills   \* bounds: COPYs, requests of those clients, deaths

ASSUME CopyAssumption ==
    /\ Home \in [Files -> Servers] /\ Rank \in [Files -> Nat]
    /\ \A f, g \in Files : Rank[f] = Rank[g] => f = g
    /\ Written \subseteq Files /\ Unreadable \subseteq Files
    /\ Copies \subseteq Files \X Files
    /\ NoHandler \notin Handlers /\ "torn" \notin Files
    /\ MaxCopies \in Nat /\ MaxCommits \in Nat /\ MaxKills \in Nat

\* A text is the file it was written to first and the number of the commit; Torn
\* is what a file holds while ETIRW has truncated it and not written it yet.
Torn == <<"torn", 0>>
Texts == (Files \X (0..MaxCommits)) \cup {Torn}

VARIABLES
    text,        \* [Files -> content on disk]
    session,     \* the files that have a write session (one each: a bound)
    committed,   \* the files whose session has been committed and not detached yet
    unsynced,    \* the files whose size after a commit has not been sent yet
    file_lock,   \* [Files -> thread that holds it]
    files_lock,  \* [Servers -> thread that holds it]
    ctl,         \* [Servers -> step of its thread in ns_control_loop]
    job,         \* [Servers -> SS_COPY it serves]
    temp,        \* [Servers -> content of the .copytmp file]
    peer,        \* [Servers -> step of the other server's thread that reads for it]
    stream,      \* [Servers -> what that thread has sent]
    up,          \* the servers that run
    pc, copy, result,  \* [Handlers -> step, COPY command, message got]
    awaiting,    \* [Servers -> handler that set awaiting_response, if it is set]
    slot,        \* [Servers -> response_raw, ready to be taken]
    toSS, toNS,  \* [Servers -> the two directions of its connection]
    known,       \* [Files -> text whose size and counts the name server has]
    copies, commits, kills,
    seen,        \* history: [Servers -> whole texts the source had since SS_COPY was read]
    made,        \* history: numbers of the COPYs that replaced their destination
    disturbed    \* history: handlers whose wait may see a message of another

locks == <<file_lock, files_lock>>
disk == <<text, session, committed, unsynced>>
server == <<ctl, job, temp, peer, stream, up>>
handler == <<pc, copy, result>>
wire == <<awaiting, slot, toSS, toNS>>
bounds == <<copies, commits, kills>>
history == <<seen, made, disturbed>>
vars == <<disk, locks, server, handler, wire, known, bounds, history>>

Ctl(s) == <<"ctl", s>>
Peer(s) == <<"peer", s>>
Writer(f) == <<"writer", f>>
Client(f) == <<"client", f>>

ASSUME FreeAssumption ==
    Free \notin {Ctl(s) : s \in Servers} \cup {Peer(s) : s \in Servers}
                 \cup {Writer(f) : f \in Files} \cup {Client(f) : f \in Files}

NoJob == [src |-> NoMsg, dst |-> NoMsg, nr |-> 0]

Init ==
    /\ text = [f \in Files |-> <<f, 0>>] /\ session = {} /\ committed = {} /\ unsynced = {}
    /\ file_lock = [f \in Files |-> Free] /\ files_lock = [s \in Servers |-> Free]
    /\ ctl = [s \in Servers |-> "idle"] /\ job = [s \in Servers |-> NoJob]
    /\ temp = [s \in Servers |-> Torn]
    /\ peer = [s \in Servers |-> "none"] /\ stream = [s \in Servers |-> NoMsg]
    /\ up = Servers
    /\ pc = [h \in Handlers |-> "idle"] /\ copy = [h \in Handlers |-> NoJob]
    /\ result = [h \in Handlers |-> NoMsg]
    /\ awaiting = [s \in Servers |-> NoHandler] /\ slot = [s \in Servers |-> NoMsg]
    /\ toSS = [s \in Servers |-> <<>>] /\ toNS = [s \in Servers |-> <<>>]
    /\ known = text
    /\ copies = 0 /\ commits = 0 /\ kills = 0
    /\ seen = [s \in Servers |-> {}] /\ made = {} /\ disturbed = {}

-----------------------------------------------------------------------------
(* The name server *)

\* The server a handler talks to: that of the destination.
Dest(h) == Home[copy[h].dst]

\* COPY: both files have an entry and the user the access; both servers are alive.
\* state_lock is released before the request is sent.
Copy(h, c) ==
    /\ pc[h] = "idle" /\ copies < MaxCopies
    /\ Home[c[1]] \in up /\ Home[c[2]] \in up
    /\ copies' = copies + 1
    /\ pc' = [pc EXCEPT ![h] = "send"]
    /\ copy' = [copy EXCEPT ![h] = [src |-> c[1], dst |-> c[2], nr |-> copies + 1]]
    /\ UNCHANGED <<disk, locks, server, result, wire, known, commits, kills, history>>

\* Handlers that wait for an answer of server s.
Waiting(s) == {h \in Handlers : pc[h] = "wait" /\ Dest(h) = s}

\* storage_server_send_and_wait up to the wait: when no answer is awaited the slot
\* is emptied, an answer that nobody has taken yet included, and SS_COPY is sent.
Send(h) ==
    LET s == Dest(h)
    IN  /\ pc[h] = "send"
        /\ IF s \in up
           THEN /\ awaiting[s] = NoHandler
                /\ slot' = [slot EXCEPT ![s] = NoMsg]
                /\ awaiting' = [awaiting EXCEPT ![s] = h]
                /\ toSS' = [toSS EXCEPT ![s] = Append(@, copy[h])]
                /\ disturbed' = IF toNS[s] = <<>> /\ ctl[s] = "idle" /\ toSS[s] = <<>>
                                      /\ Waiting(s) = {}
                                THEN disturbed ELSE disturbed \cup {h} \cup Waiting(s)
                /\ pc' = [pc EXCEPT ![h] = "wait"]
                /\ UNCHANGED result
           ELSE /\ result' = [result EXCEPT ![h] = [do |-> "FAILED"]]
                /\ pc' = [pc EXCEPT ![h] = "return"]
                /\ UNCHANGED <<awaiting, slot, toSS, disturbed>>
        /\ UNCHANGED <<disk, locks, server, copy, toNS, known, bounds, seen, made>>

\* run_ss_loop: put the message into the slot of one who awaits it, or update the
\* statistics of the file it names.
Deliver(s) ==
    LET m == Head(toNS[s])
    IN  /\ toNS[s] # <<>>
        /\ toNS' = [toNS EXCEPT ![s] = Tail(@)]
        /\ IF awaiting[s] # NoHandler /\ slot[s] = NoMsg
           THEN /\ slot' = [slot EXCEPT ![s] = m]
                /\ awaiting' = [awaiting EXCEPT ![s] = NoHandler]
                /\ UNCHANGED known
           ELSE /\ known' = IF m.do = "WRITE_COMPLETE"
                            THEN [known EXCEPT ![m.file] = m.text] ELSE known
                /\ UNCHANGED <<slot, awaiting>>
        /\ UNCHANGED <<disk, locks, server, handler, toSS, bounds, history>>

\* The end of the wait: a handler that waits takes what is in the slot.
Take(h) ==
    LET s == Dest(h)
    IN  /\ pc[h] = "wait" /\ slot[s] # NoMsg
        /\ result' = [result EXCEPT ![h] = slot[s]]
        /\ slot' = [slot EXCEPT ![s] = NoMsg]
        /\ awaiting' = [awaiting EXCEPT ![s] = NoHandler]
        /\ pc' = [pc EXCEPT ![h] = "return"]
        /\ UNCHANGED <<disk, locks, server, copy, toSS, toNS, known, bounds, history>>

\* Mutant: an error is forwarded and taken for success.
Succeeded_NotFailed(h) == result[h] # NoMsg /\ result[h].do # "FAILED"

\* protocol_is_error of what came.
Succeeded(h) == result[h] # NoMsg /\ result[h].do \notin {"ERROR", "FAILED"}

\* The answer, whatever it is, is forwarded to the client.
End(h) ==
    /\ pc[h] = "return"
    /\ pc' = [pc EXCEPT ![h] = "idle"]
    /\ copy' = [copy EXCEPT ![h] = NoJob] /\ result' = [result EXCEPT ![h] = NoMsg]
    /\ disturbed' = disturbed \ {h} /\ made' = made \ {copy[h].nr}
    /\ UNCHANGED <<disk, locks, server, wire, known, bounds, seen>>

-----------------------------------------------------------------------------
(* handle_ss_copy, in the control thread of the destination's server *)

\* The server of the source.
Source(s) == Home[job[s].src]

Local(s) == Source(s) = s
TwoLocks(s) == Local(s) /\ job[s].src # job[s].dst

\* Of two records the one with the lower address is locked first.
First(s) ==
    IF TwoLocks(s) /\ Rank[job[s].src] < Rank[job[s].dst] THEN job[s].src ELSE job[s].dst
\* Mutant: the same record is locked twice.
Second_Same(s) == First(s)

Second(s) == IF First(s) = job[s].src THEN job[s].dst ELSE job[s].src

\* ns_control_loop reads SS_COPY; the records are found under files_lock.
Begin(s) ==
    /\ s \in up /\ ctl[s] = "idle" /\ toSS[s] # <<>>
    /\ files_lock[s] = Free
    /\ files_lock' = [files_lock EXCEPT ![s] = Ctl(s)]
    /\ job' = [job EXCEPT ![s] = Head(toSS[s])]
    /\ toSS' = [toSS EXCEPT ![s] = Tail(@)]
    /\ ctl' = [ctl EXCEPT ![s] = "first"]
    /\ seen' = [seen EXCEPT ![s] = {text[Head(toSS[s]).src]} \ {Torn}]
    /\ UNCHANGED <<disk, file_lock, temp, peer, stream, up, handler, awaiting, slot, toNS,
                   known, bounds, made, disturbed>>

\* files_lock is kept until the last of the locks is there.
LockRecord(s) ==
    LET last == ctl[s] = "second" \/ ~TwoLocks(s)
        f == IF ctl[s] = "first" THEN First(s) ELSE Second(s)
    IN  /\ ctl[s] \in {"first", "second"}
        /\ file_lock[f] = Free
        /\ file_lock' = [file_lock EXCEPT ![f] = Ctl(s)]
        /\ files_lock' = IF last THEN [files_lock EXCEPT ![s] = Free] ELSE files_lock
        /\ ctl' = [ctl EXCEPT ![s] = IF last THEN "check" ELSE "second"]
        /\ UNCHANGED <<disk, job, temp, peer, stream, up, handler, wire, known, bounds,
                       history>>

\* The destination, and a local source, must have no writers.
Busy(s) == job[s].dst \in session \/ (Local(s) /\ job[s].src \in session)

Release(F) == file_lock' = [f \in Files |-> IF f \in F THEN Free ELSE file_lock[f]]

Check(s) ==
    /\ ctl[s] = "check"
    /\ \/ Busy(s) /\ ctl' = [ctl EXCEPT ![s] = "failed"]
       \/ ~Busy(s) /\ Local(s) /\ ctl' = [ctl EXCEPT ![s] = "clone"]
       \/ ~Busy(s) /\ ~Local(s) /\ ctl' = [ctl EXCEPT ![s] = "request"]
    /\ Release(IF Busy(s) /\ TwoLocks(s) THEN {job[s].src} ELSE {})
    /\ UNCHANGED <<disk, files_lock, job, temp, peer, stream, up, handler, wire, known,
                   bounds, history>>

\* A local source is copied to the temporary file and unlocked.
Clone(s) ==
    /\ ctl[s] = "clone"
    /\ temp' = [temp EXCEPT ![s] = text[job[s].src]]
    /\ Release(IF TwoLocks(s) THEN {job[s].src} ELSE {})
    /\ ctl' = [ctl EXCEPT ![s] = "finish"]
    /\ UNCHANGED <<disk, files_lock, job, peer, stream, up, handler, wire, known, bounds,
                   history>>

\* ss_connect_to_peer and REQ_READ: a thread of the other server takes it up.
Request(s) ==
    /\ ctl[s] = "request"
    /\ IF Source(s) \in up
       THEN /\ ctl' = [ctl EXCEPT ![s] = "receive"]
            /\ peer' = [peer EXCEPT ![s] = "find"]
            /\ stream' = [stream EXCEPT ![s] = NoMsg]
       ELSE /\ ctl' = [ctl EXCEPT ![s] = "failed"]
            /\ UNCHANGED <<peer, stream>>
    /\ UNCHANGED <<disk, locks, job, temp, up, handler, wire, known, bounds, history>>

\* The stream is read up to its end, or to an error.
Receive(s) ==
    /\ ctl[s] = "receive" /\ stream[s] # NoMsg
    /\ stream' = [stream EXCEPT ![s] = NoMsg]
    /\ IF stream[s].do = "content"
       THEN /\ temp' = [temp EXCEPT ![s] = stream[s].text]
            /\ ctl' = [ctl EXCEPT ![s] = "finish"]
       ELSE /\ ctl' = [ctl EXCEPT ![s] = "failed"]
            /\ UNCHANGED temp
    /\ UNCHANGED <<disk, locks, job, peer, up, handler, wire, known, bounds, history>>

Push(s, m) == toNS' = [toNS EXCEPT ![s] = Append(@, m)]

\* The temporary file becomes the destination, the name server is told its size,
\* and the lock is released.
Finish(s) ==
    /\ ctl[s] = "finish"
    /\ text' = [text EXCEPT ![job[s].dst] = temp[s]]
    /\ Push(s, [do |-> "WRITE_COMPLETE", file |-> job[s].dst, text |-> temp[s]])
    /\ Release({job[s].dst})
    /\ ctl' = [ctl EXCEPT ![s] = "reply"] /\ job' = [job EXCEPT ![s] = NoJob]
    /\ temp' = [temp EXCEPT ![s] = Torn]
    /\ made' = IF \E h \in Handlers : copy[h].nr = job[s].nr
               THEN made \cup {job[s].nr} ELSE made
    /\ seen' = [t \in Servers |-> IF t = s THEN {}
                                  ELSE IF job[t].src = job[s].dst
                                       THEN seen[t] \cup {temp[s]} ELSE seen[t]]
    /\ UNCHANGED <<session, committed, unsynced, files_lock, peer, stream, up, handler,
                   awaiting, slot, toSS, known, bounds, disturbed>>

\* The answer comes last.
Reply(s) ==
    /\ ctl[s] = "reply"
    /\ Push(s, [do |-> "OK"])
    /\ ctl' = [ctl EXCEPT ![s] = "idle"]
    /\ UNCHANGED <<disk, locks, job, temp, peer, stream, up, handler, awaiting, slot, toSS,
                   known, bounds, history>>

Fail(s) ==
    /\ ctl[s] = "failed"
    /\ Release({job[s].dst})
    /\ Push(s, [do |-> "ERROR"])
    /\ ctl' = [ctl EXCEPT ![s] = "idle"] /\ job' = [job EXCEPT ![s] = NoJob]
    /\ seen' = [seen EXCEPT ![s] = {}]
    /\ UNCHANGED <<disk, files_lock, temp, peer, stream, up, handler, awaiting, slot, toSS,
                   known, bounds, made, disturbed>>

-----------------------------------------------------------------------------
(* handle_client_read, in a thread of the source's server *)

\* The record is found under files_lock, which is kept while file_lock is waited
\* for.
PeerFind(s) ==
    LET p == Source(s)
    IN  /\ peer[s] = "find" /\ files_lock[p] = Free
        /\ IF job[s].src \in Unreadable
           THEN /\ stream' = [stream EXCEPT ![s] = [do |-> "error"]]
                /\ peer' = [peer EXCEPT ![s] = "none"]
                /\ UNCHANGED files_lock
           ELSE /\ files_lock' = [files_lock EXCEPT ![p] = Peer(s)]
                /\ peer' = [peer EXCEPT ![s] = "lock"]
                /\ UNCHANGED stream
        /\ UNCHANGED <<disk, file_lock, ctl, job, temp, up, handler, wire, known, bounds,
                       history>>

\* Mutant: the content is read without the file's lock.
PeerRead_Unlocked(s) ==
    /\ peer[s] = "lock"
    /\ files_lock' = [files_lock EXCEPT ![Source(s)] = Free]
    /\ stream' = [stream EXCEPT ![s] = [do |-> "content", text |-> text[job[s].src]]]
    /\ peer' = [peer EXCEPT ![s] = "none"]
    /\ UNCHANGED <<disk, file_lock, ctl, job, temp, up, handler, wire, known, bounds,
                   history>>

\* file_lock is taken, files_lock released, the content read and sent.
PeerRead(s) ==
    /\ peer[s] = "lock" /\ file_lock[job[s].src] = Free
    /\ files_lock' = [files_lock EXCEPT ![Source(s)] = Free]
    /\ stream' = [stream EXCEPT ![s] = [do |-> "content", text |-> text[job[s].src]]]
    /\ peer' = [peer EXCEPT ![s] = "none"]
    /\ UNCHANGED <<disk, file_lock, ctl, job, temp, up, handler, wire, known, bounds,
                   history>>

-----------------------------------------------------------------------------
(* Writers and failures *)

\* A client reads a file or begins a write session.  The record is found under
\* files_lock, which is kept while file_lock is waited for ...
FindFile(f) ==
    /\ f \in Written /\ Home[f] \in up /\ commits < MaxCommits
    /\ files_lock[Home[f]] = Free
    /\ files_lock' = [files_lock EXCEPT ![Home[f]] = Client(f)]
    /\ commits' = commits + 1
    /\ UNCHANGED <<disk, file_lock, server, handler, wire, known, copies, kills, history>>

\* ... and under file_lock the file is read, and the session created if that is
\* asked for and allowed.
EnterFile(f) ==
    /\ files_lock[Home[f]] = Client(f) /\ file_lock[f] = Free
    /\ files_lock' = [files_lock EXCEPT ![Home[f]] = Free]
    /\ session' \in {session, session \cup {f}}
    /\ UNCHANGED <<text, committed, unsynced, file_lock, server, handler, wire, known, bounds,
                   history>>

\* ETIRW truncates the file under its lock ...
CommitOpen(f) ==
    /\ Home[f] \in up /\ f \in session \ committed /\ file_lock[f] = Free
    /\ file_lock' = [file_lock EXCEPT ![f] = Writer(f)]
    /\ text' = [text EXCEPT ![f] = Torn]
    /\ UNCHANGED <<session, committed, unsynced, files_lock, server, handler, wire, known,
                   bounds, history>>

\* ... writes it and releases the lock ...
CommitClose(f) ==
    LET x == <<f, commits>>
    IN  /\ file_lock[f] = Writer(f)
        /\ text' = [text EXCEPT ![f] = x]
        /\ committed' = committed \cup {f}
        /\ Release({f})
        /\ seen' = [t \in Servers |-> IF job[t].src = f
                                      THEN seen[t] \cup {x} ELSE seen[t]]
        /\ UNCHANGED <<session, unsynced, files_lock, server, handler, wire, known, bounds,
                       made, disturbed>>

\* ... then detaches the session ...
Detach(f) ==
    /\ f \in committed
    /\ session' = session \ {f} /\ committed' = committed \ {f}
    /\ unsynced' = unsynced \cup {f}
    /\ UNCHANGED <<text, locks, server, handler, wire, known, bounds, history>>

\* ... and at last tells the name server what the file holds by now.
Sync(f) ==
    /\ f \in unsynced
    /\ unsynced' = unsynced \ {f}
    /\ Push(Home[f], [do |-> "WRITE_COMPLETE", file |-> f, text |-> text[f]])
    /\ disturbed' = disturbed \cup {h \in Handlers : awaiting[Home[f]] = h}
    /\ UNCHANGED <<text, session, committed, locks, server, handler, awaiting, slot,
                   toSS, known, bounds, seen, made>>

\* A storage server dies: its threads and locks are gone, the servers that read
\* from it and the handlers that wait for it see the connection end.
Kill(s) ==
    /\ s \in up /\ kills < MaxKills
    /\ kills' = kills + 1
    /\ up' = up \ {s}
    /\ ctl' = [ctl EXCEPT ![s] = "dead"] /\ job' = [job EXCEPT ![s] = NoJob]
    /\ temp' = [temp EXCEPT ![s] = Torn] /\ seen' = [seen EXCEPT ![s] = {}]
    /\ peer' = [t \in Servers |-> IF t = s \/ (peer[t] # "none" /\ Source(t) = s)
                                  THEN "none" ELSE peer[t]]
    /\ stream' = [t \in Servers |->
          IF t = s THEN NoMsg
          ELSE IF peer[t] # "none" /\ Source(t) = s THEN [do |-> "error"] ELSE stream[t]]
    /\ Release({f \in Files : Home[f] = s})
    /\ files_lock' = [t \in Servers |->
          IF t = s \/ files_lock[t] = Peer(s) THEN Free ELSE files_lock[t]]
    /\ session' = {f \in session : Home[f] # s}
    /\ committed' = {f \in committed : Home[f] # s}
    /\ unsynced' = {f \in unsynced : Home[f] # s}
    /\ toSS' = [toSS EXCEPT ![s] = <<>>] /\ toNS' = [toNS EXCEPT ![s] = <<>>]
    /\ awaiting' = [awaiting EXCEPT ![s] = NoHandler]
    /\ slot' = IF awaiting[s] # NoHandler /\ slot[s] = NoMsg
               THEN [slot EXCEPT ![s] = [do |-> "FAILED"]] ELSE slot
    /\ UNCHANGED <<text, handler, known, copies, commits, made, disturbed>>

-----------------------------------------------------------------------------

NameServerStep ==
    \/ \E h \in Handlers : Send(h) \/ Take(h) \/ End(h)
    \/ \E s \in Servers : Deliver(s)
ControlStep(s) ==
    \/ Begin(s) \/ LockRecord(s) \/ Check(s) \/ Clone(s) \/ Request(s) \/ Receive(s)
    \/ Finish(s) \/ Reply(s) \/ Fail(s)
PeerStep(s) == PeerFind(s) \/ PeerRead(s)
ClientStep(f) == EnterFile(f) \/ CommitClose(f) \/ Detach(f) \/ Sync(f)

Next ==
    \/ \E h \in Handlers, c \in Copies : Copy(h, c)
    \/ NameServerStep
    \/ \E s \in Servers : ControlStep(s) \/ PeerStep(s) \/ Kill(s)
    \/ \E f \in Files : FindFile(f) \/ CommitOpen(f) \/ ClientStep(f)

\* As long as some thread of the servers can run, one of them does: a command
\* takes finitely many steps, so this is enough.  Nobody must begin a COPY, another
\* request or a commit, and servers need not die.
ThreadStep ==
    \/ NameServerStep
    \/ \E s \in Servers : ControlStep(s) \/ PeerStep(s)
    \/ \E f \in Files : ClientStep(f)

Spec == Init /\ [][Next]_vars /\ WF_vars(ThreadStep)

-----------------------------------------------------------------------------
(* Properties *)

\* The type of every variable of the copying servers.
TypeOK ==
    /\ text \in [Files -> Texts] /\ known \in [Files -> Texts]
    /\ committed \subseteq session /\ session \subseteq Files /\ unsynced \subseteq Files
    /\ up \subseteq Servers
    /\ \A f \in Files : file_lock[f] \in {Free, Ctl(Home[f]), Writer(f)}
    /\ \A s \in Servers :
          files_lock[s] \in {Free, Ctl(s)} \cup {Peer(t) : t \in Servers \ {s}}
                               \cup {Client(f) : f \in {g \in Files : Home[g] = s}}
    /\ ctl \in [Servers -> {"idle", "first", "second", "check", "clone", "request",
                            "receive", "finish", "reply", "failed", "dead"}]
    /\ peer \in [Servers -> {"none", "find", "lock"}]
    /\ pc \in [Handlers -> {"idle", "send", "wait", "return"}]
    /\ awaiting \in [Servers -> Handlers \cup {NoHandler}]
    /\ made \subseteq 1..MaxCopies /\ disturbed \subseteq Handlers

\* What a COPY puts in place is a text that the source had, whole, at some moment
\* between the request and the rename: never one that a commit was in the middle
\* of writing.
CopiesASnapshot == \A s \in Servers : ctl[s] = "finish" => temp[s] \in seen[s]

\* A client is told that its copy was made exactly when it was, if everything
\* sent before had been read and no other handler waited when SS_COPY was sent, no
\* other request was sent before the answer was taken, and nobody committed a write
\* on that server meanwhile.  A server that died may have made the copy.
AnswerTrue ==
    \A h \in Handlers :
        result[h] # NoMsg /\ h \notin disturbed /\ result[h].do # "FAILED" =>
            (Succeeded(h) <=> copy[h].nr \in made)

\* The copy into server s waits for server t, whose control thread has the
\* file_lock that the read needs, or that the thread needs which keeps files_lock
\* from it.
WaitsFor(s, t) ==
    /\ ctl[s] = "receive" /\ Source(s) = t
    /\ \/ peer[s] = "lock" /\ file_lock[job[s].src] = Ctl(t)
       \/ /\ peer[s] = "find"
          /\ \E f \in Files :
                /\ Home[f] = t /\ file_lock[f] = Ctl(t)
                /\ \/ files_lock[t] = Client(f)
                   \/ \E u \in Servers : files_lock[t] = Peer(u) /\ job[u].src = f

\* Servers that copy from each other wait in a circle: each holds its destination's
\* lock, which the read for the one before it needs.
Crossed == \E C \in SUBSET Servers \ {{}} : \A s \in C : \E t \in C : WaitsFor(s, t)

\* A request was sent before the answer to another was taken: two handlers wait for
\* one slot, and either may take what comes, or find the slot emptied.
Overtaken(s) == Cardinality(Waiting(s)) > 1

\* Every COPY gets an answer, unless copies cross, or another handler overtakes one
\* that waits for the same server.
CopyAnswered ==
    \A h \in Handlers : pc[h] = "send" ~> (pc[h] = "idle" \/ Crossed \/ Overtaken(Dest(h)))

\* "Metadata is synchronized back through the Name Server": when a COPY has been
\* answered and everything sent is read, the name server has the size of the text
\* now in the destination.
MetadataSynchronized ==
    (\A h \in Handlers : pc[h] = "idle") /\ (\A s \in Servers : toNS[s] = <<>>)
        /\ commits = 0 /\ kills = 0 /\ (\A s \in Servers : ctl[s] = "idle")
        => known = text

=============================================================================
