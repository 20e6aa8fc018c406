--------------------------- MODULE ClientServer ---------------------------
(***************************************************************************)
(* Client programs and the threads that serve them: connection_thread of   *)
(* the name server, one for each client program, and client_thread of a    *)
(* storage server, one for each command that goes there.  The module is    *)
(* about the conversation: who waits for which message, what an answer     *)
(* consists of, which locks a thread keeps while it sends, and what is     *)
(* left when one side goes away.                                           *)
(*                                                                         *)
(* A message is its type.  Commands with answers of the same form are one  *)
(* kind.  What a name server command waits for at a storage server is the  *)
(* subject of NsSsChannel: here it comes to an end.                        *)
(***************************************************************************)
EXTENDS Naturals, Sequences, FiniteSets

CONSTANTS
    Procs,            \* client programs, each run once
    Users, UserOf,    \* [Procs -> Users]: the name typed at the start
    Files,
    MaxConns,         \* bound: connections to the storage server
    MaxCommands,      \* bound: [Procs -> lines that its user types]
    MaxItems,         \* bound: entries of a listing, words of a stream
    Buffer,           \* messages that wait in a socket before send blocks
    Stops,            \* the servers that may be stopped at any time
    Kinds,            \* bound: [Procs -> the kinds of command that its user types]
    NoConn, NS_MAX_CLIENTS

Conns == 1..MaxConns
Links == Procs \cup Conns     \* a program's link to the name server is its own

NsKinds == {"simple", "list", "info"}
SsKinds == {"read", "stream", "whole", "write"}
Requests == {"hello", "simple", "list", "info", "loc",
             "read", "stream", "whole", "lock", "data", "etirw"}
Types == {"OK", "ERR", "ITEM", "START", "END", "LOC", "LOCKED", "DONE"}

ASSUME ClientServerAssumption ==
    /\ UserOf \in [Procs -> Users]
    /\ Procs \cap Conns = {} /\ NoConn \notin Links
    /\ MaxConns \in Nat /\ MaxCommands \in [Procs -> Nat] /\ MaxItems \in Nat
    /\ Buffer \in Nat \ {0} /\ Stops \subseteq {"ns", "ss"}
    /\ Kinds \in [Procs -> SUBSET (NsKinds \cup SsKinds)]
    /\ NS_MAX_CLIENTS \in Nat

VARIABLES
    cpc,          \* [Procs -> where the client program is]
    cmd,          \* [Procs -> the request it has sent last]
    task,         \* [Procs -> the command it carries out, and its file]
    seen,         \* [Procs -> types of the answers read since that request]
    sock,         \* [Procs -> its storage server connection]
    budget,       \* [Procs -> commands its user may still type]
    used,         \* number of storage server connections so far
    copen,        \* [Links -> the client's end is open]
    req, rep,     \* [Links -> messages under way to and from the server]
    th,           \* [Links -> where the server's thread is]
    out,          \* [Links -> answers that thread has still to send]
    fd,           \* [Conns -> the descriptor its thread was given, 0 for none]
    fds,          \* the descriptors that are open at the storage server
    file,         \* [Conns -> the file its requests name]
    sessions,     \* ss->sessions: [fd, file, conn] records; conn is history
    state_lock, files_lock, file_lock,    \* the link whose thread holds it
    connected,    \* [Users -> is_connected in ns->clients]
    known,        \* the users in ns->clients
    up            \* the servers that run

client == <<cpc, cmd, task, seen, sock, budget, used>>
wire == <<copen, req, rep>>
locks == <<state_lock, files_lock, file_lock>>
tables == <<fd, fds, file, sessions, connected, known>>
vars == <<client, wire, th, out, locks, tables, up>>

Server(k) == IF k \in Procs THEN "ns" ELSE "ss"
Served(k) == th[k] \notin {"none", "closed"}

-----------------------------------------------------------------------------
(* What the servers answer *)

Items == {[i \in 1..n |-> "ITEM"] : n \in 0..MaxItems}
Failed == {<<"ERR">>}

\* LIST, VIEW, VIEWFOLDER, LISTREQUESTS.
Listing == {s \o <<"END">> : s \in Items}

\* INFO and EXEC at the name server, STREAM at the storage server.
Report == {<<"START">> \o s \o <<"END">> : s \in Items}

\* Mutant: an error of a listing is followed by its terminator.
run_client_loop_ErrEnd(r) ==
    CASE r = "list" -> Listing \cup {<<"ERR", "END">>}
      [] r = "info" -> Report \cup Failed
      [] r = "loc"  -> {<<"LOC">>} \cup Failed
      [] OTHER      -> {<<"OK">>} \cup Failed

\* The answers of run_client_loop to a request.
run_client_loop(r) ==
    CASE r = "list" -> Listing \cup Failed
      [] r = "info" -> Report \cup Failed
      [] r = "loc"  -> {<<"LOC">>} \cup Failed
      [] OTHER      -> {<<"OK">>} \cup Failed

Busy(f) == \E s \in sessions : s.file = f
Own(c) == {s \in sessions : s.fd = fd[c]}

\* The answers of the storage server's handlers, once they have the file.
handle_client(c, r) ==
    CASE r = "read"   -> {<<"START", "ITEM", "END">>} \cup Failed
      [] r = "stream" -> Report \cup Failed
      [] r = "whole"  -> IF Busy(file[c]) THEN Failed ELSE {<<"OK">>} \cup Failed
      [] r = "lock"   -> IF Busy(file[c]) THEN Failed
                         ELSE {<<"LOCKED", "ITEM">>} \cup Failed

\* Mutant: a listing that fails is read on to its end.
Final_IgnoresErr(r) ==
    CASE r = "list" -> {"END"}
      [] r \in {"info", "read", "stream"} -> Types \ {"START", "ITEM"}
      [] r = "data" -> Types \ {"ITEM"}
      [] r = "etirw" -> {"DONE", "ERR"}
      [] OTHER -> Types

\* The types after which the client stops reading.
Final(r) ==
    CASE r = "list" -> {"END", "ERR"}
      [] r \in {"info", "read", "stream"} -> Types \ {"START", "ITEM"}
      [] r = "data" -> Types \ {"ITEM"}
      [] r = "etirw" -> {"DONE", "ERR"}
      [] OTHER -> Types

\* The message m completes the answer: WRITE waits for OK_LOCKED and for the
\* sentence, INFO takes no line before its start.
Ends(p, m) ==
    IF cmd[p] = "lock" THEN m = "ERR" \/ {"LOCKED", "ITEM"} \subseteq seen[p] \cup {m}
    ELSE \/ m \in Final(cmd[p])
         \/ cmd[p] = "info" /\ m = "ITEM" /\ "START" \notin seen[p]

-----------------------------------------------------------------------------
(* The client program *)

\* The link on which the client waits.
Link(p) ==
    IF cmd[p] \in {"hello", "loc"} \cup NsKinds THEN p ELSE sock[p]

Exit(p) ==
    /\ cpc' = [cpc EXCEPT ![p] = "dead"]
    /\ sock' = [sock EXCEPT ![p] = NoConn]
    /\ copen' = [k \in Links |-> copen[k] /\ k # p /\ k # sock[p]]
    /\ rep' = [k \in Links |-> IF k \in {p, sock[p]} THEN <<>> ELSE rep[k]]
    /\ cmd' = [cmd EXCEPT ![p] = "hello"]
    /\ task' = [task EXCEPT ![p] = <<>>] /\ seen' = [seen EXCEPT ![p] = {}]
    /\ UNCHANGED req

\* protocol_send_message: where the server has closed its end the message is
\* lost, or SIGPIPE ends the program.
Ask(p, k, r, t) ==
    \/ /\ req' = IF Served(k) THEN [req EXCEPT ![k] = Append(@, r)] ELSE req
       /\ cpc' = [cpc EXCEPT ![p] = "wait"]
       /\ cmd' = [cmd EXCEPT ![p] = r]
       /\ task' = [task EXCEPT ![p] = t]
       /\ seen' = [seen EXCEPT ![p] = {}]
       /\ UNCHANGED <<sock, copen, rep>>
    \/ ~Served(k) /\ Exit(p)

Init ==
    /\ cpc = [p \in Procs |-> "off"] /\ cmd = [p \in Procs |-> "hello"]
    /\ task = [p \in Procs |-> <<>>] /\ seen = [p \in Procs |-> {}]
    /\ sock = [p \in Procs |-> NoConn] /\ used = 0
    /\ budget = MaxCommands
    /\ copen = [k \in Links |-> FALSE]
    /\ req = [k \in Links |-> <<>>] /\ rep = [k \in Links |-> <<>>]
    /\ th = [k \in Links |-> "none"] /\ out = [k \in Links |-> <<>>]
    /\ fd = [c \in Conns |-> 0] /\ fds = {}
    /\ file = [c \in Conns |-> CHOOSE f \in Files : TRUE]
    /\ sessions = {}
    /\ state_lock = NoConn /\ files_lock = NoConn
    /\ file_lock = [f \in Files |-> NoConn]
    /\ connected = [u \in Users |-> FALSE] /\ known = {}
    /\ up = {"ns", "ss"}

\* The program starts: it connects and says HELLO_CLIENT.
client_connect_to_ns(p) ==
    /\ cpc[p] = "off"
    /\ IF "ns" \in up
       THEN /\ cpc' = [cpc EXCEPT ![p] = "wait"]
            /\ copen' = [copen EXCEPT ![p] = TRUE]
            /\ req' = [req EXCEPT ![p] = <<"hello">>]
            /\ th' = [th EXCEPT ![p] = "hello"]
       ELSE cpc' = [cpc EXCEPT ![p] = "dead"] /\ UNCHANGED <<copen, req, th>>
    /\ UNCHANGED <<cmd, task, seen, sock, budget, used, rep, out, locks, tables, up>>

\* The user types a command.  One that goes to a storage server asks for the
\* place of its file first.
client_process_command(p, kind, f) ==
    /\ cpc[p] = "prompt" /\ budget[p] > 0
    /\ kind \in SsKinds => used < MaxConns
    /\ Ask(p, p, IF kind \in NsKinds THEN kind ELSE "loc", IF kind \in NsKinds THEN <<>> ELSE <<kind, f>>)
    /\ budget' = [budget EXCEPT ![p] = @ - 1]
    /\ used' = IF kind \in SsKinds THEN used + 1 ELSE used
    /\ UNCHANGED <<th, out, locks, tables, up>>

\* accept gives the lowest descriptor that is free, and the connection the next
\* number.
LowestFree == {n \in Conns \ fds : 1..(n - 1) \subseteq fds}
Unused == {c \in Conns : th[c] = "none" /\ \A d \in 1..(c - 1) : th[d] # "none"}

FirstRequest(kind) == IF kind = "write" THEN "lock" ELSE kind

\* client_connect_to_storage, and the first request on the connection.
client_connect_to_storage(p) ==
    /\ cpc[p] = "connect"
    /\ \/ /\ "ss" \notin up
          /\ cpc' = [cpc EXCEPT ![p] = "prompt"]
          /\ UNCHANGED <<cmd, seen, sock, copen, req, th, fd, fds, file>>
       \/ /\ "ss" \in up
          /\ cpc' = [cpc EXCEPT ![p] = "wait"]
          /\ cmd' = [cmd EXCEPT ![p] = FirstRequest(task[p][1])]
          /\ seen' = [seen EXCEPT ![p] = {}]
          /\ \E c \in Unused, n \in LowestFree :
                /\ sock' = [sock EXCEPT ![p] = c]
                /\ copen' = [copen EXCEPT ![c] = TRUE]
                /\ req' = [req EXCEPT ![c] = <<FirstRequest(task[p][1])>>]
                /\ th' = [th EXCEPT ![c] = "serve"]
                /\ fd' = [fd EXCEPT ![c] = n]
                /\ fds' = fds \cup {n}
                /\ file' = [file EXCEPT ![c] = task[p][2]]
    /\ UNCHANGED <<task, budget, used, rep, out, locks, sessions, connected, known, up>>

\* At the write> prompt: an edit, or ETIRW.
client_handle_write(p, r) ==
    /\ cpc[p] = "write" /\ budget[p] > 0
    /\ Ask(p, sock[p], r, task[p])
    /\ budget' = [budget EXCEPT ![p] = @ - 1]
    /\ UNCHANGED <<used, th, out, locks, tables, up>>

\* The command is over; a storage server connection is closed with it.
Finish(p) ==
    /\ cpc' = [cpc EXCEPT ![p] = "prompt"]
    /\ sock' = [sock EXCEPT ![p] = NoConn]
    /\ copen' = [k \in Links |-> copen[k] /\ k # sock[p]]
    /\ rep' = [k \in Links |->
                  IF k = sock[p] THEN <<>>
                  ELSE IF k = Link(p) /\ rep[k] # <<>> THEN Tail(rep[k]) ELSE rep[k]]
    /\ task' = [task EXCEPT ![p] = <<>>]
    /\ seen' = [seen EXCEPT ![p] = {}]
    /\ UNCHANGED <<cmd, req>>

\* Read on, or go on to the next part of the command.
GoOn(p, label, m) ==
    /\ cpc' = [cpc EXCEPT ![p] = label]
    /\ seen' = [seen EXCEPT ![p] = IF label = "wait" THEN @ \cup {m} ELSE {}]
    /\ rep' = [rep EXCEPT ![Link(p)] = Tail(@)]
    /\ UNCHANGED <<cmd, task, sock, copen, req>>

\* The client reads one message of an answer.
client_read_response(p) ==
    /\ cpc[p] = "wait" /\ rep[Link(p)] # <<>>
    /\ LET m == Head(rep[Link(p)])
       IN  \/ ~Ends(p, m) /\ GoOn(p, "wait", m)
           \/ Ends(p, m) /\ cmd[p] = "hello" /\ m = "OK" /\ GoOn(p, "prompt", m)
           \/ Ends(p, m) /\ cmd[p] = "hello" /\ m # "OK" /\ Exit(p)
           \/ Ends(p, m) /\ cmd[p] = "loc" /\ m = "LOC" /\ GoOn(p, "connect", m)
           \/ /\ Ends(p, m)
              /\ \/ cmd[p] = "lock" /\ m # "ERR"
                 \/ cmd[p] \in {"data", "etirw"} /\ m # "DONE"
              /\ GoOn(p, "write", m)
           \/ /\ Ends(p, m)
              /\ \/ cmd[p] \in NsKinds \cup {"read", "stream", "whole"}
                 \/ cmd[p] = "loc" /\ m # "LOC"
                 \/ cmd[p] = "lock" /\ m = "ERR"
                 \/ cmd[p] \in {"data", "etirw"} /\ m = "DONE"
              /\ Finish(p)
    /\ UNCHANGED <<budget, used, th, out, locks, tables, up>>

\* The connection is gone: what was sent may be lost with it.
ConnectionLost(p) ==
    /\ cpc[p] = "wait" /\ ~Served(Link(p))
    /\ rep[Link(p)] = <<>> \/ Server(Link(p)) \notin up
    /\ IF cmd[p] = "hello" THEN Exit(p) ELSE Finish(p)
    /\ UNCHANGED <<budget, used, th, out, locks, tables, up>>

\* quit, the end of the input, or the end of the process.
client_cleanup(p) ==
    /\ cpc[p] \in {"wait", "prompt", "connect", "write"}
    /\ Exit(p)
    /\ budget' = [budget EXCEPT ![p] = 0]
    /\ UNCHANGED <<used, th, out, locks, tables, up>>

-----------------------------------------------------------------------------
(* The name server *)

At(k, label, answer) ==
    /\ th' = [th EXCEPT ![k] = label]
    /\ out' = [out EXCEPT ![k] = answer]

\* HELLO_CLIENT: a user that is connected, or one too many, is refused.
ns_register_client(p) ==
    LET u == UserOf[p]
    IN  /\ th[p] = "hello" /\ req[p] # <<>> /\ state_lock = NoConn
        /\ req' = [req EXCEPT ![p] = Tail(@)]
        /\ IF connected[u] \/ (u \notin known /\ Cardinality(known) >= NS_MAX_CLIENTS)
           THEN At(p, "refuse", <<"ERR">>) /\ UNCHANGED <<connected, known>>
           ELSE /\ At(p, "send", <<"OK">>)
                /\ connected' = [connected EXCEPT ![u] = TRUE]
                /\ known' = known \cup {u}
        /\ UNCHANGED <<client, copen, rep, locks, fd, fds, file, sessions, up>>

\* A command: the entries of a listing are sent with state_lock held.
NsCommand(p) ==
    /\ th[p] = "serve" /\ req[p] # <<>> /\ state_lock = NoConn
    /\ req' = [req EXCEPT ![p] = Tail(@)]
    /\ \E answer \in run_client_loop(Head(req[p])) :
          /\ At(p, "send", answer)
          /\ state_lock' =
                IF Head(req[p]) = "list" /\ Head(answer) = "ITEM" THEN p ELSE NoConn
    /\ UNCHANGED <<client, copen, rep, files_lock, file_lock, tables, up>>

\* Mutant: a connection that was refused marks the user offline when it ends.
connection_thread_Any(p) ==
    /\ \/ th[p] = "serve" /\ req[p] = <<>> /\ ~copen[p]
       \/ th[p] = "refuse" /\ out[p] = <<>>
    /\ state_lock = NoConn
    /\ connected' = [connected EXCEPT ![UserOf[p]] = FALSE]
    /\ At(p, "closed", <<>>)
    /\ UNCHANGED <<client, wire, locks, fd, fds, file, sessions, known, up>>

\* The end of a connection: the user is offline, the entry stays.
connection_thread(p) ==
    /\ \/ th[p] = "serve" /\ req[p] = <<>> /\ ~copen[p]
       \/ th[p] = "refuse" /\ out[p] = <<>>
    /\ state_lock = NoConn
    /\ connected' = IF th[p] = "serve" THEN [connected EXCEPT ![UserOf[p]] = FALSE]
                    ELSE connected
    /\ At(p, "closed", <<>>)
    /\ UNCHANGED <<client, wire, locks, fd, fds, file, sessions, known, up>>

-----------------------------------------------------------------------------
(* The storage server *)

\* A request on a file: ss_find_file under files_lock, which is kept until the
\* thread has the file_lock.
Find(c) ==
    /\ th[c] = "serve" /\ req[c] # <<>> /\ Head(req[c]) \notin {"data", "etirw"}
    /\ files_lock = NoConn
    /\ \/ /\ At(c, "send", <<"ERR">>)
          /\ req' = [req EXCEPT ![c] = Tail(@)]
          /\ UNCHANGED files_lock
       \/ files_lock' = c /\ At(c, "find", <<>>) /\ UNCHANGED req
    /\ UNCHANGED <<client, copen, rep, state_lock, file_lock, tables, up>>

\* REQ_WRITE_LOCK opens a session on its sentence.
Opens(c, r, answer) ==
    IF r = "lock" /\ answer # <<"ERR">>
    THEN sessions \cup {[fd |-> fd[c], file |-> file[c], conn |-> c]} ELSE sessions

\* The handler has the file.  READ, STREAM, LISTCHECKPOINTS, VIEWCHECKPOINT and
\* REQ_WRITE_LOCK send their answer before they release it.
Enter(c) ==
    LET r == Head(req[c])
    IN  /\ th[c] = "find" /\ file_lock[file[c]] = NoConn
        /\ files_lock' = NoConn
        /\ req' = [req EXCEPT ![c] = Tail(@)]
        /\ \E answer \in handle_client(c, r) :
              /\ At(c, "send", answer)
              /\ sessions' = Opens(c, r, answer)
              /\ file_lock' = IF answer = <<"ERR">> \/ r = "whole" THEN file_lock
                              ELSE [file_lock EXCEPT ![file[c]] = c]
        /\ UNCHANGED <<client, copen, rep, state_lock, fd, fds, file, connected, known, up>>

handle_client_write_data(c) ==
    /\ th[c] = "serve" /\ req[c] # <<>> /\ Head(req[c]) = "data"
    /\ req' = [req EXCEPT ![c] = Tail(@)]
    /\ \/ Own(c) # {} /\ At(c, "send", <<"OK">>)
       \/ At(c, "send", <<"ERR">>)
    /\ UNCHANGED <<client, copen, rep, locks, tables, up>>

\* ETIRW waits for the file; when it fails the session stays.
handle_client_etirw(c) ==
    /\ th[c] = "serve" /\ req[c] # <<>> /\ Head(req[c]) = "etirw"
    /\ req' = [req EXCEPT ![c] = Tail(@)]
    /\ \/ /\ Own(c) # {} /\ file_lock[file[c]] = NoConn
          /\ sessions' = sessions \ Own(c)
          /\ At(c, "send", <<"DONE">>)
       \/ /\ Own(c) = {} \/ file_lock[file[c]] = NoConn
          /\ At(c, "send", <<"ERR">>)
          /\ UNCHANGED sessions
    /\ UNCHANGED <<client, copen, rep, locks, fd, fds, file, connected, known, up>>

\* Mutant: the descriptor is closed before its session is aborted.
LastSteps_CloseFirst == <<"close", "abort">>

\* What client_thread does when the client has closed its end.
LastSteps == <<"abort", "close">>

client_thread(c) ==
    /\ th[c] = "serve" /\ req[c] = <<>> /\ ~copen[c]
    /\ At(c, LastSteps[1], <<>>)
    /\ UNCHANGED <<client, wire, locks, tables, up>>

After(step) == IF step = LastSteps[1] THEN LastSteps[2] ELSE "closed"

\* Mutant: the session of a client that has gone is kept.
ss_abort_session_Keeps(c) ==
    /\ th[c] = "abort"
    /\ At(c, After("abort"), <<>>)
    /\ UNCHANGED <<client, wire, locks, tables, up>>

ss_abort_session(c) ==
    /\ th[c] = "abort"
    /\ sessions' = sessions \ Own(c)
    /\ At(c, After("abort"), <<>>)
    /\ UNCHANGED <<client, wire, locks, fd, fds, file, connected, known, up>>

CloseFd(c) ==
    /\ th[c] = "close"
    /\ fds' = fds \ {fd[c]}
    /\ At(c, After("close"), <<>>)
    /\ UNCHANGED <<client, wire, locks, fd, file, sessions, connected, known, up>>

-----------------------------------------------------------------------------
(* Sending, and the loss of a server *)

Room(k) == Len(rep[k]) < Buffer

\* A thread sends the next message of its answer.  It waits while the socket is
\* full; where the client has gone the message is lost.  With the last entry of
\* a listing state_lock is released, with the last message the file_lock.
protocol_send_message(k) ==
    LET rest == Tail(out[k])
    IN  /\ out[k] # <<>>
        /\ \/ /\ copen[k] /\ Room(k)
              /\ rep' = [rep EXCEPT ![k] = Append(@, Head(out[k]))]
           \/ ~copen[k] /\ UNCHANGED rep
        /\ At(k, IF rest = <<>> /\ th[k] = "send" THEN "serve" ELSE th[k], rest)
        /\ state_lock' =
              IF state_lock = k /\ rest = <<"END">> THEN NoConn ELSE state_lock
        /\ file_lock' = [f \in Files |->
              IF file_lock[f] = k /\ rest = <<>> THEN NoConn ELSE file_lock[f]]
        /\ UNCHANGED <<client, copen, req, files_lock, tables, up>>

Down(s) ==
    LET mine(k) == Server(k) = s
    IN  /\ up' = up \ {s}
        /\ th' = [k \in Links |-> IF mine(k) /\ Served(k) THEN "closed" ELSE th[k]]
        /\ out' = [k \in Links |-> IF mine(k) THEN <<>> ELSE out[k]]
        /\ req' = [k \in Links |-> IF mine(k) THEN <<>> ELSE req[k]]
        /\ IF s = "ns"
           THEN /\ connected' = [u \in Users |-> FALSE] /\ known' = {}
                /\ state_lock' = NoConn
                /\ UNCHANGED <<files_lock, file_lock, fds, sessions>>
           ELSE /\ sessions' = {} /\ fds' = {}
                /\ files_lock' = NoConn /\ file_lock' = [f \in Files |-> NoConn]
                /\ UNCHANGED <<state_lock, connected, known>>
        /\ UNCHANGED <<client, copen, rep, fd, file>>

\* SIGPIPE is not handled: a send on a connection that the client has closed may
\* end the server.
SigPipe(k) == out[k] # <<>> /\ ~copen[k] /\ Down(Server(k))

Stop(s) == s \in up /\ Down(s)

-----------------------------------------------------------------------------

ClientSteps(p) ==
    \/ client_connect_to_storage(p) \/ client_read_response(p) \/ ConnectionLost(p)

UserSteps(p) ==
    \/ client_connect_to_ns(p) \/ client_cleanup(p)
    \/ \E kind \in Kinds[p], f \in Files : client_process_command(p, kind, f)
    \/ \E r \in {"data", "etirw"} : client_handle_write(p, r)

NsSteps(p) ==
    ns_register_client(p) \/ NsCommand(p) \/ connection_thread(p)

SsSteps(c) ==
    \/ Find(c) \/ Enter(c) \/ handle_client_write_data(c) \/ handle_client_etirw(c)
    \/ client_thread(c) \/ ss_abort_session(c) \/ CloseFd(c)

SystemStep ==
    \/ \E p \in Procs : ClientSteps(p) \/ NsSteps(p)
    \/ \E c \in Conns : SsSteps(c)
    \/ \E k \in Links : protocol_send_message(k)

Next ==
    \/ SystemStep
    \/ \E p \in Procs : UserSteps(p)
    \/ \E k \in Links : SigPipe(k)
    \/ \E s \in Stops : Stop(s)

\* As long as some program can read what it waits for, or some thread can run, one
\* of them does.  Nobody has to type, to quit or to stop a server.
Spec == Init /\ [][Next]_vars /\ WF_vars(SystemStep)

-----------------------------------------------------------------------------
(* Properties *)

\* The type of every variable; the table of users keeps within its limit.
TypeOK ==
    /\ cpc \in [Procs -> {"off", "wait", "prompt", "connect", "write", "dead"}]
    /\ cmd \in [Procs -> Requests]
    /\ \A p \in Procs : task[p] = <<>> \/ task[p] \in SsKinds \X Files
    /\ seen \in [Procs -> SUBSET Types]
    /\ sock \in [Procs -> Conns \cup {NoConn}]
    /\ budget \in [Procs -> Nat] /\ used \in 0..MaxConns
    /\ copen \in [Links -> BOOLEAN]
    /\ \A k \in Links :
          /\ req[k] \in Seq(Requests) /\ rep[k] \in Seq(Types) /\ out[k] \in Seq(Types)
          /\ Len(req[k]) <= 1 /\ Len(rep[k]) <= Buffer
    /\ th \in [Links -> {"none", "hello", "refuse", "serve", "find", "send",
                          "abort", "close", "closed"}]
    /\ fd \in [Conns -> 0..MaxConns] /\ fds \subseteq Conns
    /\ file \in [Conns -> Files]
    /\ sessions \subseteq [fd : Conns, file : Files, conn : Conns]
    /\ state_lock \in Procs \cup {NoConn} /\ files_lock \in Conns \cup {NoConn}
    /\ file_lock \in [Files -> Conns \cup {NoConn}]
    /\ connected \in [Users -> BOOLEAN]
    /\ known \subseteq Users /\ Cardinality(known) <= NS_MAX_CLIENTS
    /\ up \subseteq {"ns", "ss"}

Quiet(k) == Served(k) => req[k] = <<>> /\ rep[k] = <<>> /\ out[k] = <<>>

\* Client and server agree where an answer ends.  Whenever a client program asks
\* its user for input, nothing of an earlier answer is under way, so the next
\* command does not take it for its own, after errors and refusals too.
InStep ==
    \A p \in Procs :
        /\ cpc[p] \in {"prompt", "connect", "write"} => Quiet(p)
        /\ cpc[p] = "write" => Quiet(sock[p])

\* A user is online exactly while one connection serves the name: a second
\* program with the same name is refused, does not log the first one out when it
\* ends, and a program that has gone does not keep the entry.
OnlineIsServed ==
    \A u \in Users :
        LET serving == {p \in Procs :
                            UserOf[p] = u /\ th[p] \notin {"none", "hello", "refuse", "closed"}}
        IN  Cardinality(serving) = IF connected[u] THEN 1 ELSE 0

\* Sessions are found by descriptor, and descriptors are used again.  A client at
\* the write> prompt of a running server still has the session it was given, and
\* nobody has another one on its sentence.
WriterHasSession ==
    \A p \in Procs :
        cpc[p] = "write" /\ Served(sock[p]) =>
            \E s \in sessions :
                /\ s.conn = sock[p]
                /\ \A t \in sessions : t.file = s.file => t = s

Waits(p) == cpc[p] \in {"wait", "connect"}

\* Every command comes back to a prompt, with its answer or with an error: no
\* wait on a socket and no lock that another client's thread keeps while it sends
\* lasts for ever, whichever client or server goes away.
CommandEnds == \A p \in Procs : []<>~Waits(p)

\* What a client leaves behind when it goes, at any point, is cleared away: its
\* session, which would keep a sentence locked, and its name at the name server.
GoneIsForgotten ==
    []<>(/\ \A s \in sessions : copen[s.conn]
         /\ \A p \in Procs : cpc[p] = "dead" => ~Served(p))

\* A server runs until it is stopped, whatever its clients do.
ServersStay == {"ns", "ss"} \ Stops \subseteq up

=============================================================================
