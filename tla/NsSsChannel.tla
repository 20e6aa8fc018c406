---------------------------- MODULE NsSsChannel ----------------------------
(***************************************************************************)
(* The name server's request channel to one storage server.  Handler       *)
(* threads (one per client connection) call storage_server_send_and_wait;  *)
(* the thread that runs run_ss_loop reads the connection and hands what it *)
(* reads to a waiter, or treats it as an unsolicited message.              *)
(*                                                                         *)
(* comm_lock is held for straight-line code and released only inside       *)
(* pthread_cond_wait, so each section between two waits is one step; every *)
(* change of a predicate waited for is followed by a broadcast, so a wait  *)
(* is the guard of the next step.  Requests are numbered in the order in   *)
(* which they are sent.  The messages of the storage server are the answer *)
(* to request k (the number k) and unsolicited ones (Push): WRITE_COMPLETE *)
(* and, during the file sync, SS_HAS_FILE.                                 *)
(*                                                                         *)
(* ChannelSpec and its parts are named so that Wire_proofs can extend this *)
(* module together with Wire.                                              *)
(***************************************************************************)
EXTENDS Naturals, Sequences, FiniteSets

CONSTANTS
    Handlers,      \* threads in run_client_loop
    NoHandler,     \* state_lock is free
    Ops,           \* kinds of client command: see OpNames
    MaxRequests,   \* bound: requests sent to the storage server
    MaxPushes,     \* bound: unsolicited messages of the storage server
    MayFail        \* whether the storage server may go down

\* "held": DELETE and MOVE keep state_lock while they wait for the storage
\* server.  "released": CREATE, COPY, EXEC, ADDACCESS, REMACCESS and APPROVE
\* release it before, and take it again after the answer.
OpNames == {"held", "released"}

Push == 0
NoMsg == MaxRequests + 1
Failed == MaxRequests + 2

ASSUME ChannelAssumption ==
    /\ NoHandler \notin Handlers
    /\ Ops \subseteq OpNames
    /\ MaxRequests \in Nat /\ MaxPushes \in Nat
    /\ MayFail \in BOOLEAN

Responses == 1..MaxRequests
ChannelMessages == Responses \cup {Push}

VARIABLES
    awaiting_response, response_ready, response_status, response_raw,
    is_alive,     \* is_alive = 1 and sockfd >= 0, which change together
    refcount,
    state_lock,   \* the handler that keeps ns->state_lock over several steps
    pc,           \* [Handlers -> label]
    op,           \* [Handlers -> OpNames]
    request,      \* [Handlers -> number of the last request sent]
    result,       \* [Handlers -> message returned, NoMsg before, or Failed]
    reader,       \* where the thread in run_ss_loop is
    toSS, toNS,   \* the two directions of the connection
    ssUp,         \* the storage server process runs
    hung,         \* ... and its control thread waits for ever inside a command
    asked, pushed  \* how many requests and unsolicited messages so far

slot == <<awaiting_response, response_ready, response_status, response_raw>>
handler == <<pc, op, request, result>>
server == <<toSS, toNS, ssUp, hung, asked, pushed>>
channel == <<slot, is_alive, refcount, state_lock, handler, reader, server>>

ChannelInit ==
    /\ awaiting_response = FALSE /\ response_ready = FALSE
    /\ response_status = 0 /\ response_raw = NoMsg
    /\ is_alive = TRUE /\ refcount = 0
    /\ state_lock = NoHandler
    /\ pc = [h \in Handlers |-> "idle"]
    /\ op = [h \in Handlers |-> "released"]
    /\ request = [h \in Handlers |-> 0]
    /\ result = [h \in Handlers |-> NoMsg]
    /\ reader = "receive"
    /\ toSS = <<>> /\ toNS = <<>>
    /\ ssUp = TRUE /\ hung = FALSE /\ asked = 0 /\ pushed = 0

-----------------------------------------------------------------------------
(* Handler threads *)

\* A client command that concerns the storage server: under state_lock find
\* its entry, alive, and acquire it.  (The bound leaves every handler that has
\* started the right to send.)
storage_server_acquire(h) ==
    /\ pc[h] = "idle" /\ state_lock = NoHandler /\ is_alive
    /\ asked + refcount < MaxRequests
    /\ \E o \in Ops :
          /\ op' = [op EXCEPT ![h] = o]
          /\ state_lock' = IF o = "held" THEN h ELSE NoHandler
    /\ refcount' = refcount + 1
    /\ result' = [result EXCEPT ![h] = NoMsg]
    /\ pc' = [pc EXCEPT ![h] = "check"]
    /\ UNCHANGED <<slot, is_alive, request, reader, server>>

\* storage_server_send_and_wait looks at sockfd and is_alive without a lock.
CheckAlive(h) ==
    /\ pc[h] = "check"
    /\ \/ /\ is_alive
          /\ pc' = [pc EXCEPT ![h] = "turn"]
          /\ UNCHANGED result
       \/ /\ ~is_alive
          /\ pc' = [pc EXCEPT ![h] = "return"]
          /\ result' = [result EXCEPT ![h] = Failed]
    /\ UNCHANGED <<slot, is_alive, refcount, state_lock, op, request, reader, server>>

EmptySlot == response_raw' = NoMsg /\ response_ready' = FALSE /\ response_status' = 0

\* A send on a connection whose other end is gone may still succeed; one on a
\* closed descriptor fails, and then nobody is woken.
SendOrFail(h) ==
    /\ \/ /\ is_alive /\ asked < MaxRequests
          /\ awaiting_response' = TRUE
          /\ asked' = asked + 1
          /\ toSS' = IF ssUp THEN Append(toSS, asked + 1) ELSE toSS
          /\ request' = [request EXCEPT ![h] = asked + 1]
          /\ pc' = [pc EXCEPT ![h] = "wait"]
          /\ UNCHANGED result
       \/ /\ ~is_alive \/ ~ssUp
          /\ pc' = [pc EXCEPT ![h] = "return"]
          /\ result' = [result EXCEPT ![h] = Failed]
          /\ UNCHANGED <<awaiting_response, asked, toSS, request>>
    /\ UNCHANGED <<is_alive, refcount, state_lock, op, reader, toNS, ssUp, hung, pushed>>

\* Mutant: what the slot holds is not discarded before the request is sent.
SendRequest_KeepsSlot(h) ==
    /\ pc[h] = "turn" /\ ~awaiting_response
    /\ UNCHANGED <<response_raw, response_ready, response_status>>
    /\ SendOrFail(h)

\* Mutant: a handler does not wait for its turn.
SendRequest_NoTurn(h) == pc[h] = "turn" /\ EmptySlot /\ SendOrFail(h)

\* The first half of storage_server_send_and_wait, once nobody awaits a
\* response: empty the slot and send.
SendRequest(h) ==
    /\ pc[h] = "turn" /\ ~awaiting_response
    /\ EmptySlot
    /\ SendOrFail(h)

\* What the wait returns: an error when the connection was lost.
Outcome ==
    IF response_status # 0 \/ response_raw = NoMsg THEN Failed ELSE response_raw

\* Mutant: the slot is still marked ready after its message was taken.
Take_LeavesReady(h) ==
    /\ pc[h] = "wait" /\ response_ready
    /\ result' = [result EXCEPT ![h] = Outcome]
    /\ awaiting_response' = FALSE
    /\ pc' = [pc EXCEPT ![h] = "return"]
    /\ UNCHANGED <<response_raw, response_ready, response_status, is_alive, refcount,
                   state_lock, op, request, reader, server>>

\* Mutant: the predicate is not tested again after a wake-up.
Take_Unchecked(h) ==
    /\ pc[h] = "wait"
    /\ result' = [result EXCEPT ![h] = Outcome]
    /\ response_raw' = NoMsg
    /\ awaiting_response' = FALSE /\ response_ready' = FALSE
    /\ pc' = [pc EXCEPT ![h] = "return"]
    /\ UNCHANGED <<response_status, is_alive, refcount, state_lock, op, request,
                   reader, server>>

\* The second half, once response_ready is set: take what is in the slot.
Take(h) ==
    /\ pc[h] = "wait" /\ response_ready
    /\ result' = [result EXCEPT ![h] = Outcome]
    /\ response_raw' = NoMsg
    /\ awaiting_response' = FALSE /\ response_ready' = FALSE
    /\ pc' = [pc EXCEPT ![h] = "return"]
    /\ UNCHANGED <<response_status, is_alive, refcount, state_lock, op, request,
                   reader, server>>

\* The handler ends its command: state_lock, which it keeps or takes again, is
\* released, and so is the entry.
storage_server_release(h) ==
    /\ pc[h] = "return"
    /\ state_lock = IF op[h] = "held" THEN h ELSE NoHandler
    /\ state_lock' = NoHandler
    /\ refcount' = refcount - 1
    /\ pc' = [pc EXCEPT ![h] = "idle"]
    /\ UNCHANGED <<slot, is_alive, op, request, result, reader, server>>

-----------------------------------------------------------------------------
(* run_ss_loop *)

\* Receive a message.  It goes to the slot if a response is awaited, whatever
\* it is; otherwise WRITE_COMPLETE updates the metadata, which takes
\* state_lock, and anything else is dropped.
ReceiveMessage ==
    /\ reader = "receive" /\ toNS # <<>>
    /\ toNS' = Tail(toNS)
    /\ \/ /\ awaiting_response /\ ~response_ready
          /\ response_raw' = Head(toNS) /\ response_status' = 0
          /\ response_ready' = TRUE /\ awaiting_response' = FALSE
          /\ UNCHANGED reader
       \/ /\ ~awaiting_response \/ response_ready
          /\ reader' = IF Head(toNS) = Push THEN "update" ELSE "receive"
          /\ UNCHANGED slot
    /\ UNCHANGED <<is_alive, refcount, state_lock, handler, toSS, ssUp, hung, asked,
                   pushed>>

\* Update the metadata of the file under state_lock.
UpdateStats ==
    /\ reader = "update" /\ state_lock = NoHandler
    /\ reader' = "receive"
    /\ UNCHANGED <<slot, is_alive, refcount, state_lock, handler, server>>

\* Mutant: the reader tries again and does not tell the waiter that the
\* connection is lost.
storage_server_signal_failure_Silent ==
    /\ reader = "receive" /\ ~ssUp
    /\ is_alive' = FALSE
    /\ UNCHANGED <<slot, refcount, state_lock, handler, reader, server>>

\* Mutant: the waiter is told, but the slot stays reserved.
storage_server_signal_failure_Reserved ==
    /\ reader = "receive" /\ ~ssUp
    /\ is_alive' = FALSE
    /\ IF awaiting_response /\ ~response_ready
       THEN /\ response_raw' = NoMsg /\ response_status' = 1
            /\ response_ready' = TRUE
            /\ UNCHANGED awaiting_response
       ELSE UNCHANGED slot
    /\ reader' = "ended"
    /\ UNCHANGED <<refcount, state_lock, handler, server>>

\* The connection is lost, unread messages included when it was reset.  The
\* entry stays in ns->storage_servers: its sockfd no longer matches.
storage_server_signal_failure ==
    /\ reader = "receive" /\ ~ssUp
    /\ is_alive' = FALSE
    /\ IF awaiting_response /\ ~response_ready
       THEN /\ response_raw' = NoMsg /\ response_status' = 1
            /\ response_ready' = TRUE /\ awaiting_response' = FALSE
       ELSE UNCHANGED slot
    /\ reader' = "ended"
    /\ UNCHANGED <<refcount, state_lock, handler, server>>

-----------------------------------------------------------------------------
(* The storage server: ns_control_loop answers the commands in order; its  *)
(* client threads send WRITE_COMPLETE on the same connection.              *)

Serve ==
    /\ ssUp /\ ~hung /\ toSS # <<>>
    /\ toSS' = Tail(toSS) /\ toNS' = Append(toNS, Head(toSS))
    /\ UNCHANGED <<slot, is_alive, refcount, state_lock, handler, reader,
                   ssUp, hung, asked, pushed>>

\* A command waits for ever: SS_COPY for another storage server that copies from
\* this one (SsCopy), any command for the lock of a file whose reader does not
\* read what it is sent.
Hang ==
    /\ ssUp /\ ~hung /\ toSS # <<>>
    /\ hung' = TRUE
    /\ UNCHANGED <<slot, is_alive, refcount, state_lock, handler, reader, toSS, toNS,
                   ssUp, asked, pushed>>

ss_sync_metadata_to_ns ==
    /\ ssUp /\ pushed < MaxPushes
    /\ toNS' = Append(toNS, Push)
    /\ pushed' = pushed + 1
    /\ UNCHANGED <<slot, is_alive, refcount, state_lock, handler, reader,
                   toSS, ssUp, hung, asked>>

Fail ==
    /\ MayFail /\ ssUp
    /\ ssUp' = FALSE /\ hung' = FALSE /\ toSS' = <<>>
    /\ UNCHANGED <<slot, is_alive, refcount, state_lock, handler, reader,
                   toNS, asked, pushed>>

\* The bound on requests is reached, or the storage server is gone, and every
\* handler is back in its client loop.
Finished ==
    /\ \A h \in Handlers : pc[h] = "idle"
    /\ UNCHANGED channel

HandlerStep(h) ==
    CheckAlive(h) \/ SendRequest(h) \/ Take(h) \/ storage_server_release(h)

ReaderStep == ReceiveMessage \/ UpdateStats \/ storage_server_signal_failure

ChannelNext ==
    \/ \E h \in Handlers : storage_server_acquire(h) \/ HandlerStep(h)
    \/ ReaderStep
    \/ Serve \/ Hang \/ ss_sync_metadata_to_ns \/ Fail
    \/ Finished

ChannelSpec == ChannelInit /\ [][ChannelNext]_channel

\* Threads run, woken waiters are scheduled, and a storage server that is up
\* answers the commands it receives, as long as its control thread does not hang.
FairSpec ==
    /\ ChannelSpec
    /\ \A h \in Handlers : WF_channel(HandlerStep(h))
    /\ WF_channel(ReaderStep)
    /\ WF_channel(Serve)

-----------------------------------------------------------------------------
(* Properties *)

\* The type of every variable of the channel.
ChannelTypeOK ==
    /\ awaiting_response \in BOOLEAN /\ response_ready \in BOOLEAN
    /\ response_status \in {0, 1} /\ response_raw \in ChannelMessages \cup {NoMsg}
    /\ is_alive \in BOOLEAN /\ refcount \in 0..Cardinality(Handlers)
    /\ state_lock \in Handlers \cup {NoHandler}
    /\ pc \in [Handlers -> {"idle", "check", "turn", "wait", "return"}]
    /\ op \in [Handlers -> OpNames]
    /\ request \in [Handlers -> 0..MaxRequests]
    /\ result \in [Handlers -> ChannelMessages \cup {NoMsg, Failed}]
    /\ reader \in {"receive", "update", "ended"}
    /\ toSS \in Seq(Responses) /\ toNS \in Seq(ChannelMessages)
    /\ ssUp \in BOOLEAN /\ hung \in BOOLEAN /\ asked \in 0..MaxRequests /\ pushed \in 0..MaxPushes

\* awaiting_response never stays set behind a handler that has left: while it
\* is set the slot is empty and some handler waits for it to be filled.
AwaitingHasWaiter ==
    awaiting_response => ~response_ready /\ \E h \in Handlers : pc[h] = "wait"

\* No message is handed to two handlers, whoever is woken first.
DeliveredOnce ==
    \A g, h \in Handlers :
        g # h /\ result[g] \in Responses => result[g] # result[h]

\* As long as the storage server sends only answers, a handler never returns
\* with the answer to a request older than its own.
NeverStale ==
    pushed = 0 => \A h \in Handlers :
        pc[h] = "return" /\ result[h] \in Responses => result[h] >= request[h]

\* ... and there is at most one request whose answer has not been read.
OneInFlight == pushed = 0 => Len(toSS) + Len(toNS) <= 1

\* A swapped answer always leaves somebody behind: when a handler returns as
\* the only user of a channel that has carried nothing but answers, every
\* request before was answered properly and so is its own.
LastOneIsPaired ==
    \A h \in Handlers :
        pc[h] = "return" /\ result[h] # Failed /\ refcount = 1 /\ is_alive /\ pushed = 0
            => result[h] = request[h]

\* The reader thread waits for state_lock, which a handler keeps.
ReaderBlocked == reader = "update" /\ state_lock # NoHandler

\* The channel never stays reserved: a response that is awaited arrives or the
\* loss of the connection is signalled, unless a handler keeps state_lock from
\* the thread that reads the connection, or the storage server hangs in a command.
ChannelFreed == awaiting_response ~> (~awaiting_response \/ ReaderBlocked \/ hung)

\* As long as no two handlers use the channel at the same time, none waits for
\* ever, unsolicited messages and the loss of the storage server included, unless
\* that server lives and hangs in a command.
LoneWaitEnds ==
    [](refcount <= 1 /\ ~ReaderBlocked) /\ <>[]~hung
        => \A h \in Handlers : pc[h] = "wait" ~> pc[h] # "wait"

(* Statements of the source that the code does not keep *)

\* "send a request to the storage server and block until the paired response
\* arrives": a handler that returns a message returns the answer to its own
\* request.
PairedResponse ==
    \A h \in Handlers :
        pc[h] = "return" /\ result[h] # Failed => result[h] = request[h]

\* ... and it does return.
WaitEnds == \A h \in Handlers : pc[h] = "wait" ~> pc[h] # "wait"

=============================================================================
