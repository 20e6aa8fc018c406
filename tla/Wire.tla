-------------------------------- MODULE Wire --------------------------------
(***************************************************************************)
(* The message protocol of src/common/protocol.c on one direction of one   *)
(* TCP connection: fields are joined into a line, the line is sent in as   *)
(* many pieces as the socket takes, read byte by byte on the other side    *)
(* and split into fields again.  The sending process may be killed at any  *)
(* byte.                                                                   *)
(*                                                                         *)
(* A byte is the delimiter, the terminator or an element of Letters; a     *)
(* field is a sequence of bytes, a message a sequence of fields.  The      *)
(* receiver calls protocol_receive_message again after every message and   *)
(* gives the connection up when it returns NULL, which is what             *)
(* run_client_loop, run_ss_loop, client_thread, ns_control_loop and the    *)
(* client on its connections to storage servers do.                        *)
(***************************************************************************)
EXTENDS Naturals, FiniteSets, SequencesExt

CONSTANTS
    Threads,           \* threads of the sending process that use the socket
    Messages,          \* the messages they send
    Letters,           \* the bytes that are neither delimiter nor terminator
    MAX_MESSAGE_SIZE, MAX_FIELDS,
    Capacity,          \* bytes the two socket buffers hold
    MaxMessages        \* bound

PROTOCOL_DELIMITER == "|"
PROTOCOL_TERMINATOR == "\n"
Bytes == Letters \cup {PROTOCOL_DELIMITER, PROTOCOL_TERMINATOR}

\* No field holds a terminator: fields come from lines of input, from fields that
\* were received, or from the program's own texts.
ASSUME WireAssumption ==
    /\ {PROTOCOL_DELIMITER, PROTOCOL_TERMINATOR} \cap Letters = {}
    /\ \A m \in Messages : m \in Seq(Seq(Bytes \ {PROTOCOL_TERMINATOR})) /\ m # <<>>
    /\ MAX_MESSAGE_SIZE \in Nat /\ MAX_MESSAGE_SIZE > 1
    /\ MAX_FIELDS \in Nat \ {0} /\ Capacity \in Nat \ {0} /\ MaxMessages \in Nat

VARIABLES
    out,      \* [Threads -> bytes of its message that send() has not taken]
    pipe,     \* bytes on their way
    open,     \* the sending side has not closed
    buffer,   \* what the receiver has of the current message
    reading,  \* the receiver still uses the connection
    got,      \* history: what protocol_receive_message returned, and its fields
    sent,     \* history: messages in the order of their first byte
    count     \* messages begun

vars == <<out, pipe, open, buffer, reading, got, sent, count>>

-----------------------------------------------------------------------------
(* Fields and lines *)

\* There is no escaping: a delimiter inside a field stays a delimiter.
protocol_build_message(m) ==
    FoldLeft(LAMBDA line, field : line \o <<PROTOCOL_DELIMITER>> \o field, m[1], Tail(m))
        \o <<PROTOCOL_TERMINATOR>>

\* The pieces between the delimiters, empty ones included.
Pieces(line) ==
    LET cuts == {p \in DOMAIN line : line[p] = PROTOCOL_DELIMITER}
        cut(i) == CHOOSE p \in cuts : Cardinality({q \in cuts : q <= p}) = i
        from(i) == IF i = 1 THEN 1 ELSE cut(i - 1) + 1
        to(i) == IF i > Cardinality(cuts) THEN Len(line) ELSE cut(i) - 1
    IN  [i \in 1..(Cardinality(cuts) + 1) |-> SubSeq(line, from(i), to(i))]

\* A trailing delimiter forgets the empty field behind it.
protocol_parse_message_NoTrailing(raw) ==
    LET line == IF Last(raw) = PROTOCOL_TERMINATOR THEN Front(raw) ELSE raw
        ps == Pieces(line)
        n == IF Len(ps) > 1 /\ Last(ps) = <<>> THEN Len(ps) - 1 ELSE Len(ps)
    IN  SubSeq(ps, 1, IF n < MAX_FIELDS THEN n ELSE MAX_FIELDS)

\* Fields beyond MAX_FIELDS are dropped.
protocol_parse_message(raw) ==
    LET line == IF Last(raw) = PROTOCOL_TERMINATOR THEN Front(raw) ELSE raw
        ps == Pieces(line)
    IN  SubSeq(ps, 1, IF Len(ps) < MAX_FIELDS THEN Len(ps) ELSE MAX_FIELDS)

-----------------------------------------------------------------------------
(* The sender *)

Init ==
    /\ out = [t \in Threads |-> <<>>]
    /\ pipe = <<>> /\ open = TRUE
    /\ buffer = <<>> /\ reading = TRUE
    /\ got = <<>> /\ sent = <<>> /\ count = 0

\* A thread calls protocol_send_message; send() takes the first piece.
Begin(t, m) ==
    /\ open /\ reading /\ out[t] = <<>> /\ count < MaxMessages
    /\ \E n \in 1..(Capacity - Len(pipe)) :
         LET line == protocol_build_message(m)
         IN  /\ n <= Len(line)
             /\ pipe' = pipe \o SubSeq(line, 1, n)
             /\ out' = [out EXCEPT ![t] = SubSeq(line, n + 1, Len(line))]
    /\ sent' = Append(sent, m)
    /\ count' = count + 1
    /\ UNCHANGED <<open, buffer, reading, got>>

\* The loop ends after any piece, as if send() took all it was given.
Rest_Dropped(t, n) == <<>>

\* What is left after n more bytes.
Rest(t, n) == SubSeq(out[t], n + 1, Len(out[t]))

\* The loop of protocol_send_message goes on with what send() did not take.
Send(t) ==
    /\ reading /\ out[t] # <<>>
    /\ \E n \in 1..(Capacity - Len(pipe)) :
         /\ n <= Len(out[t])
         /\ pipe' = pipe \o SubSeq(out[t], 1, n)
         /\ out' = [out EXCEPT ![t] = Rest(t, n)]
    /\ UNCHANGED <<open, buffer, reading, got, sent, count>>

\* send() fails, protocol_send_message returns -1.
SendFails(t) ==
    /\ ~reading /\ out[t] # <<>>
    /\ out' = [out EXCEPT ![t] = <<>>]
    /\ UNCHANGED <<pipe, open, buffer, reading, got, sent, count>>

\* The sending process closes the socket, or is killed between two pieces.
Close ==
    /\ open
    /\ open' = FALSE
    /\ out' = [t \in Threads |-> <<>>]
    /\ UNCHANGED <<pipe, buffer, reading, got, sent, count>>

-----------------------------------------------------------------------------
(* The receiver *)

Deliver(raw) ==
    /\ got' = Append(got, [raw |-> raw, fields |-> protocol_parse_message(raw)])
    /\ buffer' = <<>>

\* Mutant: room for the terminating zero byte is forgotten.
Full_OffByOne(b) == Len(b) = MAX_MESSAGE_SIZE

\* The read loop is over without a terminator.
Full(b) == Len(b) = MAX_MESSAGE_SIZE - 1

\* One turn of the loop of protocol_receive_message.
ReceiveByte ==
    /\ reading /\ pipe # <<>>
    /\ pipe' = Tail(pipe)
    /\ LET b == Append(buffer, Head(pipe))
       IN  \/ /\ Head(pipe) = PROTOCOL_TERMINATOR
              /\ Deliver(b)
              /\ UNCHANGED reading
           \/ /\ Head(pipe) # PROTOCOL_TERMINATOR
              /\ buffer' = b
              /\ reading' = ~Full(b)
              /\ UNCHANGED got
    /\ UNCHANGED <<out, open, sent, count>>

\* A return value of 0 in the middle of a message is retried like EINTR.
ReceiveEnd_Retried ==
    /\ reading /\ pipe = <<>> /\ ~open
    /\ buffer = <<>>
    /\ reading' = FALSE
    /\ UNCHANGED <<out, pipe, open, buffer, got, sent, count>>

\* recv() returns 0: what was read so far is returned as a message, the next call
\* returns NULL.
ReceiveEnd ==
    /\ reading /\ pipe = <<>> /\ ~open
    /\ \/ buffer # <<>> /\ Deliver(buffer) /\ UNCHANGED reading
       \/ buffer = <<>> /\ reading' = FALSE /\ UNCHANGED <<buffer, got>>
    /\ UNCHANGED <<out, pipe, open, sent, count>>

\* recv() fails because the connection was reset; what is on its way is lost.
ReceiveError ==
    /\ reading /\ ~open
    /\ reading' = FALSE /\ pipe' = <<>> /\ buffer' = <<>>
    /\ UNCHANGED <<out, open, got, sent, count>>

-----------------------------------------------------------------------------
Receive == ReceiveByte \/ ReceiveEnd

Next ==
    \/ \E t \in Threads, m \in Messages : Begin(t, m)
    \/ \E t \in Threads : Send(t) \/ SendFails(t)
    \/ Close
    \/ Receive
    \/ ReceiveError

\* send() and recv() go on as long as there is room, or something to read.
Spec == /\ Init /\ [][Next]_vars
        /\ WF_vars(Receive)
        /\ \A t \in Threads : WF_vars(Send(t))

-----------------------------------------------------------------------------
(* Properties *)

\* The type of every variable of the connection.
TypeOK ==
    /\ out \in [Threads -> Seq(Bytes)]
    /\ pipe \in Seq(Bytes) /\ Len(pipe) <= Capacity
    /\ buffer \in Seq(Bytes)
    /\ open \in BOOLEAN /\ reading \in BOOLEAN
    /\ sent \in Seq(Messages) /\ count \in 0..MaxMessages
    /\ \A i \in DOMAIN got : got[i].raw \in Seq(Bytes) \ {<<>>}

\* Framing: however send() cuts the lines and however full the buffers are, the
\* n-th message received is the n-th one sent, byte for byte.  Only the last one
\* may be the beginning of a message, when the sender was gone before its end.
\* Stated for one sending thread per socket, which is what protocol.h asks of its
\* callers.
FramesKept ==
    \A i \in DOMAIN got :
        /\ i <= Len(sent)
        /\ LET line == protocol_build_message(sent[i])
           IN  \/ got[i].raw = line
               \/ /\ i = Len(got) /\ i = Len(sent) /\ ~open
                  /\ IsStrictPrefix(got[i].raw, line)

\* A message that arrived whole has the fields it was built from, empty ones and
\* a trailing empty one included, up to MAX_FIELDS, when no field holds a
\* delimiter; the fields it is split into hold none, so that they can be sent
\* again (READ sends what WRITE_DATA brought).
FieldsKept ==
    \A i \in DOMAIN got :
        /\ \A k \in DOMAIN got[i].fields :
              {PROTOCOL_DELIMITER, PROTOCOL_TERMINATOR} \cap Range(got[i].fields[k]) = {}
        /\ LET m == sent[i]
           IN  (/\ Last(got[i].raw) = PROTOCOL_TERMINATOR
                /\ \A k \in DOMAIN m : PROTOCOL_DELIMITER \notin Range(m[k]))
               => got[i].fields = SubSeq(m, 1, IF Len(m) < MAX_FIELDS THEN Len(m) ELSE MAX_FIELDS)

\* The size limit: the buffer of protocol_receive_message keeps room for the
\* terminating zero byte, and the receiver gives an open connection up only when
\* the next message has no terminator within it, so that a line of exactly
\* MAX_MESSAGE_SIZE - 1 bytes is still received.
SizeLimit ==
    /\ Len(buffer) < MAX_MESSAGE_SIZE
    /\ ~reading /\ open =>
          /\ Len(got) < Len(sent)
          /\ Len(protocol_build_message(sent[Len(got) + 1])) >= MAX_MESSAGE_SIZE

\* Every message whose first byte was sent is received, whole or cut, or the
\* receiver gives the connection up: no message waits for the next one to push it
\* out, and a sender that meets full buffers goes on.
Arrives ==
    \A n \in 1..MaxMessages :
        (Len(sent) >= n) ~> (Len(got) >= n \/ ~reading)

\* protocol.h says that NULL is returned if the connection was closed.  It does
\* not hold: a message cut by the close is returned like any other.
WholeOrNull == \A i \in DOMAIN got : Last(got[i].raw) = PROTOCOL_TERMINATOR

=============================================================================
