---------------------------- MODULE SsCopy_proofs ----------------------------
(***************************************************************************)
(* Proofs about SsCopy: what COPY puts in place is a whole text that its   *)
(* source had, and what the client is told about it is true.               *)
(*                                                                         *)
(* The first property speaks of the moment before the rename; the          *)
(* inductive invariant follows the text from the source's disk, which is   *)
(* whole whenever nobody has the file's lock for writing, through the      *)
(* temporary file or the stream of another server, and says which locks    *)
(* the control thread has at each of its steps.  The second invariant      *)
(* follows the number of a command from the handler to the server and the  *)
(* first message about it back to the handler.                             *)
(***************************************************************************)
EXTENDS SsCopy, TLAPS

Job == [src : Files, dst : Files, nr : Nat]

\* The files, the threads and what has been seen.
ThreadType ==
    /\ text \in [Files -> Texts] /\ DOMAIN file_lock = Files
    /\ DOMAIN ctl = Servers /\ DOMAIN job = Servers /\ DOMAIN temp = Servers
    /\ DOMAIN peer = Servers /\ DOMAIN stream = Servers
    /\ seen \in [Servers -> SUBSET Texts]
    /\ commits \in 0..MaxCommits

\* SS_COPY goes to the server of the destination.
RequestType ==
    /\ copies \in Nat
    /\ pc \in [Handlers -> {"idle", "send", "wait", "return"}] /\ DOMAIN copy = Handlers
    /\ \A h \in Handlers : pc[h] # "idle" => copy[h] \in Job
    /\ DOMAIN toSS = Servers
    /\ \A s \in Servers : toSS[s] \in Seq({q \in Job : Home[q.dst] = s})

\* A file is torn only while its writer has the lock, or on a dead server.
TornIsLocked ==
    \A f \in Files : text[f] = Torn => file_lock[f] = Writer(f) \/ Home[f] \notin up

Active(s) == ctl[s] \notin {"idle", "reply", "dead"}

\* The steps in which the control thread has the lock of the destination, and
\* those in which it has the one of a local source too.
HoldsDst == {"check", "clone", "request", "receive", "finish", "failed"}
HoldsSrc == {"check", "clone"}

\* A job that is under way is one for this server, which runs; the source's text
\* has been seen, unless it is being written.
JobSeen(s) ==
    /\ Torn \notin seen[s]
    /\ Active(s) => /\ job[s] \in Job /\ Home[job[s].dst] = s /\ s \in up
                    /\ text[job[s].src] \in seen[s] \cup {Torn}

\* The control thread has the locks it believes to have.
LocksHeld(s) ==
    /\ ctl[s] = "second" => TwoLocks(s) /\ file_lock[First(s)] = Ctl(s)
    /\ ctl[s] \in HoldsDst => file_lock[job[s].dst] = Ctl(s)
    /\ ctl[s] \in HoldsSrc /\ Local(s) => file_lock[job[s].src] = Ctl(s)
    /\ ctl[s] = "clone" => Local(s)

\* What is on its way from another server, or has arrived, has been seen.
TextSeen(s) ==
    /\ peer[s] # "none" => ctl[s] = "receive" /\ stream[s] = NoMsg /\ Source(s) \in up
    /\ stream[s] # NoMsg => ctl[s] = "receive"
    /\ stream[s] # NoMsg /\ stream[s].do = "content" => stream[s].text \in seen[s]
    /\ ctl[s] = "finish" => temp[s] \in seen[s]

Sound(s) == JobSeen(s) /\ LocksHeld(s) /\ TextSeen(s)

\* The inductive invariant.
IInv == ThreadType /\ RequestType /\ TornIsLocked /\ \A s \in Servers : Sound(s)

-----------------------------------------------------------------------------

\* The holders of a lock are told apart.
LEMMA Holders ==
    /\ \A s \in Servers, f \in Files : Ctl(s) # Writer(f) /\ Ctl(s) # Free /\ Writer(f) # Free
    /\ \A s, t : Ctl(s) = Ctl(t) => s = t
    /\ \A f, g : Writer(f) = Writer(g) => f = g
BY FreeAssumption DEF Ctl, Writer

\* A text that was committed is not torn.
LEMMA WholeTexts ==
    /\ \A f \in Files : \A n : <<f, n>> # Torn
    /\ \A f \in Files, n \in 0..MaxCommits : <<f, n>> \in Texts
    /\ Torn \in Texts
BY CopyAssumption DEF Torn, Texts

\* A server whose threads do nothing in a step is unharmed by it, if it keeps the
\* locks it has and sees what its source becomes.
LEMMA OthersSound ==
    ASSUME NEW s \in Servers, Sound(s), s \in up => s \in up', Torn \notin seen'[s],
           ctl'[s] = ctl[s], job'[s] = job[s], temp'[s] = temp[s],
           peer'[s] = peer[s], stream'[s] = stream[s], seen[s] \subseteq seen'[s],
           \A f \in Files : file_lock[f] = Ctl(s) => file_lock'[f] = Ctl(s),
           peer[s] # "none" /\ Source(s) \in up => Source(s) \in up',
           Active(s) /\ job[s] \in Job /\ text[job[s].src] \in seen[s] \cup {Torn}
               => text'[job[s].src] \in seen'[s] \cup {Torn}
    PROVE  Sound(s)'
<1>1. JobSeen(s)'
  BY DEF Sound, JobSeen, Active
<1>2. Active(s) => job[s].src \in Files /\ job[s].dst \in Files
  BY DEF Sound, JobSeen, Job
<1>3. /\ TwoLocks(s)' <=> TwoLocks(s)
      /\ Local(s)' <=> Local(s)
      /\ First(s)' = First(s)
      /\ Source(s)' = Source(s)
  BY DEF TwoLocks, Local, First, Source
<1>4. Active(s) => First(s) \in Files
  BY <1>2 DEF First
<1>5. LocksHeld(s)'
  BY <1>2, <1>3, <1>4 DEF Sound, LocksHeld, Active, HoldsDst, HoldsSrc
<1>6. TextSeen(s)'
  BY <1>3 DEF Sound, TextSeen
<1> QED BY <1>1, <1>5, <1>6 DEF Sound

\* The name server's steps do not touch the storage servers.
LEMMA ServersSame ==
    ASSUME IInv, UNCHANGED <<text, file_lock, ctl, job, temp, peer, stream, up, seen>>,
           commits' \in 0..MaxCommits
    PROVE  ThreadType' /\ TornIsLocked' /\ \A s \in Servers : Sound(s)'
<1>1. ThreadType' /\ TornIsLocked'
  BY DEF IInv, ThreadType, TornIsLocked
<1>2. ASSUME NEW s \in Servers PROVE Sound(s)'
  BY DEF IInv, Sound, JobSeen, LocksHeld, TextSeen, Active, TwoLocks, Local, First, Source
<1> QED BY <1>1, <1>2

\* COPY is checked and numbered.
LEMMA CopyKeeps ==
    ASSUME IInv, NEW h \in Handlers, NEW c \in Copies, Copy(h, c)
    PROVE  IInv'
<1> DEFINE q == [src |-> c[1], dst |-> c[2], nr |-> copies + 1]
<1>1. q \in Job /\ copies + 1 \in Nat
  BY CopyAssumption DEF Job, IInv, RequestType
<1>2. /\ copies' = copies + 1 /\ pc' = [pc EXCEPT ![h] = "send"]
      /\ copy' = [copy EXCEPT ![h] = q] /\ toSS' = toSS
  BY DEF Copy, wire
<1> HIDE DEF q
<1>3. RequestType'
  BY <1>1, <1>2 DEF IInv, RequestType
<1>4. /\ UNCHANGED <<text, file_lock, ctl, job, temp, peer, stream, up, seen>>
      /\ commits' \in 0..MaxCommits
  BY DEF Copy, disk, locks, server, history, IInv, ThreadType
<1> QED BY <1>3, <1>4, ServersSame DEF IInv

\* SS_COPY is sent to the server of the destination.
LEMMA SendKeeps ==
    ASSUME IInv, NEW h \in Handlers, Send(h)
    PROVE  IInv'
<1> DEFINE s == Dest(h)
           M(t) == {q \in Job : Home[q.dst] = t}
<1>1. copy[h] \in Job
  BY DEF Send, IInv, RequestType
<1>2. s \in Servers /\ copy[h] \in M(s)
  BY <1>1, CopyAssumption DEF Dest, Job
<1>3. \A t \in Servers : toSS[t] \in Seq(M(t))
  BY DEF IInv, RequestType
<1>4. toSS' = toSS \/ toSS' = [toSS EXCEPT ![s] = Append(toSS[s], copy[h])]
  BY DEF Send
<1> HIDE DEF s, M
<1>5. Append(toSS[s], copy[h]) \in Seq(M(s))
  BY <1>2, <1>3
<1>6. DOMAIN toSS' = Servers /\ \A t \in Servers : toSS'[t] \in Seq(M(t))
  BY <1>2, <1>3, <1>4, <1>5 DEF IInv, RequestType
<1>7. /\ pc' \in [Handlers -> {"idle", "send", "wait", "return"}] /\ copy' = copy /\ copies' = copies
      /\ pc[h] # "idle" /\ \A k \in Handlers : k # h => pc'[k] = pc[k]
  BY DEF Send, bounds, IInv, RequestType
<1>8. RequestType'
  BY <1>6, <1>7 DEF IInv, RequestType, M
<1>9. /\ UNCHANGED <<text, file_lock, ctl, job, temp, peer, stream, up, seen>>
      /\ commits' \in 0..MaxCommits
  BY DEF Send, disk, locks, server, bounds, IInv, ThreadType
<1> QED BY <1>8, <1>9, ServersSame DEF IInv

\* An answer is read, taken, or ends the command.
LEMMA AnswerKeeps ==
    ASSUME IInv, (\E s \in Servers : Deliver(s)) \/ (\E h \in Handlers : Take(h) \/ End(h))
    PROVE  IInv'
<1>1. RequestType'
  <2>1. CASE \E s \in Servers : Deliver(s)
    BY <2>1 DEF Deliver, handler, bounds, IInv, RequestType
  <2>2. CASE \E h \in Handlers : Take(h)
    BY <2>2 DEF Take, bounds, IInv, RequestType
  <2>3. CASE \E h \in Handlers : End(h)
    BY <2>3 DEF End, bounds, wire, IInv, RequestType
  <2> QED BY <2>1, <2>2, <2>3
<1>2. /\ UNCHANGED <<text, file_lock, ctl, job, temp, peer, stream, up, seen>>
      /\ commits' \in 0..MaxCommits
  BY DEF Deliver, Take, End, disk, locks, server, bounds, history, IInv, ThreadType
<1> QED BY <1>1, <1>2, ServersSame DEF IInv

-----------------------------------------------------------------------------
(* The control thread *)

\* A step of the threads that work for server s: the other servers keep their
\* locks, and see what becomes of the files.
LEMMA OneServer ==
    ASSUME IInv, NEW s \in Servers, RequestType', Sound(s)', up' = up, commits' = commits,
           DOMAIN ctl' = Servers, DOMAIN job' = Servers, DOMAIN temp' = Servers,
           DOMAIN peer' = Servers, DOMAIN stream' = Servers, DOMAIN file_lock' = Files,
           seen' \in [Servers -> SUBSET Texts], text' \in [Files -> Texts],
           \A f \in Files : \/ file_lock'[f] = file_lock[f]
                            \/ file_lock[f] \in {Free, Ctl(s)},
           \A f \in Files : text'[f] = Torn => text[f] = Torn,
           \A t \in Servers \ {s} :
               /\ ctl'[t] = ctl[t] /\ job'[t] = job[t] /\ temp'[t] = temp[t]
               /\ peer'[t] = peer[t] /\ stream'[t] = stream[t]
               /\ seen[t] \subseteq seen'[t] /\ (Torn \notin seen[t] => Torn \notin seen'[t])
               /\ job[t] \in Job /\ text[job[t].src] \in seen[t] \cup {Torn}
                      => text'[job[t].src] \in seen'[t] \cup {Torn}
    PROVE  IInv'
<1>1. ThreadType'
  BY DEF IInv, ThreadType
<1>2. TornIsLocked'
  BY Holders DEF IInv, TornIsLocked
<1>3. ASSUME NEW t \in Servers, t # s PROVE Sound(t)'
  <2>1. Sound(t) /\ Torn \notin seen[t]
    BY DEF IInv, Sound, JobSeen
  <2>2. \A f \in Files : file_lock[f] = Ctl(t) => file_lock'[f] = Ctl(t)
    BY Holders, <1>3
  <2> QED BY <1>3, <2>1, <2>2, OthersSound
<1> QED BY <1>1, <1>2, <1>3 DEF IInv

\* The same for the steps that change neither a file nor what has been seen.
LEMMA OneQuietServer ==
    ASSUME IInv, NEW s \in Servers, Sound(s)',
           UNCHANGED <<up, commits, copies, text, seen, pc, copy, toSS>>,
           DOMAIN ctl' = Servers, DOMAIN job' = Servers, DOMAIN temp' = Servers,
           DOMAIN peer' = Servers, DOMAIN stream' = Servers, DOMAIN file_lock' = Files,
           \A f \in Files : \/ file_lock'[f] = file_lock[f]
                            \/ file_lock[f] \in {Free, Ctl(s)},
           \A t \in Servers \ {s} :
               /\ ctl'[t] = ctl[t] /\ job'[t] = job[t] /\ temp'[t] = temp[t]
               /\ peer'[t] = peer[t] /\ stream'[t] = stream[t]
    PROVE  IInv'
<1>1. RequestType'
  BY DEF IInv, RequestType
<1>2. seen' \in [Servers -> SUBSET Texts] /\ text' \in [Files -> Texts]
  BY DEF IInv, ThreadType
<1> QED BY <1>1, <1>2, OneServer

\* The job is the first of the messages, whose source's text is noted.
LEMMA BeginKeeps ==
    ASSUME IInv, NEW s \in Servers, Begin(s)
    PROVE  IInv'
<1> DEFINE M(t) == {q \in Job : Home[q.dst] = t}
<1>1. PICK q : q = Head(toSS[s])
  OBVIOUS
<1>2. \A t \in Servers : toSS[t] \in Seq(M(t))
  BY DEF IInv, RequestType
<1>3. /\ s \in up /\ ctl[s] = "idle" /\ toSS[s] # <<>>
      /\ job' = [job EXCEPT ![s] = q] /\ ctl' = [ctl EXCEPT ![s] = "first"]
      /\ toSS' = [toSS EXCEPT ![s] = Tail(toSS[s])]
      /\ seen' = [seen EXCEPT ![s] = {text[q.src]} \ {Torn}]
      /\ UNCHANGED <<text, file_lock, temp, peer, stream, up, pc, copy, copies, commits>>
  BY <1>1 DEF Begin, disk, handler, bounds
<1> HIDE DEF M
<1>4. q \in M(s) /\ Tail(toSS[s]) \in Seq(M(s))
  BY <1>1, <1>2, <1>3
<1>5. q \in Job /\ q.src \in Files /\ q.dst \in Files /\ Home[q.dst] = s
  BY <1>4 DEF M, Job
<1>6. RequestType'
  <2>1. DOMAIN toSS' = Servers /\ \A t \in Servers : toSS'[t] \in Seq(M(t))
    BY <1>2, <1>3, <1>4 DEF IInv, RequestType
  <2> QED BY <2>1, <1>3 DEF IInv, RequestType, M
<1>7. text[q.src] \in Texts
  BY <1>5 DEF IInv, ThreadType
<1>8. seen' \in [Servers -> SUBSET Texts] /\ seen'[s] = {text[q.src]} \ {Torn}
  BY <1>3, <1>7 DEF IInv, ThreadType
<1>9. job'[s] = q /\ ctl'[s] = "first"
  BY <1>3 DEF IInv, ThreadType
<1>10. Sound(s)'
  <2>1. JobSeen(s)'
    BY <1>3, <1>5, <1>8, <1>9 DEF JobSeen
  <2>2. LocksHeld(s)'
    BY <1>9 DEF LocksHeld, HoldsDst, HoldsSrc
  <2>3. peer[s] = "none" /\ stream[s] = NoMsg
    BY <1>3 DEF IInv, Sound, TextSeen
  <2>4. TextSeen(s)'
    BY <1>3, <1>9, <2>3 DEF TextSeen
  <2> QED BY <2>1, <2>2, <2>4 DEF Sound
<1>11. \A t \in Servers \ {s} : ctl'[t] = ctl[t] /\ job'[t] = job[t] /\ seen'[t] = seen[t]
  BY <1>3 DEF IInv, ThreadType
<1>12. /\ DOMAIN ctl' = Servers /\ DOMAIN job' = Servers /\ DOMAIN temp' = Servers
       /\ DOMAIN peer' = Servers /\ DOMAIN stream' = Servers /\ DOMAIN file_lock' = Files
       /\ text' \in [Files -> Texts]
  BY <1>3 DEF IInv, ThreadType
<1> QED BY <1>3, <1>6, <1>8, <1>10, <1>11, <1>12, OneServer

\* The locks are taken one by one, never one that somebody has.
LEMMA LockRecordKeeps ==
    ASSUME IInv, NEW s \in Servers, LockRecord(s)
    PROVE  IInv'
<1> DEFINE last == ctl[s] = "second" \/ ~TwoLocks(s)
<1>1. PICK f : f = IF ctl[s] = "first" THEN First(s) ELSE Second(s)
  OBVIOUS
<1>2. /\ ctl[s] \in {"first", "second"} /\ file_lock[f] = Free
      /\ file_lock' = [file_lock EXCEPT ![f] = Ctl(s)]
      /\ ctl' = [ctl EXCEPT ![s] = IF last THEN "check" ELSE "second"]
      /\ UNCHANGED <<text, job, temp, peer, stream, up, pc, copy, toSS, copies, commits, seen>>
  BY <1>1 DEF LockRecord, disk, handler, wire, bounds, history
<1>3. Sound(s) /\ Active(s)
  BY <1>2 DEF IInv, Active
<1>4. /\ job[s] \in Job /\ job[s].src \in Files /\ job[s].dst \in Files
      /\ First(s) \in {job[s].src, job[s].dst} /\ Second(s) \in {job[s].src, job[s].dst}
      /\ f \in Files
  BY <1>1, <1>3 DEF Sound, JobSeen, Job, First, Second
<1>5. ctl'[s] = IF last THEN "check" ELSE "second"
  BY <1>2 DEF IInv, ThreadType
<1>6. file_lock'[f] = Ctl(s) /\ \A g \in Files : g # f => file_lock'[g] = file_lock[g]
  BY <1>2, <1>4 DEF IInv, ThreadType
<1>7. /\ TwoLocks(s)' <=> TwoLocks(s)
      /\ Local(s)' <=> Local(s)
      /\ First(s)' = First(s)
      /\ Source(s)' = Source(s)
      /\ job'[s] = job[s]
  BY <1>2 DEF TwoLocks, Local, First, Source
<1>8. Sound(s)'
  <2>1. JobSeen(s)'
    BY <1>2, <1>3, <1>5 DEF Sound, JobSeen
  <2>2. LocksHeld(s)'
    <3>1. CASE ~last
      <4>1. TwoLocks(s) /\ f = First(s)
        BY <3>1, <1>1, <1>2
      <4> QED BY <4>1, <3>1, <1>5, <1>6, <1>7 DEF LocksHeld, HoldsDst, HoldsSrc
    <3>2. CASE last /\ ctl[s] = "first"
      <4>1. ~TwoLocks(s) /\ f = job[s].dst
        BY <3>2, <1>1 DEF First
      <4> QED BY <4>1, <3>2, <1>5, <1>6, <1>7 DEF LocksHeld, HoldsDst, HoldsSrc, TwoLocks
    <3>3. CASE last /\ ctl[s] = "second"
      <4>1. /\ TwoLocks(s) /\ job[s].src # job[s].dst
            /\ file_lock[First(s)] = Ctl(s) /\ f = Second(s)
        BY <3>3, <1>1, <1>3 DEF Sound, LocksHeld, TwoLocks
      <4>2. file_lock'[job[s].src] = Ctl(s) /\ file_lock'[job[s].dst] = Ctl(s)
        BY <4>1, <1>4, <1>6 DEF First, Second
      <4> QED BY <4>2, <3>3, <1>5, <1>7 DEF LocksHeld
    <3> QED BY <3>1, <3>2, <3>3, <1>2
  <2>3. TextSeen(s)'
    BY <1>2, <1>3, <1>5 DEF Sound, TextSeen
  <2> QED BY <2>1, <2>2, <2>3 DEF Sound
<1>9. /\ DOMAIN ctl' = Servers /\ DOMAIN file_lock' = Files
      /\ \A t \in Servers \ {s} : ctl'[t] = ctl[t]
  BY <1>2 DEF IInv, ThreadType
<1>10. DOMAIN job' = Servers /\ DOMAIN temp' = Servers /\ DOMAIN peer' = Servers /\ DOMAIN stream' = Servers
  BY <1>2 DEF IInv, ThreadType
<1>11. \A g \in Files : file_lock'[g] = file_lock[g] \/ file_lock[g] \in {Free, Ctl(s)}
  BY <1>2, <1>6
<1> QED BY <1>2, <1>8, <1>9, <1>10, <1>11, OneQuietServer

\* The check releases a source that it will not read; the destination stays locked.
LEMMA CheckKeeps ==
    ASSUME IInv, NEW s \in Servers, Check(s)
    PROVE  IInv'
<1>1. /\ ctl[s] = "check"
      /\ ctl' \in {[ctl EXCEPT ![s] = x] : x \in {"failed", "clone", "request"}}
      /\ ctl' = [ctl EXCEPT ![s] = "clone"] => ~Busy(s) /\ Local(s)
      /\ file_lock' = [f \in Files |-> IF f \in (IF Busy(s) /\ TwoLocks(s) THEN {job[s].src} ELSE {})
                                       THEN Free ELSE file_lock[f]]
      /\ UNCHANGED <<text, job, temp, peer, stream, up, pc, copy, toSS, copies, commits, seen>>
  <2>1. /\ ctl[s] = "check"
        /\ UNCHANGED <<text, job, temp, peer, stream, up, pc, copy, toSS, copies, commits, seen>>
    BY DEF Check, disk, handler, wire, bounds, history
  <2>2. /\ ctl' \in {[ctl EXCEPT ![s] = x] : x \in {"failed", "clone", "request"}}
        /\ ctl' = [ctl EXCEPT ![s] = "clone"] => ~Busy(s) /\ Local(s)
    <3>1. s \in DOMAIN ctl
      BY DEF IInv, ThreadType
    <3>2. /\ [ctl EXCEPT ![s] = "failed"] # [ctl EXCEPT ![s] = "clone"]
          /\ [ctl EXCEPT ![s] = "request"] # [ctl EXCEPT ![s] = "clone"]
      BY <3>1
    <3> QED BY <3>2 DEF Check
  <2>3. file_lock' = [f \in Files |-> IF f \in (IF Busy(s) /\ TwoLocks(s) THEN {job[s].src} ELSE {})
                                       THEN Free ELSE file_lock[f]]
    BY DEF Check, Release
  <2> QED BY <2>1, <2>2, <2>3
<1>2. Sound(s) /\ Active(s)
  BY <1>1 DEF IInv, Active
<1>3. /\ job[s] \in Job /\ job[s].src \in Files /\ job[s].dst \in Files
      /\ file_lock[job[s].dst] = Ctl(s) /\ (Local(s) => file_lock[job[s].src] = Ctl(s))
  BY <1>1, <1>2 DEF Sound, JobSeen, LocksHeld, Job, HoldsDst, HoldsSrc
<1>4. ctl'[s] \in {"failed", "clone", "request"} /\ (ctl'[s] = "clone" => ~Busy(s) /\ Local(s))
  <2>1. PICK x \in {"failed", "clone", "request"} : ctl' = [ctl EXCEPT ![s] = x]
    BY <1>1
  <2>2. ctl'[s] = x
    BY <2>1 DEF IInv, ThreadType
  <2> QED BY <1>1, <2>1, <2>2
<1>5. /\ TwoLocks(s)' <=> TwoLocks(s)
      /\ Local(s)' <=> Local(s)
      /\ Source(s)' = Source(s)
      /\ job'[s] = job[s]
  BY <1>1 DEF TwoLocks, Local, Source
<1>6. \A f \in Files : file_lock'[f] = file_lock[f] \/ file_lock[f] = Ctl(s)
  BY <1>1, <1>3 DEF TwoLocks
<1>7. file_lock'[job[s].dst] = Ctl(s) /\ (~Busy(s) => file_lock' = [f \in Files |-> file_lock[f]])
  BY <1>1, <1>3 DEF TwoLocks
<1>8. Sound(s)'
  <2>1. JobSeen(s)'
    BY <1>1, <1>2 DEF Sound, JobSeen
  <2>2. LocksHeld(s)'
    BY <1>3, <1>4, <1>5, <1>7 DEF LocksHeld, HoldsSrc
  <2>3. TextSeen(s)'
    BY <1>1, <1>2, <1>4 DEF Sound, TextSeen
  <2> QED BY <2>1, <2>2, <2>3 DEF Sound
<1>9. /\ DOMAIN ctl' = Servers /\ DOMAIN file_lock' = Files
      /\ \A t \in Servers \ {s} : ctl'[t] = ctl[t]
  BY <1>1 DEF IInv, ThreadType
<1>10. DOMAIN job' = Servers /\ DOMAIN temp' = Servers /\ DOMAIN peer' = Servers /\ DOMAIN stream' = Servers
  BY <1>1 DEF IInv, ThreadType
<1> QED BY <1>1, <1>6, <1>8, <1>9, <1>10, OneQuietServer

\* A source that the thread has locked is whole, so its text has been seen.
LEMMA CloneKeeps ==
    ASSUME IInv, NEW s \in Servers, Clone(s)
    PROVE  IInv'
<1>1. /\ ctl[s] = "clone" /\ temp' = [temp EXCEPT ![s] = text[job[s].src]]
      /\ ctl' = [ctl EXCEPT ![s] = "finish"]
      /\ file_lock' = [f \in Files |-> IF f \in (IF TwoLocks(s) THEN {job[s].src} ELSE {})
                                       THEN Free ELSE file_lock[f]]
      /\ UNCHANGED <<text, job, peer, stream, up, pc, copy, toSS, copies, commits, seen>>
  BY DEF Clone, Release, disk, handler, wire, bounds, history
<1>2. Sound(s) /\ Active(s)
  BY <1>1 DEF IInv, Active
<1>3. /\ job[s] \in Job /\ job[s].src \in Files /\ job[s].dst \in Files /\ Local(s) /\ s \in up
      /\ file_lock[job[s].dst] = Ctl(s) /\ file_lock[job[s].src] = Ctl(s)
  BY <1>1, <1>2 DEF Sound, JobSeen, LocksHeld, Job, HoldsDst, HoldsSrc
<1>4. text[job[s].src] # Torn
  BY <1>3, Holders DEF IInv, TornIsLocked, Local, Source
<1>5. text[job[s].src] \in seen[s]
  BY <1>2, <1>4 DEF Sound, JobSeen
<1>6. ctl'[s] = "finish" /\ temp'[s] = text[job[s].src] /\ job'[s] = job[s]
  BY <1>1 DEF IInv, ThreadType
<1>7. /\ \A f \in Files : file_lock'[f] = file_lock[f] \/ file_lock[f] = Ctl(s)
      /\ file_lock'[job[s].dst] = Ctl(s)
  BY <1>1, <1>3 DEF TwoLocks
<1>8. Sound(s)'
  <2>1. JobSeen(s)'
    BY <1>1, <1>2 DEF Sound, JobSeen
  <2>2. LocksHeld(s)'
    BY <1>6, <1>7 DEF LocksHeld, HoldsSrc
  <2>3. TextSeen(s)'
    BY <1>1, <1>2, <1>5, <1>6 DEF Sound, TextSeen
  <2> QED BY <2>1, <2>2, <2>3 DEF Sound
<1>9. /\ DOMAIN ctl' = Servers /\ DOMAIN file_lock' = Files /\ DOMAIN temp' = Servers
      /\ \A t \in Servers \ {s} : ctl'[t] = ctl[t] /\ temp'[t] = temp[t]
  BY <1>1 DEF IInv, ThreadType
<1>10. DOMAIN job' = Servers /\ DOMAIN peer' = Servers /\ DOMAIN stream' = Servers
  BY <1>1 DEF IInv, ThreadType
<1> QED BY <1>1, <1>7, <1>8, <1>9, <1>10, OneQuietServer

\* The other server is asked only while it runs.
LEMMA RequestKeeps ==
    ASSUME IInv, NEW s \in Servers, Request(s)
    PROVE  IInv'
<1>1. /\ ctl[s] = "request"
      /\ \/ /\ Source(s) \in up /\ ctl' = [ctl EXCEPT ![s] = "receive"]
            /\ peer' = [peer EXCEPT ![s] = "find"] /\ stream' = [stream EXCEPT ![s] = NoMsg]
         \/ ctl' = [ctl EXCEPT ![s] = "failed"] /\ peer' = peer /\ stream' = stream
      /\ UNCHANGED <<text, file_lock, job, temp, up, pc, copy, toSS, copies, commits, seen>>
  BY DEF Request, disk, locks, handler, wire, bounds, history
<1>2. Sound(s)
  BY DEF IInv
<1>3. /\ ctl'[s] \in {"receive", "failed"} /\ job'[s] = job[s] /\ Source(s)' = Source(s)
      /\ (peer'[s] # "none" => \/ peer[s] # "none"
                               \/ ctl'[s] = "receive" /\ stream'[s] = NoMsg /\ Source(s) \in up)
      /\ (stream'[s] = stream[s] \/ stream'[s] = NoMsg)
  BY <1>1 DEF IInv, ThreadType, Source
<1>4. Sound(s)'
  <2>1. JobSeen(s)'
    BY <1>1, <1>2 DEF Sound, JobSeen, Active
  <2>2. LocksHeld(s)'
    BY <1>1, <1>2, <1>3 DEF Sound, LocksHeld, HoldsSrc, HoldsDst
  <2>3. TextSeen(s)'
    BY <1>1, <1>2, <1>3 DEF Sound, TextSeen
  <2> QED BY <2>1, <2>2, <2>3 DEF Sound
<1>5. /\ DOMAIN ctl' = Servers /\ DOMAIN peer' = Servers /\ DOMAIN stream' = Servers
      /\ \A t \in Servers \ {s} : ctl'[t] = ctl[t] /\ peer'[t] = peer[t] /\ stream'[t] = stream[t]
  BY <1>1 DEF IInv, ThreadType
<1>6. DOMAIN job' = Servers /\ DOMAIN temp' = Servers /\ DOMAIN file_lock' = Files
  BY <1>1 DEF IInv, ThreadType
<1> QED BY <1>1, <1>4, <1>5, <1>6, OneQuietServer

\* What the stream brought has been seen.
LEMMA ReceiveKeeps ==
    ASSUME IInv, NEW s \in Servers, Receive(s)
    PROVE  IInv'
<1>1. /\ ctl[s] = "receive" /\ stream[s] # NoMsg /\ stream' = [stream EXCEPT ![s] = NoMsg]
      /\ \/ /\ stream[s].do = "content" /\ ctl' = [ctl EXCEPT ![s] = "finish"]
            /\ temp' = [temp EXCEPT ![s] = stream[s].text]
         \/ ctl' = [ctl EXCEPT ![s] = "failed"] /\ temp' = temp
      /\ UNCHANGED <<text, file_lock, job, peer, up, pc, copy, toSS, copies, commits, seen>>
  BY DEF Receive, disk, locks, handler, wire, bounds, history
<1>2. Sound(s)
  BY DEF IInv
<1>3. /\ ctl'[s] \in {"finish", "failed"} /\ job'[s] = job[s] /\ stream'[s] = NoMsg
      /\ (ctl'[s] = "finish" => stream[s].do = "content" /\ temp'[s] = stream[s].text)
  BY <1>1 DEF IInv, ThreadType
<1>4. peer[s] = "none"
  BY <1>1, <1>2 DEF Sound, TextSeen
<1>5. Sound(s)'
  <2>1. JobSeen(s)'
    BY <1>1, <1>2 DEF Sound, JobSeen, Active
  <2>2. LocksHeld(s)'
    BY <1>1, <1>2, <1>3 DEF Sound, LocksHeld, HoldsSrc, HoldsDst
  <2>3. TextSeen(s)'
    BY <1>1, <1>2, <1>3, <1>4 DEF Sound, TextSeen
  <2> QED BY <2>1, <2>2, <2>3 DEF Sound
<1>6. /\ DOMAIN ctl' = Servers /\ DOMAIN temp' = Servers /\ DOMAIN stream' = Servers
      /\ \A t \in Servers \ {s} : ctl'[t] = ctl[t] /\ temp'[t] = temp[t] /\ stream'[t] = stream[t]
  BY <1>1 DEF IInv, ThreadType
<1>7. DOMAIN job' = Servers /\ DOMAIN peer' = Servers /\ DOMAIN file_lock' = Files
  BY <1>1 DEF IInv, ThreadType
<1> QED BY <1>1, <1>5, <1>6, <1>7, OneQuietServer

\* The rename gives the destination a whole text, that of the jobs that read it too.
LEMMA FinishKeeps ==
    ASSUME IInv, NEW s \in Servers, Finish(s)
    PROVE  IInv'
<1>1. PICK d : d = job[s].dst
  OBVIOUS
<1>2. PICK x : x = temp[s]
  OBVIOUS
<1>3. /\ ctl[s] = "finish" /\ text' = [text EXCEPT ![d] = x]
      /\ file_lock' = [f \in Files |-> IF f \in {d} THEN Free ELSE file_lock[f]]
      /\ ctl' = [ctl EXCEPT ![s] = "reply"] /\ job' = [job EXCEPT ![s] = NoJob]
      /\ temp' = [temp EXCEPT ![s] = Torn]
      /\ seen' = [t \in Servers |-> IF t = s THEN {}
                                    ELSE IF job[t].src = d THEN seen[t] \cup {x} ELSE seen[t]]
      /\ UNCHANGED <<peer, stream, up, pc, copy, toSS, copies, commits>>
  BY <1>1, <1>2 DEF Finish, Release, handler, bounds
<1>4. Sound(s) /\ Active(s)
  BY <1>3 DEF IInv, Active
<1>5. d \in Files /\ file_lock[d] = Ctl(s) /\ x \in seen[s] /\ x # Torn
  BY <1>1, <1>2, <1>3, <1>4 DEF Sound, JobSeen, LocksHeld, TextSeen, Job, HoldsDst
<1>6. x \in Texts
  BY <1>5 DEF IInv, ThreadType
<1>7. text' \in [Files -> Texts] /\ \A f \in Files : text'[f] = IF f = d THEN x ELSE text[f]
  BY <1>3, <1>5, <1>6 DEF IInv, ThreadType
<1>8. seen' \in [Servers -> SUBSET Texts]
  BY <1>3, <1>6 DEF IInv, ThreadType
<1>9. ctl'[s] = "reply" /\ seen'[s] = {}
  BY <1>3 DEF IInv, ThreadType
<1>10. Sound(s)'
  <2>1. peer[s] = "none" /\ stream[s] = NoMsg
    BY <1>3, <1>4 DEF Sound, TextSeen
  <2>2. JobSeen(s)' /\ LocksHeld(s)'
    BY <1>9 DEF JobSeen, LocksHeld, Active, HoldsDst, HoldsSrc
  <2>3. TextSeen(s)'
    BY <1>3, <1>9, <2>1 DEF TextSeen
  <2> QED BY <2>2, <2>3 DEF Sound
<1>11. RequestType'
  BY <1>3 DEF IInv, RequestType
<1>12. ASSUME NEW t \in Servers \ {s}
       PROVE  /\ ctl'[t] = ctl[t] /\ job'[t] = job[t] /\ temp'[t] = temp[t]
              /\ peer'[t] = peer[t] /\ stream'[t] = stream[t]
              /\ seen[t] \subseteq seen'[t] /\ (Torn \notin seen[t] => Torn \notin seen'[t])
              /\ job[t] \in Job /\ text[job[t].src] \in seen[t] \cup {Torn}
                     => text'[job[t].src] \in seen'[t] \cup {Torn}
  <2>1. ctl'[t] = ctl[t] /\ job'[t] = job[t] /\ temp'[t] = temp[t]
    BY <1>3 DEF IInv, ThreadType
  <2>2. seen'[t] = IF job[t].src = d THEN seen[t] \cup {x} ELSE seen[t]
    BY <1>3
  <2>3. job[t] \in Job => job[t].src \in Files
    BY DEF Job
  <2> QED BY <2>1, <2>2, <2>3, <1>3, <1>5, <1>7
<1>13. /\ DOMAIN ctl' = Servers /\ DOMAIN job' = Servers /\ DOMAIN temp' = Servers
       /\ DOMAIN peer' = Servers /\ DOMAIN stream' = Servers /\ DOMAIN file_lock' = Files
  BY <1>3 DEF IInv, ThreadType
<1>14. /\ \A f \in Files : file_lock'[f] = file_lock[f] \/ file_lock[f] \in {Free, Ctl(s)}
       /\ \A f \in Files : text'[f] = Torn => text[f] = Torn
  BY <1>3, <1>5, <1>7
<1> QED BY <1>3, <1>7, <1>8, <1>10, <1>11, <1>12, <1>13, <1>14, OneServer

\* The answer is sent when no lock is left.
LEMMA ReplyKeeps ==
    ASSUME IInv, NEW s \in Servers, Reply(s)
    PROVE  IInv'
<1>1. /\ ctl[s] = "reply" /\ ctl' = [ctl EXCEPT ![s] = "idle"]
      /\ UNCHANGED <<text, file_lock, job, temp, peer, stream, up, pc, copy, toSS, copies,
                     commits, seen>>
  BY DEF Reply, disk, locks, handler, bounds, history
<1>2. Sound(s)
  BY DEF IInv
<1>3. ctl'[s] = "idle"
  BY <1>1 DEF IInv, ThreadType
<1>4. Sound(s)'
  BY <1>1, <1>2, <1>3 DEF Sound, JobSeen, LocksHeld, TextSeen, Active, HoldsSrc, HoldsDst
<1>5. DOMAIN ctl' = Servers /\ \A t \in Servers \ {s} : ctl'[t] = ctl[t]
  BY <1>1 DEF IInv, ThreadType
<1>6. /\ DOMAIN job' = Servers /\ DOMAIN temp' = Servers /\ DOMAIN peer' = Servers
      /\ DOMAIN stream' = Servers /\ DOMAIN file_lock' = Files
  BY <1>1 DEF IInv, ThreadType
<1> QED BY <1>1, <1>4, <1>5, <1>6, OneQuietServer

\* A job that failed releases its destination.
LEMMA FailKeeps ==
    ASSUME IInv, NEW s \in Servers, Fail(s)
    PROVE  IInv'
<1>1. /\ ctl[s] = "failed" /\ ctl' = [ctl EXCEPT ![s] = "idle"]
      /\ job' = [job EXCEPT ![s] = NoJob] /\ seen' = [seen EXCEPT ![s] = {}]
      /\ file_lock' = [f \in Files |-> IF f \in {job[s].dst} THEN Free ELSE file_lock[f]]
      /\ UNCHANGED <<text, temp, peer, stream, up, pc, copy, toSS, copies, commits>>
  BY DEF Fail, Release, disk, handler, bounds
<1>2. Sound(s)
  BY DEF IInv
<1>3. file_lock[job[s].dst] = Ctl(s) /\ peer[s] = "none" /\ stream[s] = NoMsg
  BY <1>1, <1>2 DEF Sound, LocksHeld, TextSeen, HoldsDst
<1>4. ctl'[s] = "idle" /\ seen'[s] = {}
  BY <1>1 DEF IInv, ThreadType
<1>5. Sound(s)'
  BY <1>1, <1>3, <1>4 DEF Sound, JobSeen, LocksHeld, TextSeen, Active, HoldsSrc, HoldsDst
<1>6. \A t \in Servers \ {s} : ctl'[t] = ctl[t] /\ job'[t] = job[t] /\ seen'[t] = seen[t]
  BY <1>1 DEF IInv, ThreadType
<1>7. /\ DOMAIN ctl' = Servers /\ DOMAIN job' = Servers /\ DOMAIN temp' = Servers
      /\ DOMAIN peer' = Servers /\ DOMAIN stream' = Servers /\ DOMAIN file_lock' = Files
      /\ seen' \in [Servers -> SUBSET Texts] /\ text' \in [Files -> Texts]
  BY <1>1 DEF IInv, ThreadType
<1>8. RequestType'
  BY <1>1 DEF IInv, RequestType
<1>9. \A f \in Files : file_lock'[f] = file_lock[f] \/ file_lock[f] \in {Free, Ctl(s)}
  BY <1>1, <1>3
<1> QED BY <1>1, <1>5, <1>6, <1>7, <1>8, <1>9, OneServer

-----------------------------------------------------------------------------
(* The other server, writers and failures *)

\* The other server finds the record, or answers with an error.
LEMMA PeerFindKeeps ==
    ASSUME IInv, NEW s \in Servers, PeerFind(s)
    PROVE  IInv'
<1>1. /\ peer[s] = "find"
      /\ \/ /\ stream' = [stream EXCEPT ![s] = [do |-> "error"]]
            /\ peer' = [peer EXCEPT ![s] = "none"]
         \/ peer' = [peer EXCEPT ![s] = "lock"] /\ stream' = stream
      /\ UNCHANGED <<text, file_lock, ctl, job, temp, up, pc, copy, toSS, copies, commits, seen>>
  BY DEF PeerFind, disk, handler, wire, bounds, history
<1>2. Sound(s)
  BY DEF IInv
<1>3. Source(s)' = Source(s) /\ (TwoLocks(s)' <=> TwoLocks(s)) /\ (Local(s)' <=> Local(s))
      /\ First(s)' = First(s)
  BY <1>1 DEF Source, TwoLocks, Local, First
<1>4. \/ stream'[s] = [do |-> "error"] /\ peer'[s] = "none"
      \/ stream'[s] = stream[s] /\ peer'[s] = "lock"
  BY <1>1 DEF IInv, ThreadType
<1>5. Sound(s)'
  <2>1. JobSeen(s)' /\ LocksHeld(s)'
    BY <1>1, <1>2, <1>3 DEF Sound, JobSeen, LocksHeld, Active
  <2>2. TextSeen(s)'
    BY <1>1, <1>2, <1>3, <1>4 DEF Sound, TextSeen
  <2> QED BY <2>1, <2>2 DEF Sound
<1>6. /\ DOMAIN peer' = Servers /\ DOMAIN stream' = Servers
      /\ \A t \in Servers \ {s} : peer'[t] = peer[t] /\ stream'[t] = stream[t]
  BY <1>1 DEF IInv, ThreadType
<1>7. /\ DOMAIN ctl' = Servers /\ DOMAIN job' = Servers /\ DOMAIN temp' = Servers
      /\ DOMAIN file_lock' = Files
  BY <1>1 DEF IInv, ThreadType
<1> QED BY <1>1, <1>5, <1>6, <1>7, OneQuietServer

\* It reads the source when nobody has its lock: the text is whole.
LEMMA PeerReadKeeps ==
    ASSUME IInv, NEW s \in Servers, PeerRead(s)
    PROVE  IInv'
<1>1. PICK x : x = text[job[s].src]
  OBVIOUS
<1>2. PICK m : m = [do |-> "content", text |-> x]
  OBVIOUS
<1>3. /\ peer[s] = "lock" /\ file_lock[job[s].src] = Free
      /\ stream' = [stream EXCEPT ![s] = m] /\ peer' = [peer EXCEPT ![s] = "none"]
      /\ UNCHANGED <<text, file_lock, ctl, job, temp, up, pc, copy, toSS, copies, commits, seen>>
  BY <1>1, <1>2 DEF PeerRead, disk, handler, wire, bounds, history
<1>4. Sound(s) /\ ctl[s] = "receive" /\ Active(s) /\ Source(s) \in up
  BY <1>3 DEF IInv, Sound, TextSeen, Active
<1>5. x \in seen[s]
  <2>1. job[s].src \in Files /\ x \in seen[s] \cup {Torn}
    BY <1>1, <1>4 DEF Sound, JobSeen, Job
  <2>2. x # Torn
    BY <1>1, <1>3, <1>4, <2>1, Holders DEF IInv, TornIsLocked, Source
  <2> QED BY <2>1, <2>2
<1>6. Source(s)' = Source(s) /\ (TwoLocks(s)' <=> TwoLocks(s)) /\ (Local(s)' <=> Local(s))
      /\ First(s)' = First(s)
  BY <1>3 DEF Source, TwoLocks, Local, First
<1>7. stream'[s].text = x /\ peer'[s] = "none"
  BY <1>2, <1>3 DEF IInv, ThreadType
<1>8. Sound(s)'
  <2>1. JobSeen(s)' /\ LocksHeld(s)'
    BY <1>3, <1>4, <1>6 DEF Sound, JobSeen, LocksHeld, Active
  <2>2. TextSeen(s)'
    BY <1>3, <1>4, <1>5, <1>7 DEF Sound, TextSeen
  <2> QED BY <2>1, <2>2 DEF Sound
<1>9. /\ DOMAIN peer' = Servers /\ DOMAIN stream' = Servers
      /\ \A t \in Servers \ {s} : peer'[t] = peer[t] /\ stream'[t] = stream[t]
  BY <1>3 DEF IInv, ThreadType
<1>10. /\ DOMAIN ctl' = Servers /\ DOMAIN job' = Servers /\ DOMAIN temp' = Servers
       /\ DOMAIN file_lock' = Files
  BY <1>3 DEF IInv, ThreadType
<1> QED BY <1>3, <1>8, <1>9, <1>10, OneQuietServer

\* A client's request, its session's end and the message about it change no file.
LEMMA SessionKeeps ==
    ASSUME IInv, NEW f \in Files, FindFile(f) \/ EnterFile(f) \/ Detach(f) \/ Sync(f)
    PROVE  IInv'
<1>1. /\ UNCHANGED <<text, file_lock, ctl, job, temp, peer, stream, up, seen>>
      /\ UNCHANGED <<pc, copy, toSS, copies>>
  BY DEF FindFile, EnterFile, Detach, Sync, disk, locks, server, handler, wire, bounds,
    history
<1>2. commits' \in 0..MaxCommits
  BY CopyAssumption DEF FindFile, EnterFile, Detach, Sync, bounds, IInv, ThreadType
<1>3. RequestType'
  BY <1>1 DEF IInv, RequestType
<1> QED BY <1>1, <1>2, <1>3, ServersSame DEF IInv

\* A commit tears the file under its lock.
LEMMA CommitOpenKeeps ==
    ASSUME IInv, NEW f \in Files, CommitOpen(f)
    PROVE  IInv'
<1>1. /\ file_lock[f] = Free /\ file_lock' = [file_lock EXCEPT ![f] = Writer(f)]
      /\ text' = [text EXCEPT ![f] = Torn]
      /\ UNCHANGED <<ctl, job, temp, peer, stream, up, pc, copy, toSS, copies, commits, seen>>
  BY DEF CommitOpen, server, handler, wire, bounds, history
<1>2. RequestType'
  BY <1>1 DEF IInv, RequestType
<1>3. ThreadType'
  BY <1>1, WholeTexts DEF IInv, ThreadType
<1>4. \A g \in Files : /\ text'[g] = IF g = f THEN Torn ELSE text[g]
                       /\ file_lock'[g] = IF g = f THEN Writer(f) ELSE file_lock[g]
  BY <1>1 DEF IInv, ThreadType
<1>5. TornIsLocked'
  BY <1>1, <1>4 DEF IInv, TornIsLocked
<1>6. ASSUME NEW s \in Servers PROVE Sound(s)'
  <2>1. Sound(s) /\ Torn \notin seen[s]
    BY DEF IInv, Sound, JobSeen
  <2>2. \A g \in Files : file_lock[g] = Ctl(s) => file_lock'[g] = Ctl(s)
    BY <1>1, <1>4, Holders
  <2>3. job[s] \in Job /\ text[job[s].src] \in seen[s] \cup {Torn}
            => text'[job[s].src] \in seen'[s] \cup {Torn}
    BY <1>1, <1>4 DEF Job
  <2> QED BY <1>1, <2>1, <2>2, <2>3, OthersSound
<1> QED BY <1>2, <1>3, <1>5, <1>6 DEF IInv

\* A commit writes the whole file; the jobs that copy it have seen the new text.
LEMMA CommitCloseKeeps ==
    ASSUME IInv, NEW f \in Files, CommitClose(f)
    PROVE  IInv'
<1>1. PICK x : x = <<f, commits>>
  OBVIOUS
<1>2. /\ file_lock[f] = Writer(f) /\ text' = [text EXCEPT ![f] = x]
      /\ file_lock' = [g \in Files |-> IF g \in {f} THEN Free ELSE file_lock[g]]
      /\ seen' = [t \in Servers |-> IF job[t].src = f THEN seen[t] \cup {x} ELSE seen[t]]
      /\ UNCHANGED <<ctl, job, temp, peer, stream, up, pc, copy, toSS, copies, commits>>
  BY <1>1 DEF CommitClose, Release, server, handler, wire, bounds
<1>3. x \in Texts /\ x # Torn
  BY <1>1, WholeTexts DEF IInv, ThreadType
<1>4. RequestType'
  BY <1>2 DEF IInv, RequestType
<1>5. ThreadType'
  BY <1>2, <1>3 DEF IInv, ThreadType
<1>6. \A g \in Files : /\ text'[g] = IF g = f THEN x ELSE text[g]
                       /\ file_lock'[g] = IF g = f THEN Free ELSE file_lock[g]
  BY <1>2 DEF IInv, ThreadType
<1>7. TornIsLocked'
  BY <1>2, <1>3, <1>6 DEF IInv, TornIsLocked
<1>8. ASSUME NEW s \in Servers PROVE Sound(s)'
  <2>1. Sound(s) /\ Torn \notin seen[s]
    BY DEF IInv, Sound, JobSeen
  <2>2. \A g \in Files : file_lock[g] = Ctl(s) => file_lock'[g] = Ctl(s)
    BY <1>2, <1>6, Holders
  <2>3. seen'[s] = IF job[s].src = f THEN seen[s] \cup {x} ELSE seen[s]
    BY <1>2
  <2>4. job[s] \in Job /\ text[job[s].src] \in seen[s] \cup {Torn}
            => text'[job[s].src] \in seen'[s] \cup {Torn}
    BY <1>6, <2>3 DEF Job
  <2>5. Torn \notin seen'[s] /\ seen[s] \subseteq seen'[s]
    BY <1>3, <2>1, <2>3
  <2> QED BY <1>2, <2>1, <2>2, <2>4, <2>5, OthersSound
<1> QED BY <1>4, <1>5, <1>7, <1>8 DEF IInv

\* A server that dies takes only its own locks with it; who reads from it gets an
\* error.
LEMMA KillKeeps ==
    ASSUME IInv, NEW s \in Servers, Kill(s)
    PROVE  IInv'
<1> DEFINE lost(t) == peer[t] # "none" /\ Source(t) = s
<1>1. /\ up' = up \ {s}
      /\ ctl' = [ctl EXCEPT ![s] = "dead"] /\ job' = [job EXCEPT ![s] = NoJob]
      /\ temp' = [temp EXCEPT ![s] = Torn] /\ seen' = [seen EXCEPT ![s] = {}]
      /\ toSS' = [toSS EXCEPT ![s] = <<>>]
      /\ UNCHANGED <<text, pc, copy, copies, commits>>
  BY DEF Kill, handler
<1>2. /\ peer' = [t \in Servers |-> IF t = s \/ lost(t) THEN "none" ELSE peer[t]]
      /\ stream' = [t \in Servers |-> IF t = s THEN NoMsg
                       ELSE IF lost(t) THEN [do |-> "error"] ELSE stream[t]]
      /\ file_lock' = [f \in Files |-> IF f \in {g \in Files : Home[g] = s}
                                       THEN Free ELSE file_lock[f]]
  BY DEF Kill, Release
<1>3. RequestType'
  BY <1>1 DEF IInv, RequestType
<1>4. ThreadType'
  <2>1. seen' \in [Servers -> SUBSET Texts]
    BY <1>1 DEF IInv, ThreadType
  <2> QED BY <1>1, <1>2, <2>1 DEF IInv, ThreadType
<1>5. TornIsLocked'
  BY <1>1, <1>2 DEF IInv, TornIsLocked
<1>6. Sound(s)'
  <2>1. /\ ctl'[s] = "dead" /\ seen'[s] = {} /\ peer'[s] = "none" /\ stream'[s] = NoMsg
    BY <1>1, <1>2 DEF IInv, ThreadType
  <2> QED BY <2>1 DEF Sound, JobSeen, LocksHeld, TextSeen, Active, HoldsSrc, HoldsDst
<1>7. ASSUME NEW t \in Servers, t # s PROVE Sound(t)'
  <2>1. /\ ctl'[t] = ctl[t] /\ job'[t] = job[t] /\ temp'[t] = temp[t] /\ seen'[t] = seen[t]
        /\ peer'[t] = IF lost(t) THEN "none" ELSE peer[t]
        /\ stream'[t] = IF lost(t) THEN [do |-> "error"] ELSE stream[t]
    BY <1>1, <1>2, <1>7 DEF IInv, ThreadType
  <2>2. Sound(t)
    BY DEF IInv
  <2>3. /\ TwoLocks(t)' <=> TwoLocks(t)
        /\ Local(t)' <=> Local(t)
        /\ First(t)' = First(t)
        /\ Source(t)' = Source(t)
    BY <2>1 DEF TwoLocks, Local, First, Source
  <2>4. JobSeen(t)'
    BY <1>1, <1>7, <2>1, <2>2 DEF Sound, JobSeen, Active
  <2>5. \A f \in Files : Home[f] = t => file_lock'[f] = file_lock[f]
    BY <1>2, <1>7
  <2>6. Active(t) => /\ job[t].dst \in Files /\ job[t].src \in Files /\ Home[job[t].dst] = t
                     /\ Local(t) => Home[job[t].src] = t
    BY <2>2 DEF Sound, JobSeen, Job, Local, Source
  <2>7. LocksHeld(t)'
    <3>1. ctl[t] = "second" => First(t) \in Files /\ Home[First(t)] = t
      BY <2>2, <2>6 DEF Sound, LocksHeld, First, TwoLocks, Active
    <3> QED BY <2>1, <2>2, <2>3, <2>5, <2>6, <3>1
            DEF Sound, LocksHeld, Active, HoldsSrc, HoldsDst
  <2>8. TextSeen(t)'
    <3>1. lost(t) => ctl[t] = "receive"
      BY <2>2 DEF Sound, TextSeen
    <3>2. peer'[t] # "none" => Source(t) \in up'
      BY <1>1, <2>1, <2>2 DEF Sound, TextSeen
    <3> QED BY <2>1, <2>2, <2>3, <3>1, <3>2 DEF Sound, TextSeen
  <2> QED BY <2>4, <2>7, <2>8 DEF Sound
<1> QED BY <1>3, <1>4, <1>5, <1>6, <1>7 DEF IInv

-----------------------------------------------------------------------------

\* At first no file is torn and no thread does anything.
LEMMA IInvInit == Init => IInv
<1> SUFFICES ASSUME Init PROVE IInv
  OBVIOUS
<1>1. ThreadType
  BY WholeTexts, CopyAssumption DEF Init, ThreadType
<1>2. RequestType
  BY DEF Init, RequestType
<1>3. TornIsLocked
  BY WholeTexts DEF Init, TornIsLocked
<1>4. ASSUME NEW s \in Servers PROVE Sound(s)
  BY DEF Init, Sound, JobSeen, LocksHeld, TextSeen, Active, HoldsSrc, HoldsDst
<1> QED BY <1>1, <1>2, <1>3, <1>4 DEF IInv

\* Every step keeps the invariant.
LEMMA IInvStep == IInv /\ [Next]_vars => IInv'
<1> SUFFICES ASSUME IInv, [Next]_vars PROVE IInv'
  OBVIOUS
<1>1. ASSUME NEW h \in Handlers, NEW c \in Copies, Copy(h, c) PROVE IInv'
  BY <1>1, CopyKeeps
<1>2. CASE NameServerStep
  BY <1>2, SendKeeps, AnswerKeeps DEF NameServerStep
<1>3. ASSUME NEW s \in Servers, ControlStep(s) PROVE IInv'
  BY <1>3, BeginKeeps, LockRecordKeeps, CheckKeeps, CloneKeeps, RequestKeeps, ReceiveKeeps,
     FinishKeeps, ReplyKeeps, FailKeeps DEF ControlStep
<1>4. ASSUME NEW s \in Servers, PeerStep(s) \/ Kill(s) PROVE IInv'
  BY <1>4, PeerFindKeeps, PeerReadKeeps, KillKeeps DEF PeerStep
<1>5. ASSUME NEW f \in Files, FindFile(f) \/ CommitOpen(f) \/ ClientStep(f) PROVE IInv'
  BY <1>5, SessionKeeps, CommitOpenKeeps, CommitCloseKeeps DEF ClientStep
<1>6. CASE UNCHANGED vars
  <2>1. /\ UNCHANGED <<text, file_lock, ctl, job, temp, peer, stream, up, seen>>
        /\ UNCHANGED <<pc, copy, toSS, copies, commits>>
    BY <1>6 DEF vars, disk, locks, server, handler, wire, bounds, history
  <2>2. RequestType' /\ commits' \in 0..MaxCommits
    BY <2>1 DEF IInv, RequestType, ThreadType
  <2> QED BY <2>1, <2>2, ServersSame DEF IInv
<1> QED BY <1>1, <1>2, <1>3, <1>4, <1>5, <1>6 DEF Next

\* What a COPY puts in place is a whole text that the source had at some moment
\* between the request and the rename (handle_ss_copy), for any number of servers,
\* files, COPYs, commits and deaths.
THEOREM CopyIsASnapshot == Spec => []CopiesASnapshot
<1>1. IInv => CopiesASnapshot
  BY DEF IInv, Sound, TextSeen, CopiesASnapshot
<1> QED BY IInvInit, IInvStep, <1>1, PTL DEF Spec

-----------------------------------------------------------------------------
(* The answer to COPY *)

Message ==
    [do : {"OK", "ERROR"}] \cup [do : {"WRITE_COMPLETE"}, file : Files, text : Texts]

\* What is sent to the name server, and who gets it.
AnswerType ==
    /\ DOMAIN result = Handlers /\ awaiting \in [Servers -> Handlers \cup {NoHandler}]
    /\ DOMAIN slot = Servers
    /\ toNS \in [Servers -> Seq(Message)]

\* The COPY with number n is still to be carried out by server s.
Carried(s, n) ==
    \/ \E i \in 1..Len(toSS[s]) : toSS[s][i].nr = n
    \/ Active(s) /\ job[s].nr = n

\* Commands under way have numbers of their own, none of them new.
Numbered ==
    /\ \A h, k \in Handlers :
          pc[h] # "idle" /\ pc[k] # "idle" /\ copy[h].nr = copy[k].nr => h = k
    /\ \A h \in Handlers : pc[h] # "idle" => copy[h].nr <= copies
    /\ \A n \in made : n \in Nat /\ n <= copies
    /\ \A s \in Servers : \A n : Carried(s, n) => n \in Nat /\ n <= copies

\* A handler whose turn it is waits, for the server of its destination.
Waits(s) ==
    awaiting[s] # NoHandler =>
        pc[awaiting[s]] = "wait" /\ slot[s] = NoMsg /\ Dest(awaiting[s]) = s

\* If nothing else was on its way, the first message that comes says whether the
\* copy has been made; as long as none has come, it has not, and its job is the
\* only one.
Alone(s) ==
    LET n == copy[awaiting[s]].nr
    IN  awaiting[s] # NoHandler /\ awaiting[s] \notin disturbed =>
          /\ \A t \in Servers \ {s} : ~Carried(t, n)
          /\ \/ /\ toNS[s] = <<>> /\ n \notin made
                /\ \/ toSS[s] = <<copy[awaiting[s]]>> /\ ctl[s] = "idle"
                   \/ toSS[s] = <<>> /\ Active(s) /\ job[s] = copy[awaiting[s]]
             \/ /\ toNS[s] # <<>> /\ (Head(toNS[s]).do # "ERROR" <=> n \in made)
                /\ toSS[s] = <<>> /\ ~Active(s)

\* Message m is the right answer to h, and stays right.
Right(m, h) ==
    m.do # "FAILED" => /\ m.do # "ERROR" <=> copy[h].nr \in made
                       /\ \A s \in Servers : ~Carried(s, copy[h].nr)

\* A command that has not been sent is nowhere; until its end it has no answer.
Unsent(h) ==
    /\ pc[h] # "return" => result[h] = NoMsg
    /\ pc[h] = "send" => /\ copy[h].nr \notin made
                         /\ \A s \in Servers : ~Carried(s, copy[h].nr)

\* What an undisturbed handler finds in the slot is its answer, and nobody else
\* waits for it.
Expects(h) ==
    pc[h] = "wait" /\ h \notin disturbed =>
        /\ \A k \in Handlers : pc[k] = "wait" /\ Dest(k) = Dest(h) => k = h
        /\ slot[Dest(h)] # NoMsg => Right(slot[Dest(h)], h)

Answered(h) == result[h] # NoMsg /\ h \notin disturbed => Right(result[h], h)

Mine(h) == Unsent(h) /\ Expects(h) /\ Answered(h)

\* The inductive invariant of the answers.
AnswerInv ==
    /\ AnswerType /\ Numbered
    /\ \A s \in Servers : Waits(s) /\ Alone(s)
    /\ \A h \in Handlers : Mine(h)

\* A step that leaves a handler's command, the slot it waits for and the fate of
\* its copy as they are.
LEMMA HandlerKept ==
    ASSUME NEW h \in Handlers, Mine(h),
           pc'[h] = pc[h], copy'[h] = copy[h], result'[h] = result[h],
           h \notin disturbed' => h \notin disturbed,
           pc[h] # "idle" =>
               \A r \in Servers : \A n : n = copy[h].nr /\ Carried(r, n)' => Carried(r, n),
           pc[h] # "idle" /\ (\A r \in Servers : ~Carried(r, copy[h].nr)) =>
               (copy[h].nr \in made' <=> copy[h].nr \in made),
           pc[h] = "wait" /\ h \notin disturbed' =>
               /\ \A k \in Handlers : pc'[k] = "wait" /\ Dest(k)' = Dest(h)
                                           => pc[k] = "wait" /\ Dest(k) = Dest(h)
               /\ slot'[Dest(h)] = slot[Dest(h)]
    PROVE  Mine(h)'
<1>1. Unsent(h) /\ Expects(h) /\ Answered(h)
  BY DEF Mine
<1>2. Dest(h)' = Dest(h)
  BY DEF Dest
<1>3. ASSUME NEW m, pc[h] # "idle", Right(m, h) PROVE Right(m, h)'
  <2>1. CASE m.do = "FAILED"
    BY <2>1 DEF Right
  <2>2. CASE m.do # "FAILED"
    <3>1. /\ m.do # "ERROR" <=> copy[h].nr \in made
          /\ \A r \in Servers : ~Carried(r, copy[h].nr)
      BY <1>3, <2>2 DEF Right
    <3>2. PICK n : n = copy[h].nr
      OBVIOUS
    <3>3. (n \in made' <=> n \in made) /\ \A r \in Servers : ~Carried(r, n)'
      BY <1>3, <3>1, <3>2
    <3> QED BY <3>1, <3>2, <3>3 DEF Right
  <2> QED BY <2>1, <2>2
<1>4. Unsent(h)'
  <2>1. PICK n : n = copy[h].nr
    OBVIOUS
  <2> QED BY <1>1, <2>1 DEF Unsent
<1>5. Expects(h)'
  <2> SUFFICES ASSUME pc[h] = "wait", h \notin disturbed' PROVE Expects(h)'
    BY DEF Expects
  <2>1. PICK x : x = slot[Dest(h)]
    OBVIOUS
  <2>2. /\ \A k \in Handlers : pc'[k] = "wait" /\ Dest(k)' = Dest(h) => k = h
        /\ x # NoMsg => Right(x, h)
    BY <1>1, <2>1 DEF Expects
  <2>3. x # NoMsg => Right(x, h)'
    BY <1>3, <2>2
  <2> QED BY <1>2, <2>1, <2>2, <2>3 DEF Expects
<1>6. Answered(h)'
  <2>1. PICK x : x = result[h]
    OBVIOUS
  <2> SUFFICES ASSUME x # NoMsg, h \notin disturbed' PROVE Answered(h)'
    BY <2>1 DEF Answered
  <2>2. pc[h] = "return" /\ Right(x, h)
    BY <1>1, <2>1 DEF Unsent, Answered
  <2>3. Right(x, h)'
    BY <1>3, <2>2
  <2> QED BY <2>1, <2>3 DEF Answered
<1> QED BY <1>4, <1>5, <1>6 DEF Mine

\* A step of server s, or for it, that at most carries out a COPY of its own and
\* leaves its waiting handler with the right message.
LEMMA OneAnswers ==
    ASSUME AnswerInv, NEW s \in Servers, AnswerType', Alone(s)',
           UNCHANGED <<pc, copy, copies, awaiting, slot, result>>,
           \A t \in Servers : \A n : Carried(t, n)' => Carried(t, n),
           made \subseteq made', \A n \in made' : n \in made \/ Carried(s, n),
           disturbed \subseteq disturbed',
           \A t \in Servers \ {s} :
               /\ toSS'[t] = toSS[t] /\ toNS'[t] = toNS[t] /\ job'[t] = job[t]
               /\ ctl'[t] = ctl[t]
    PROVE  AnswerInv'
<1>1. Numbered'
  <2>1. Numbered
    BY DEF AnswerInv
  <2> QED BY <2>1 DEF Numbered
<1>2. ASSUME NEW t \in Servers PROVE Waits(t)'
  <2>1. Waits(t)
    BY DEF AnswerInv
  <2> QED BY <2>1 DEF Waits, Dest
<1>3. ASSUME NEW t \in Servers, t # s PROVE Alone(t)'
  <2> SUFFICES ASSUME awaiting[t] # NoHandler, awaiting[t] \notin disturbed PROVE Alone(t)'
    BY DEF Alone
  <2>1. Alone(t)
    BY DEF AnswerInv
  <2>2. ~Carried(s, copy[awaiting[t]].nr)
    BY <1>3, <2>1 DEF Alone
  <2>3. copy[awaiting[t]].nr \in made' <=> copy[awaiting[t]].nr \in made
    BY <2>2
  <2>4. Active(t)' <=> Active(t)
    BY <1>3 DEF Active
  <2>5. \A r \in Servers : Carried(r, copy[awaiting[t]].nr)' => Carried(r, copy[awaiting[t]].nr)
    OBVIOUS
  <2> QED BY <1>3, <2>1, <2>3, <2>4, <2>5 DEF Alone
<1>4. ASSUME NEW h \in Handlers PROVE Mine(h)'
  <2>1. Mine(h)
    BY DEF AnswerInv
  <2>2. ~Carried(s, copy[h].nr) => (copy[h].nr \in made' <=> copy[h].nr \in made)
    OBVIOUS
  <2>3. \A k \in Handlers : Dest(k)' = Dest(k)
    BY DEF Dest
  <2> QED BY <2>1, <2>2, <2>3, HandlerKept
<1> QED BY <1>1, <1>2, <1>3, <1>4 DEF AnswerInv

\* Steps that concern no command at all.
LEMMA QuietAnswers ==
    ASSUME AnswerInv,
           UNCHANGED <<pc, copy, result, awaiting, slot, toSS, toNS, made, disturbed>>,
           UNCHANGED <<copies, job>>,
           \A s \in Servers : /\ Active(s)' <=> Active(s)
                              /\ ctl[s] = "idle" => ctl'[s] = "idle"
    PROVE  AnswerInv'
<1>1. AnswerType'
  BY DEF AnswerInv, AnswerType
<1>2. \A s \in Servers : \A n : Carried(s, n)' <=> Carried(s, n)
  BY DEF Carried
<1>3. Numbered'
  BY <1>2 DEF AnswerInv, Numbered
<1>4. ASSUME NEW t \in Servers PROVE Waits(t)' /\ Alone(t)'
  <2>1. Waits(t) /\ Alone(t)
    BY DEF AnswerInv
  <2>2. Waits(t)'
    BY <2>1 DEF Waits, Dest
  <2>3. \A r \in Servers : Carried(r, copy[awaiting[t]].nr)' <=> Carried(r, copy[awaiting[t]].nr)
    BY <1>2
  <2>4. Alone(t)'
    BY <2>1, <2>3 DEF Alone
  <2> QED BY <2>2, <2>4
<1>5. ASSUME NEW h \in Handlers PROVE Mine(h)'
  <2>1. Mine(h)
    BY DEF AnswerInv
  <2>2. \A k \in Handlers : Dest(k)' = Dest(k)
    BY DEF Dest
  <2> QED BY <1>2, <2>1, <2>2, HandlerKept
<1> QED BY <1>1, <1>3, <1>4, <1>5 DEF AnswerInv

\* A new command gets a number that is nowhere yet.
LEMMA CopyAnswers ==
    ASSUME IInv, AnswerInv, NEW g \in Handlers, NEW c \in Copies, Copy(g, c)
    PROVE  AnswerInv'
<1> DEFINE q == [src |-> c[1], dst |-> c[2], nr |-> copies + 1]
<1>1. copies \in Nat /\ DOMAIN copy = Handlers /\ pc \in [Handlers -> {"idle", "send", "wait", "return"}]
  BY DEF IInv, RequestType
<1>2. /\ pc[g] = "idle" /\ copies' = copies + 1 /\ pc' = [pc EXCEPT ![g] = "send"]
      /\ copy' = [copy EXCEPT ![g] = q]
      /\ UNCHANGED <<result, awaiting, slot, toSS, toNS, made, disturbed, job, ctl>>
  BY DEF Copy, wire, server, history
<1>3. q.nr = copies + 1
  OBVIOUS
<1> HIDE DEF q
<1>4. /\ pc'[g] = "send" /\ copy'[g] = q
      /\ \A h \in Handlers : h # g => pc'[h] = pc[h] /\ copy'[h] = copy[h]
  BY <1>1, <1>2
<1>5. \A s \in Servers : \A n : Carried(s, n)' <=> Carried(s, n)
  BY <1>2 DEF Carried, Active
<1>6. /\ Numbered
      /\ \A h \in Handlers : pc[h] # "idle" => copy[h] \in Job /\ copy[h].nr \in Nat
  BY DEF AnswerInv, IInv, RequestType, Job
<1>7. /\ q.nr \notin made
      /\ \A s \in Servers : ~Carried(s, q.nr)
      /\ \A h \in Handlers : pc[h] # "idle" => copy[h].nr # q.nr
  BY <1>1, <1>3, <1>6 DEF Numbered
<1>8. Numbered'
  <2>1. \A h, k \in Handlers :
          pc'[h] # "idle" /\ pc'[k] # "idle" /\ copy'[h].nr = copy'[k].nr => h = k
    BY <1>4, <1>6, <1>7 DEF Numbered
  <2>2. \A h \in Handlers : pc'[h] # "idle" => copy'[h].nr <= copies'
    BY <1>1, <1>2, <1>3, <1>4, <1>6 DEF Numbered
  <2>3. \A n \in made' : n \in Nat /\ n <= copies'
    <3>1. \A n \in made : n \in Nat /\ n <= copies
      BY <1>6 DEF Numbered
    <3> QED BY <3>1, <1>1, <1>2
  <2>4. \A s \in Servers : \A n : Carried(s, n)' => n \in Nat /\ n <= copies'
    <3>1. \A s \in Servers : \A n : Carried(s, n) => n \in Nat /\ n <= copies
      BY <1>6 DEF Numbered
    <3> QED BY <3>1, <1>1, <1>2, <1>5
  <2> QED BY <2>1, <2>2, <2>3, <2>4 DEF Numbered
<1>9. ASSUME NEW t \in Servers PROVE Waits(t)' /\ Alone(t)'
  <2>1. Waits(t) /\ Alone(t) /\ awaiting[t] \in Handlers \cup {NoHandler}
    BY DEF AnswerInv, AnswerType
  <2>2. awaiting[t] # NoHandler => /\ awaiting[t] # g /\ pc'[awaiting[t]] = pc[awaiting[t]]
                                   /\ copy'[awaiting[t]] = copy[awaiting[t]]
    BY <1>2, <1>4, <2>1 DEF Waits
  <2>3. Waits(t)'
    BY <1>2, <2>1, <2>2 DEF Waits, Dest
  <2>4. \A r \in Servers : Carried(r, copy[awaiting[t]].nr)' <=> Carried(r, copy'[awaiting'[t]].nr)
    BY <1>5
  <2>5. Alone(t)'
    BY <1>2, <2>1, <2>2, <2>4 DEF Alone, Active
  <2> QED BY <2>3, <2>5
<1>10. ASSUME NEW h \in Handlers PROVE Mine(h)'
  <2>1. Mine(h)
    BY DEF AnswerInv
  <2>2. CASE h = g
    <3>1. result[g] = NoMsg
      BY <1>2, <2>1, <2>2 DEF Mine, Unsent
    <3>2. Unsent(g)'
      BY <1>2, <1>4, <1>5, <1>7, <3>1 DEF Unsent
    <3>3. Expects(g)' /\ Answered(g)'
      BY <1>2, <1>4, <3>1 DEF Expects, Answered
    <3> QED BY <2>2, <3>2, <3>3 DEF Mine
  <2>3. CASE h # g
    <3>1. \A k \in Handlers : k # g => Dest(k)' = Dest(k)
      BY <1>4 DEF Dest
    <3>2. \A k \in Handlers : pc'[k] = "wait" => k # g /\ pc[k] = "wait"
      BY <1>4
    <3> QED BY <1>2, <1>4, <1>5, <2>1, <2>3, <3>1, <3>2, HandlerKept
  <2> QED BY <2>2, <2>3
<1>11. AnswerType'
  BY <1>2 DEF AnswerInv, AnswerType
<1> QED BY <1>8, <1>9, <1>10, <1>11 DEF AnswerInv

\* A command that is sent into an empty channel is the only one.
LEMMA SendAnswers ==
    ASSUME IInv, AnswerInv, NEW g \in Handlers, Send(g)
    PROVE  AnswerInv'
<1>1. PICK d : d = Dest(g)
  OBVIOUS
<1>2. /\ pc[g] = "send" /\ \E x \in {"wait", "return"} : pc' = [pc EXCEPT ![g] = x]
      /\ UNCHANGED <<copy, toNS, made, copies, job, ctl>>
  BY DEF Send, bounds, server
<1>3. /\ pc \in [Handlers -> {"idle", "send", "wait", "return"}] /\ copy[g] \in Job /\ d \in Servers
      /\ DOMAIN toSS = Servers /\ toSS[d] \in Seq(Job)
  <2>1. pc \in [Handlers -> {"idle", "send", "wait", "return"}] /\ copy[g] \in Job
    BY <1>2 DEF IInv, RequestType
  <2>2. d \in Servers
    BY <2>1, <1>1, CopyAssumption DEF Dest, Job
  <2>3. toSS[d] \in Seq({q \in Job : Home[q.dst] = d}) /\ DOMAIN toSS = Servers
    BY <2>2 DEF IInv, RequestType
  <2> QED BY <2>1, <2>2, <2>3
<1>4. pc'[g] # "idle" /\ \A h \in Handlers : h # g => pc'[h] = pc[h]
  BY <1>2, <1>3
<1>5. /\ result[g] = NoMsg /\ copy[g].nr \notin made /\ copy[g].nr \in Nat
      /\ \A s \in Servers : ~Carried(s, copy[g].nr)
  BY <1>2, <1>3 DEF AnswerInv, Mine, Unsent, Job
<1>6. /\ Numbered /\ AnswerType /\ NoHandler \notin Handlers
      /\ \A t \in Servers : Waits(t) /\ Alone(t)
      /\ \A h \in Handlers : Mine(h)
  BY CopyAssumption DEF AnswerInv
<1>7. CASE d \notin up
  <2>1. /\ result' = [result EXCEPT ![g] = [do |-> "FAILED"]]
        /\ pc' = [pc EXCEPT ![g] = "return"]
        /\ UNCHANGED <<awaiting, slot, toSS, disturbed>>
    BY <1>1, <1>7 DEF Send
  <2>2. \A s \in Servers : \A n : Carried(s, n)' <=> Carried(s, n)
    BY <1>2, <2>1 DEF Carried, Active
  <2>3. Numbered'
    BY <1>2, <1>4, <1>6, <2>2 DEF Numbered
  <2>4. ASSUME NEW t \in Servers PROVE Waits(t)' /\ Alone(t)'
    <3>1. awaiting[t] # NoHandler => awaiting[t] # g /\ awaiting[t] \in Handlers
      BY <1>2, <1>6 DEF Waits, AnswerType
    <3>2. Waits(t)'
      BY <1>2, <1>4, <1>6, <2>1, <3>1 DEF Waits, Dest, AnswerType
    <3>3. \A r \in Servers : Carried(r, copy[awaiting[t]].nr)' <=> Carried(r, copy[awaiting[t]].nr)
      BY <1>2, <2>1, <2>2
    <3>4. Alone(t)'
      BY <1>2, <1>6, <2>1, <3>3 DEF Alone, Active
    <3> QED BY <3>2, <3>4
  <2>5. ASSUME NEW h \in Handlers PROVE Mine(h)'
    <3>1. result'[g] = [do |-> "FAILED"] /\ pc'[g] = "return"
      BY <1>3, <1>6, <2>1 DEF AnswerType
    <3>2. CASE h = g
      BY <3>1, <3>2 DEF Mine, Unsent, Expects, Answered, Right
    <3>3. CASE h # g
      <4>1. \A k \in Handlers : Dest(k)' = Dest(k) /\ (pc'[k] = "wait" => pc[k] = "wait")
        BY <1>2, <1>4, <3>1 DEF Dest
      <4>2. pc'[h] = pc[h] /\ result'[h] = result[h]
        BY <1>4, <1>6, <2>1, <3>3 DEF AnswerType
      <4> QED BY <1>2, <1>6, <2>1, <2>2, <4>1, <4>2, HandlerKept
    <3> QED BY <3>2, <3>3
  <2>6. AnswerType'
    BY <1>2, <1>6, <2>1 DEF AnswerType
  <2> QED BY <2>3, <2>4, <2>5, <2>6 DEF AnswerInv
<1>8. CASE d \in up
  <2>1. /\ awaiting[d] = NoHandler /\ awaiting' = [awaiting EXCEPT ![d] = g]
        /\ toSS' = [toSS EXCEPT ![d] = Append(toSS[d], copy[g])]
        /\ disturbed' = IF toNS[d] = <<>> /\ ctl[d] = "idle" /\ toSS[d] = <<>>
                              /\ Waiting(d) = {}
                        THEN disturbed ELSE disturbed \cup {g} \cup Waiting(d)
        /\ result' = result /\ pc' = [pc EXCEPT ![g] = "wait"]
        /\ slot' = [slot EXCEPT ![d] = NoMsg]
    BY <1>1, <1>8 DEF Send
  <2>2. /\ awaiting'[d] = g /\ toSS'[d] = Append(toSS[d], copy[g])
        /\ slot'[d] = NoMsg /\ pc'[g] = "wait"
        /\ \A t \in Servers : t # d => /\ awaiting'[t] = awaiting[t] /\ toSS'[t] = toSS[t]
                                       /\ slot'[t] = slot[t]
    BY <1>3, <1>6, <2>1 DEF AnswerType
  <2>3. \A s \in Servers : \A n : Carried(s, n)' => Carried(s, n) \/ (s = d /\ n = copy[g].nr)
    <3>1. ASSUME NEW s \in Servers, NEW n, Carried(s, n)', s # d PROVE Carried(s, n)
      BY <1>2, <2>2, <3>1 DEF Carried, Active
    <3>2. ASSUME NEW n, Carried(d, n)', n # copy[g].nr PROVE Carried(d, n)
      <4>1. CASE Active(d)' /\ job'[d].nr = n
        BY <1>2, <4>1 DEF Carried, Active
      <4>2. CASE \E i \in 1..Len(toSS'[d]) : toSS'[d][i].nr = n
        <5>1. PICK i \in 1..Len(toSS'[d]) : toSS'[d][i].nr = n
          BY <4>2
        <5>2. /\ Len(toSS'[d]) = Len(toSS[d]) + 1 /\ Len(toSS[d]) \in Nat
              /\ i = Len(toSS[d]) + 1 => toSS'[d][i] = copy[g]
              /\ i # Len(toSS[d]) + 1 => i \in 1..Len(toSS[d]) /\ toSS'[d][i] = toSS[d][i]
          BY <1>3, <2>2, <5>1
        <5> QED BY <3>2, <5>1, <5>2 DEF Carried
      <4> QED BY <3>2, <4>1, <4>2 DEF Carried
    <3> QED BY <3>1, <3>2
  <2>4. Numbered'
    <3>1. copy[g].nr \in Nat /\ copy[g].nr <= copies
      BY <1>2, <1>5, <1>6 DEF Numbered
    <3>2. \A s \in Servers : \A n : Carried(s, n)' => n \in Nat /\ n <= copies
      BY <1>6, <2>3, <3>1 DEF Numbered
    <3> QED BY <1>2, <1>4, <1>6, <3>2 DEF Numbered
  <2>5. ASSUME NEW t \in Servers, t # d PROVE Waits(t)' /\ Alone(t)'
    <3>1. /\ awaiting[t] # NoHandler => /\ awaiting[t] # g /\ awaiting[t] \in Handlers
                                        /\ pc[awaiting[t]] = "wait"
          /\ awaiting'[t] = awaiting[t]
      BY <1>2, <1>6, <2>2, <2>5 DEF Waits, AnswerType
    <3>2. Waits(t)'
      BY <1>2, <1>4, <1>6, <2>1, <2>2, <2>5, <3>1 DEF Waits, Dest
    <3>3. awaiting[t] # NoHandler => copy[awaiting[t]].nr # copy[g].nr
      BY <1>2, <1>6, <3>1 DEF Numbered
    <3>4. awaiting[t] # NoHandler =>
            \A r \in Servers : Carried(r, copy[awaiting[t]].nr)' => Carried(r, copy[awaiting[t]].nr)
      BY <1>2, <2>3, <3>1, <3>3
    <3>5. awaiting[t] # NoHandler /\ awaiting[t] \notin disturbed' => awaiting[t] \notin disturbed
      BY <2>1
    <3>6. Alone(t)'
      BY <1>2, <1>6, <2>2, <2>5, <3>1, <3>4, <3>5 DEF Alone, Active
    <3> QED BY <3>2, <3>6
  <2>6. Waits(d)'
    BY <1>1, <1>2, <2>2 DEF Waits, Dest
  <2>7. Alone(d)'
    <3> SUFFICES ASSUME g \notin disturbed' PROVE Alone(d)'
      BY <2>2 DEF Alone
    <3>1. toNS[d] = <<>> /\ ctl[d] = "idle" /\ toSS[d] = <<>>
      BY <2>1
    <3>2. toSS'[d] = <<copy[g]>>
      BY <2>2, <3>1
    <3>3. \A t \in Servers \ {d} : ~Carried(t, copy[g].nr)'
      BY <1>2, <1>5, <2>3
    <3> QED BY <1>2, <1>5, <2>2, <3>1, <3>2, <3>3 DEF Alone
  <2>8. ASSUME NEW h \in Handlers PROVE Mine(h)'
    <3>1. \A k \in Handlers : Dest(k)' = Dest(k)
      BY <1>2 DEF Dest
    <3>2. CASE h = g
      <4>1. Unsent(g)' /\ Answered(g)'
        BY <1>5, <2>1, <2>2 DEF Unsent, Answered
      <4>2. g \notin disturbed' => Waiting(d) = {}
        BY <2>1
      <4>3. g \notin disturbed' =>
              \A k \in Handlers : pc'[k] = "wait" /\ Dest(k)' = Dest(g)' => k = g
        BY <1>1, <1>4, <3>1, <4>2 DEF Waiting
      <4>4. Expects(g)'
        BY <1>1, <2>2, <3>1, <4>3 DEF Expects
      <4> QED BY <3>2, <4>1, <4>4 DEF Mine
    <3>3. CASE h # g
      <4>1. pc[h] # "idle" => copy[h].nr # copy[g].nr
        BY <1>2, <1>6, <3>3 DEF Numbered
      <4>2. pc[h] # "idle" =>
              \A r \in Servers : \A n : n = copy[h].nr /\ Carried(r, n)' => Carried(r, n)
        BY <2>3, <4>1
      <4>3. h \notin disturbed' => h \notin disturbed
        BY <2>1
      <4>4. pc[h] = "wait" /\ h \notin disturbed' => Dest(h) # d
        BY <2>1 DEF Waiting
      <4>5. pc[h] = "wait" /\ h \notin disturbed' =>
              /\ \A k \in Handlers : pc'[k] = "wait" /\ Dest(k)' = Dest(h)
                                          => pc[k] = "wait" /\ Dest(k) = Dest(h)
              /\ slot'[Dest(h)] = slot[Dest(h)]
        <5>1. slot' = [slot EXCEPT ![d] = NoMsg]
          BY <2>1
        <5> QED BY <1>1, <1>4, <3>1, <4>4, <5>1
      <4> QED BY <1>2, <1>4, <1>6, <2>1, <3>3, <4>2, <4>3, <4>5, HandlerKept
    <3> QED BY <3>2, <3>3
  <2>9. AnswerType'
    BY <1>2, <1>6, <2>1 DEF AnswerType
  <2> QED BY <2>4, <2>5, <2>6, <2>7, <2>8, <2>9 DEF AnswerInv
<1> QED BY <1>7, <1>8

\* The first message is put in the slot, or changes what the name server knows.
LEMMA DeliverAnswers ==
    ASSUME IInv, AnswerInv, NEW s \in Servers, Deliver(s)
    PROVE  AnswerInv'
<1>1. PICK m : m = Head(toNS[s])
  OBVIOUS
<1>2. /\ toNS[s] # <<>> /\ toNS' = [toNS EXCEPT ![s] = Tail(toNS[s])]
      /\ UNCHANGED <<pc, copy, result, toSS, copies, made, disturbed, job, ctl>>
  BY DEF Deliver, handler, bounds, server, history
<1>3. /\ Numbered /\ AnswerType /\ NoHandler \notin Handlers
      /\ \A t \in Servers : Waits(t) /\ Alone(t)
      /\ \A h \in Handlers : Mine(h)
  BY CopyAssumption DEF AnswerInv
<1>4. /\ toNS' \in [Servers -> Seq(Message)]
      /\ \A t \in Servers : t # s => toNS'[t] = toNS[t]
  <2>1. Tail(toNS[s]) \in Seq(Message)
    BY <1>2, <1>3 DEF AnswerType
  <2> QED BY <1>2, <1>3, <2>1 DEF AnswerType
<1>5. \A t \in Servers : \A n : Carried(t, n)' <=> Carried(t, n)
  BY <1>2 DEF Carried, Active
<1>6. Numbered'
  BY <1>2, <1>3, <1>5 DEF Numbered
<1>7. CASE awaiting[s] = NoHandler
  <2>1. UNCHANGED <<slot, awaiting>>
    BY <1>7 DEF Deliver
  <2>2. ASSUME NEW t \in Servers PROVE Waits(t)' /\ Alone(t)'
    <3>1. Waits(t)'
      BY <1>2, <1>3, <2>1 DEF Waits, Dest
    <3>2. \A r \in Servers : Carried(r, copy[awaiting[t]].nr)' <=> Carried(r, copy[awaiting[t]].nr)
      BY <1>2, <1>5, <2>1
    <3>3. Alone(t)'
      BY <1>2, <1>3, <1>4, <1>7, <2>1, <3>2 DEF Alone, Active
    <3> QED BY <3>1, <3>3
  <2>3. ASSUME NEW h \in Handlers PROVE Mine(h)'
    <3>1. \A k \in Handlers : Dest(k)' = Dest(k)
      BY <1>2 DEF Dest
    <3> QED BY <1>2, <1>3, <1>5, <2>1, <3>1, HandlerKept
  <2>4. AnswerType'
    BY <1>2, <1>3, <1>4, <2>1 DEF AnswerType
  <2> QED BY <1>6, <2>2, <2>3, <2>4 DEF AnswerInv
<1>8. CASE awaiting[s] # NoHandler
  <2>1. PICK g \in Handlers : g = awaiting[s]
    BY <1>3, <1>8 DEF AnswerType
  <2>2. /\ slot' = [slot EXCEPT ![s] = m]
        /\ awaiting' = [awaiting EXCEPT ![s] = NoHandler]
    <3>1. slot[s] = NoMsg
      BY <1>3, <1>8 DEF Waits
    <3> QED BY <1>1, <1>8, <3>1 DEF Deliver
  <2>3. /\ slot'[s] = m /\ awaiting'[s] = NoHandler
        /\ \A t \in Servers : t # s => awaiting'[t] = awaiting[t] /\ slot'[t] = slot[t]
        /\ pc[g] = "wait" /\ Dest(g) = s
    BY <1>3, <1>8, <2>1, <2>2 DEF AnswerType, Waits
  <2>4. ASSUME NEW t \in Servers PROVE Waits(t)' /\ Alone(t)'
    <3>1. CASE t = s
      BY <2>3, <3>1 DEF Waits, Alone
    <3>2. CASE t # s
      <4>1. /\ awaiting'[t] = awaiting[t]
            /\ awaiting[t] # NoHandler => awaiting[t] \in Handlers /\ awaiting[t] # g
        BY <1>3, <2>3, <3>2 DEF Waits, AnswerType
      <4>2. Waits(t)'
        BY <1>2, <1>3, <2>3, <3>2, <4>1 DEF Waits, Dest
      <4>3. \A r \in Servers : Carried(r, copy[awaiting[t]].nr)' <=> Carried(r, copy[awaiting[t]].nr)
        BY <1>2, <1>5, <4>1
      <4>4. Alone(t)'
        BY <1>2, <1>3, <1>4, <3>2, <4>1, <4>3 DEF Alone, Active
      <4> QED BY <4>2, <4>4
    <3> QED BY <3>1, <3>2
  <2>5. ASSUME NEW h \in Handlers PROVE Mine(h)'
    <3>1. \A k \in Handlers : Dest(k)' = Dest(k)
      BY <1>2 DEF Dest
    <3>2. CASE pc[h] = "wait" /\ h \notin disturbed /\ Dest(h) = s
      <4>1. h = g
        BY <1>3, <2>3, <3>2 DEF Mine, Expects
      <4>2. /\ m.do # "ERROR" <=> copy[g].nr \in made
            /\ \A t \in Servers \ {s} : ~Carried(t, copy[g].nr)
            /\ toSS[s] = <<>> /\ ~Active(s)
        BY <1>1, <1>2, <1>3, <1>8, <2>1, <3>2, <4>1 DEF Alone
      <4>3. \A t \in Servers : ~Carried(t, copy[g].nr)
        BY <4>2 DEF Carried
      <4>4. Right(m, g)'
        BY <1>2, <1>5, <4>2, <4>3 DEF Right
      <4>5. Expects(g)'
        BY <1>2, <1>3, <2>3, <3>1, <3>2, <4>1, <4>4 DEF Mine, Expects
      <4>6. Unsent(g)' /\ Answered(g)'
        BY <1>2, <1>3, <2>3 DEF Mine, Unsent, Answered
      <4> QED BY <4>1, <4>5, <4>6 DEF Mine
    <3>3. CASE ~(pc[h] = "wait" /\ h \notin disturbed /\ Dest(h) = s)
      <4>1. pc[h] = "wait" /\ h \notin disturbed' => slot'[Dest(h)] = slot[Dest(h)]
        BY <1>2, <2>2, <3>3
      <4> QED BY <1>2, <1>3, <1>5, <3>1, <4>1, HandlerKept
    <3> QED BY <3>2, <3>3
  <2>6. AnswerType'
    BY <1>2, <1>3, <1>4, <2>2 DEF AnswerType
  <2> QED BY <1>6, <2>4, <2>5, <2>6 DEF AnswerInv
<1> QED BY <1>7, <1>8

\* Who waits undisturbed takes its own answer.
LEMMA TakeAnswers ==
    ASSUME IInv, AnswerInv, NEW g \in Handlers, Take(g)
    PROVE  AnswerInv'
<1>1. PICK s : s = Dest(g)
  OBVIOUS
<1>2. PICK m : m = slot[s]
  OBVIOUS
<1>3. /\ pc[g] = "wait" /\ m # NoMsg /\ result' = [result EXCEPT ![g] = m]
      /\ slot' = [slot EXCEPT ![s] = NoMsg] /\ awaiting' = [awaiting EXCEPT ![s] = NoHandler]
      /\ pc' = [pc EXCEPT ![g] = "return"]
      /\ UNCHANGED <<copy, toSS, toNS, copies, made, disturbed, job, ctl>>
  BY <1>1, <1>2 DEF Take, bounds, server, history
<1>4. /\ Numbered /\ AnswerType /\ NoHandler \notin Handlers
      /\ \A t \in Servers : Waits(t) /\ Alone(t)
      /\ \A h \in Handlers : Mine(h)
  BY CopyAssumption DEF AnswerInv
<1>5. s \in Servers /\ DOMAIN pc = Handlers
  BY <1>1, <1>3, CopyAssumption DEF Dest, IInv, RequestType, Job
<1>6. /\ pc'[g] = "return" /\ result'[g] = m /\ slot'[s] = NoMsg /\ awaiting'[s] = NoHandler
      /\ \A h \in Handlers : h # g => pc'[h] = pc[h] /\ result'[h] = result[h]
      /\ \A t \in Servers : t # s => awaiting'[t] = awaiting[t] /\ slot'[t] = slot[t]
  BY <1>3, <1>4, <1>5 DEF AnswerType
<1>7. \A t \in Servers : \A n : Carried(t, n)' <=> Carried(t, n)
  BY <1>3 DEF Carried, Active
<1>8. \A k \in Handlers : Dest(k)' = Dest(k) /\ (pc'[k] = "wait" => pc[k] = "wait")
  BY <1>3, <1>6 DEF Dest
<1>9. Numbered'
  BY <1>3, <1>4, <1>6, <1>7 DEF Numbered
<1>10. ASSUME NEW t \in Servers PROVE Waits(t)' /\ Alone(t)'
  <2>1. CASE t = s
    BY <1>6, <2>1 DEF Waits, Alone
  <2>2. CASE t # s
    <3>1. /\ awaiting'[t] = awaiting[t] /\ slot'[t] = slot[t]
          /\ awaiting[t] # NoHandler => awaiting[t] \in Handlers /\ awaiting[t] # g
      BY <1>1, <1>4, <1>6, <2>2 DEF Waits, AnswerType
    <3>2. Waits(t)'
      BY <1>3, <1>4, <1>6, <3>1 DEF Waits, Dest
    <3>3. \A r \in Servers : Carried(r, copy[awaiting[t]].nr)' <=> Carried(r, copy[awaiting[t]].nr)
      BY <1>3, <1>7, <3>1
    <3>4. Alone(t)'
      BY <1>3, <1>4, <3>1, <3>3 DEF Alone, Active
    <3> QED BY <3>2, <3>4
  <2> QED BY <2>1, <2>2
<1>11. ASSUME NEW h \in Handlers PROVE Mine(h)'
  <2>1. CASE h = g
    <3>1. Unsent(g)' /\ Expects(g)'
      BY <1>6 DEF Unsent, Expects
    <3>2. g \notin disturbed => Right(m, g)
      BY <1>1, <1>2, <1>3, <1>4 DEF Mine, Expects
    <3>3. Right(m, g) => Right(m, g)'
      BY <1>3, <1>7 DEF Right
    <3>4. Answered(g)'
      BY <1>3, <1>6, <3>2, <3>3 DEF Answered
    <3> QED BY <2>1, <3>1, <3>4 DEF Mine
  <2>2. CASE h # g
    <3>1. pc[h] = "wait" /\ h \notin disturbed => Dest(h) # s
      BY <1>1, <1>3, <1>4, <2>2 DEF Mine, Expects
    <3>2. pc[h] = "wait" /\ h \notin disturbed => slot'[Dest(h)] = slot[Dest(h)]
      BY <1>3, <3>1
    <3> QED BY <1>3, <1>4, <1>6, <1>7, <1>8, <2>2, <3>2, HandlerKept
  <2> QED BY <2>1, <2>2
<1>12. AnswerType'
  BY <1>3, <1>4 DEF AnswerType
<1> QED BY <1>9, <1>10, <1>11, <1>12 DEF AnswerInv

\* The end of a command forgets its number.
LEMMA EndAnswers ==
    ASSUME IInv, AnswerInv, NEW g \in Handlers, End(g)
    PROVE  AnswerInv'
<1>1. /\ pc[g] = "return" /\ pc' = [pc EXCEPT ![g] = "idle"]
      /\ copy' = [copy EXCEPT ![g] = NoJob] /\ result' = [result EXCEPT ![g] = NoMsg]
      /\ disturbed' = disturbed \ {g} /\ made' = made \ {copy[g].nr}
      /\ UNCHANGED <<awaiting, slot, toSS, toNS, copies, job, ctl>>
  BY DEF End, wire, bounds, server
<1>2. /\ Numbered /\ AnswerType /\ NoHandler \notin Handlers
      /\ \A t \in Servers : Waits(t) /\ Alone(t)
      /\ \A h \in Handlers : Mine(h)
  BY CopyAssumption DEF AnswerInv
<1>3. /\ pc'[g] = "idle" /\ result'[g] = NoMsg
      /\ \A h \in Handlers : h # g => /\ pc'[h] = pc[h] /\ copy'[h] = copy[h]
                                      /\ result'[h] = result[h]
                                      /\ h \in disturbed' <=> h \in disturbed
  BY <1>1, <1>2 DEF AnswerType, IInv, RequestType
<1>4. \A t \in Servers : \A n : Carried(t, n)' <=> Carried(t, n)
  BY <1>1 DEF Carried, Active
<1>5. \A h \in Handlers : h # g /\ pc[h] # "idle" =>
        (copy[h].nr \in made' <=> copy[h].nr \in made)
  BY <1>1, <1>2 DEF Numbered
<1>6. Numbered'
  BY <1>1, <1>2, <1>3, <1>4 DEF Numbered
<1>7. ASSUME NEW t \in Servers PROVE Waits(t)' /\ Alone(t)'
  <2>1. /\ awaiting'[t] = awaiting[t]
        /\ awaiting[t] # NoHandler => /\ awaiting[t] \in Handlers /\ awaiting[t] # g
                                      /\ pc[awaiting[t]] = "wait"
    BY <1>1, <1>2 DEF Waits, AnswerType
  <2>2. Waits(t)'
    BY <1>1, <1>2, <1>3, <2>1 DEF Waits, Dest
  <2>3. awaiting[t] # NoHandler =>
          \A r \in Servers : Carried(r, copy[awaiting[t]].nr)' <=> Carried(r, copy[awaiting[t]].nr)
    BY <1>3, <1>4, <2>1
  <2>4. awaiting[t] # NoHandler =>
          (copy[awaiting[t]].nr \in made' <=> copy[awaiting[t]].nr \in made)
    BY <1>5, <2>1
  <2>5. Alone(t)'
    <3> SUFFICES ASSUME awaiting[t] # NoHandler, awaiting[t] \notin disturbed PROVE Alone(t)'
      BY <1>3, <2>1 DEF Alone
    <3>1. copy'[awaiting'[t]] = copy[awaiting[t]]
      BY <1>3, <2>1
    <3>2. Alone(t)
      BY <1>2
    <3> QED BY <1>1, <2>1, <2>3, <2>4, <3>1, <3>2 DEF Alone, Active
  <2> QED BY <2>2, <2>5
<1>8. ASSUME NEW h \in Handlers PROVE Mine(h)'
  <2>1. CASE h = g
    BY <1>3, <2>1 DEF Mine, Unsent, Expects, Answered
  <2>2. CASE h # g
    <3>1. \A k \in Handlers : k # g => Dest(k)' = Dest(k)
      BY <1>3 DEF Dest
    <3>2. \A k \in Handlers : pc'[k] = "wait" => k # g /\ pc[k] = "wait"
      BY <1>3
    <3> QED BY <1>1, <1>2, <1>3, <1>4, <1>5, <2>2, <3>1, <3>2, HandlerKept
  <2> QED BY <2>1, <2>2
<1>9. AnswerType'
  BY <1>1, <1>2 DEF AnswerType
<1> QED BY <1>6, <1>7, <1>8, <1>9 DEF AnswerInv

\* The job is taken from the queue.
LEMMA BeginAnswers ==
    ASSUME IInv, AnswerInv, NEW s \in Servers, Begin(s)
    PROVE  AnswerInv'
<1>1. PICK q : q = Head(toSS[s])
  OBVIOUS
<1>2. toSS[s] \in Seq(Job) /\ DOMAIN toSS = Servers /\ DOMAIN job = Servers /\ DOMAIN ctl = Servers
  <2>1. toSS[s] \in Seq({x \in Job : Home[x.dst] = s})
    BY DEF IInv, RequestType
  <2> QED BY <2>1 DEF IInv, RequestType, ThreadType
<1>3. /\ ctl[s] = "idle" /\ toSS[s] # <<>>
      /\ job' = [job EXCEPT ![s] = q] /\ ctl' = [ctl EXCEPT ![s] = "first"]
      /\ toSS' = [toSS EXCEPT ![s] = Tail(toSS[s])]
      /\ UNCHANGED <<pc, copy, copies, awaiting, slot, result, toNS, made, disturbed>>
  BY <1>1 DEF Begin, handler, bounds
<1>4. /\ job'[s] = q /\ ctl'[s] = "first" /\ toSS'[s] = Tail(toSS[s])
      /\ \A t \in Servers \ {s} : toSS'[t] = toSS[t] /\ job'[t] = job[t] /\ ctl'[t] = ctl[t]
  BY <1>2, <1>3
<1>5. \A t \in Servers : \A n : Carried(t, n)' => Carried(t, n)
  <2>1. ASSUME NEW t \in Servers, t # s, NEW n, Carried(t, n)' PROVE Carried(t, n)
    BY <1>4, <2>1 DEF Carried, Active
  <2>2. ASSUME NEW n, Carried(s, n)' PROVE Carried(s, n)
    <3>1. CASE q.nr = n
      <4>1. 1 \in 1..Len(toSS[s]) /\ toSS[s][1] = q
        BY <1>1, <1>2, <1>3
      <4> QED BY <3>1, <4>1 DEF Carried
    <3>2. CASE \E i \in 1..Len(toSS'[s]) : toSS'[s][i].nr = n
      <4>1. PICK i \in 1..Len(toSS'[s]) : toSS'[s][i].nr = n
        BY <3>2
      <4>2. i + 1 \in 1..Len(toSS[s]) /\ toSS[s][i + 1] = toSS'[s][i]
        BY <1>2, <1>3, <1>4
      <4> QED BY <4>1, <4>2 DEF Carried
    <3> QED BY <1>4, <2>2, <3>1, <3>2 DEF Carried
  <2> QED BY <2>1, <2>2
<1>6. Alone(s)'
  <2> SUFFICES ASSUME awaiting[s] # NoHandler, awaiting[s] \notin disturbed PROVE Alone(s)'
    BY <1>3 DEF Alone
  <2>1. Alone(s)
    BY DEF AnswerInv
  <2>2. /\ \A t \in Servers \ {s} : ~Carried(t, copy[awaiting[s]].nr)
        /\ toNS[s] = <<>> /\ copy[awaiting[s]].nr \notin made
        /\ toSS[s] = <<copy[awaiting[s]]>>
    BY <1>3, <2>1 DEF Alone, Active
  <2>3. q = copy[awaiting[s]] /\ Tail(toSS[s]) = <<>>
    BY <1>1, <2>2
  <2>4. Active(s)'
    BY <1>4 DEF Active
  <2>5. \A t \in Servers \ {s} : ~Carried(t, copy[awaiting[s]].nr)'
    BY <1>3, <1>5, <2>2
  <2> QED BY <1>3, <1>4, <2>2, <2>3, <2>4, <2>5 DEF Alone
<1>7. AnswerType'
  BY <1>3 DEF AnswerInv, AnswerType
<1> QED BY <1>3, <1>4, <1>5, <1>6, <1>7, OneAnswers

\* While the control thread works, nothing of it reaches the name server.
LEMMA WorkAnswers ==
    ASSUME IInv, AnswerInv, NEW s \in Servers,
           LockRecord(s) \/ Check(s) \/ Clone(s) \/ Request(s) \/ Receive(s)
    PROVE  AnswerInv'
<1>1. /\ UNCHANGED <<pc, copy, result, awaiting, slot, toSS, toNS, made, disturbed>>
      /\ UNCHANGED <<copies, job>>
      /\ Active(s) /\ \E x \in {"second", "check", "failed", "clone", "request", "receive", "finish"} :
                         ctl' = [ctl EXCEPT ![s] = x]
  BY DEF LockRecord, Check, Clone, Request, Receive, handler, wire, bounds, history, Active
<1>2. DOMAIN ctl = Servers
  BY DEF IInv, ThreadType
<1>3. \A t \in Servers : /\ Active(t)' <=> Active(t)
                         /\ ctl[t] = "idle" => ctl'[t] = "idle"
  BY <1>1, <1>2 DEF Active
<1> QED BY <1>1, <1>3, QuietAnswers

\* What a server appends to its connection.
LEMMA PushType ==
    ASSUME AnswerInv, NEW s \in Servers, NEW m \in Message, Push(s, m)
    PROVE  /\ toNS' \in [Servers -> Seq(Message)]
           /\ toNS'[s] # <<>>
           /\ Head(toNS'[s]) = IF toNS[s] = <<>> THEN m ELSE Head(toNS[s])
           /\ \A t \in Servers \ {s} : toNS'[t] = toNS[t]
<1>1. toNS \in [Servers -> Seq(Message)] /\ toNS' = [toNS EXCEPT ![s] = Append(toNS[s], m)]
  BY DEF AnswerInv, AnswerType, Push
<1>2. PICK q \in Seq(Message) : q = toNS[s]
  BY <1>1
<1>3. /\ Append(q, m) \in Seq(Message) /\ Append(q, m) # <<>>
      /\ Head(Append(q, m)) = IF q = <<>> THEN m ELSE Head(q)
  <2>1. Append(q, m) \in Seq(Message) /\ Len(Append(q, m)) = Len(q) + 1 /\ Len(q) \in Nat
    OBVIOUS
  <2>2. PICK u \in Seq(Message) : u = Append(q, m)
    BY <2>1
  <2>3. u # <<>> /\ Head(u) = u[1]
    BY <2>1, <2>2
  <2>4. q = <<>> => u[1] = m
    BY <2>2
  <2>5. q # <<>> => u[1] = q[1] /\ Head(q) = q[1]
    BY <2>2
  <2> QED BY <2>1, <2>2, <2>3, <2>4, <2>5
<1> QED BY <1>1, <1>2, <1>3

\* The copy is in place before the first message about it is sent.
LEMMA FinishAnswers ==
    ASSUME IInv, AnswerInv, NEW s \in Servers, Finish(s)
    PROVE  AnswerInv'
<1>1. PICK m : m = [do |-> "WRITE_COMPLETE", file |-> job[s].dst, text |-> temp[s]]
  OBVIOUS
<1>2. /\ ctl[s] = "finish" /\ Push(s, m) /\ ctl' = [ctl EXCEPT ![s] = "reply"]
      /\ job' = [job EXCEPT ![s] = NoJob]
      /\ made' = IF \E h \in Handlers : copy[h].nr = job[s].nr
                 THEN made \cup {job[s].nr} ELSE made
      /\ UNCHANGED <<pc, copy, result, awaiting, slot, toSS, copies, disturbed>>
  BY <1>1 DEF Finish, handler, bounds
<1>3. /\ Active(s) /\ job[s] \in Job /\ temp[s] \in Texts
      /\ DOMAIN job = Servers /\ DOMAIN ctl = Servers
  <2>1. Active(s) /\ Sound(s) /\ ThreadType
    BY <1>2 DEF Active, IInv
  <2> QED BY <1>2, <2>1 DEF Sound, JobSeen, TextSeen, ThreadType
<1>4. m \in Message /\ m.do = "WRITE_COMPLETE"
  BY <1>1, <1>3 DEF Message, Job
<1>5. /\ toNS' \in [Servers -> Seq(Message)] /\ toNS'[s] # <<>>
      /\ Head(toNS'[s]) = IF toNS[s] = <<>> THEN m ELSE Head(toNS[s])
      /\ \A t \in Servers \ {s} : toNS'[t] = toNS[t]
  BY <1>2, <1>4, PushType
<1>6. /\ ctl'[s] = "reply" /\ ~Active(s)'
      /\ \A t \in Servers \ {s} : job'[t] = job[t] /\ ctl'[t] = ctl[t]
  BY <1>2, <1>3 DEF Active
<1>7. \A t \in Servers : \A n : Carried(t, n)' => Carried(t, n)
  BY <1>2, <1>6 DEF Carried, Active
<1>8. Carried(s, job[s].nr)
  BY <1>3 DEF Carried
<1>9. Alone(s)'
  <2> SUFFICES ASSUME awaiting[s] # NoHandler, awaiting[s] \notin disturbed PROVE Alone(s)'
    BY <1>2 DEF Alone
  <2>1. Alone(s) /\ awaiting[s] \in Handlers
    BY DEF AnswerInv, AnswerType
  <2>2. /\ \A t \in Servers \ {s} : ~Carried(t, copy[awaiting[s]].nr)
        /\ toNS[s] = <<>> /\ toSS[s] = <<>> /\ job[s] = copy[awaiting[s]]
    BY <1>2, <1>3, <2>1 DEF Alone
  <2>3. copy[awaiting[s]].nr \in made'
    BY <1>2, <2>1, <2>2
  <2>4. \A t \in Servers \ {s} : ~Carried(t, copy[awaiting[s]].nr)'
    BY <1>2, <1>7, <2>2
  <2> QED BY <1>2, <1>4, <1>5, <1>6, <2>2, <2>3, <2>4 DEF Alone
<1>10. AnswerType'
  BY <1>2, <1>5 DEF AnswerInv, AnswerType
<1>11. made \subseteq made' /\ \A n \in made' : n \in made \/ Carried(s, n)
  BY <1>2, <1>8
<1>12. \A t \in Servers \ {s} : toSS'[t] = toSS[t]
  BY <1>2
<1> QED BY <1>2, <1>5, <1>6, <1>7, <1>9, <1>10, <1>11, <1>12, OneAnswers

\* The OK comes after it, and is not the first.
LEMMA ReplyAnswers ==
    ASSUME IInv, AnswerInv, NEW s \in Servers, Reply(s)
    PROVE  AnswerInv'
<1>1. PICK m : m = [do |-> "OK"]
  OBVIOUS
<1>2. /\ ctl[s] = "reply" /\ Push(s, m) /\ ctl' = [ctl EXCEPT ![s] = "idle"]
      /\ UNCHANGED <<pc, copy, result, awaiting, slot, toSS, copies, disturbed, made, job>>
  BY <1>1 DEF Reply, handler, bounds, history
<1>3. m \in Message
  BY <1>1 DEF Message
<1>4. /\ toNS' \in [Servers -> Seq(Message)] /\ toNS'[s] # <<>>
      /\ Head(toNS'[s]) = IF toNS[s] = <<>> THEN m ELSE Head(toNS[s])
      /\ \A t \in Servers \ {s} : toNS'[t] = toNS[t]
  BY <1>2, <1>3, PushType
<1>5. /\ ~Active(s) /\ ~Active(s)' /\ ctl'[s] = "idle"
      /\ \A t \in Servers \ {s} : ctl'[t] = ctl[t]
  BY <1>2 DEF Active, IInv, ThreadType
<1>6. \A t \in Servers : \A n : Carried(t, n)' => Carried(t, n)
  BY <1>2, <1>5 DEF Carried, Active
<1>7. Alone(s)'
  <2> SUFFICES ASSUME awaiting[s] # NoHandler, awaiting[s] \notin disturbed PROVE Alone(s)'
    BY <1>2 DEF Alone
  <2>1. Alone(s)
    BY DEF AnswerInv
  <2>2. /\ \A t \in Servers \ {s} : ~Carried(t, copy[awaiting[s]].nr)
        /\ toNS[s] # <<>> /\ toSS[s] = <<>>
        /\ Head(toNS[s]).do # "ERROR" <=> copy[awaiting[s]].nr \in made
    BY <1>2, <1>5, <2>1 DEF Alone
  <2>3. \A t \in Servers \ {s} : ~Carried(t, copy[awaiting[s]].nr)'
    BY <1>2, <1>6, <2>2
  <2> QED BY <1>2, <1>4, <1>5, <2>2, <2>3 DEF Alone
<1>8. AnswerType'
  BY <1>2, <1>4 DEF AnswerInv, AnswerType
<1>9. \A t \in Servers \ {s} : toSS'[t] = toSS[t] /\ job'[t] = job[t]
  BY <1>2
<1> QED BY <1>2, <1>4, <1>5, <1>6, <1>7, <1>8, <1>9, OneAnswers

\* An error is sent only when the copy was not made.
LEMMA FailAnswers ==
    ASSUME IInv, AnswerInv, NEW s \in Servers, Fail(s)
    PROVE  AnswerInv'
<1>1. PICK m : m = [do |-> "ERROR"]
  OBVIOUS
<1>2. /\ ctl[s] = "failed" /\ Push(s, m) /\ ctl' = [ctl EXCEPT ![s] = "idle"]
      /\ job' = [job EXCEPT ![s] = NoJob]
      /\ UNCHANGED <<pc, copy, result, awaiting, slot, toSS, copies, disturbed, made>>
  BY <1>1 DEF Fail, handler, bounds
<1>3. m \in Message /\ m.do = "ERROR"
  BY <1>1 DEF Message
<1>4. /\ toNS' \in [Servers -> Seq(Message)] /\ toNS'[s] # <<>>
      /\ Head(toNS'[s]) = IF toNS[s] = <<>> THEN m ELSE Head(toNS[s])
      /\ \A t \in Servers \ {s} : toNS'[t] = toNS[t]
  BY <1>2, <1>3, PushType
<1>5. /\ Active(s) /\ ~Active(s)' /\ ctl'[s] = "idle"
      /\ \A t \in Servers \ {s} : ctl'[t] = ctl[t] /\ job'[t] = job[t]
  BY <1>2 DEF Active, IInv, ThreadType
<1>6. \A t \in Servers : \A n : Carried(t, n)' => Carried(t, n)
  BY <1>2, <1>5 DEF Carried, Active
<1>7. Alone(s)'
  <2> SUFFICES ASSUME awaiting[s] # NoHandler, awaiting[s] \notin disturbed PROVE Alone(s)'
    BY <1>2 DEF Alone
  <2>1. Alone(s)
    BY DEF AnswerInv
  <2>2. /\ \A t \in Servers \ {s} : ~Carried(t, copy[awaiting[s]].nr)
        /\ toNS[s] = <<>> /\ toSS[s] = <<>> /\ copy[awaiting[s]].nr \notin made
    BY <1>2, <1>5, <2>1 DEF Alone
  <2>3. \A t \in Servers \ {s} : ~Carried(t, copy[awaiting[s]].nr)'
    BY <1>2, <1>6, <2>2
  <2> QED BY <1>2, <1>3, <1>4, <1>5, <2>2, <2>3 DEF Alone
<1>8. AnswerType'
  BY <1>2, <1>4 DEF AnswerInv, AnswerType
<1>9. \A t \in Servers \ {s} : toSS'[t] = toSS[t]
  BY <1>2
<1> QED BY <1>2, <1>4, <1>5, <1>6, <1>7, <1>8, <1>9, OneAnswers

\* A size pushed by a client's thread disturbs the handler that waits.
LEMMA SyncAnswers ==
    ASSUME IInv, AnswerInv, NEW f \in Files, Sync(f)
    PROVE  AnswerInv'
<1>1. PICK s \in Servers : s = Home[f]
  BY CopyAssumption
<1>2. PICK m : m = [do |-> "WRITE_COMPLETE", file |-> f, text |-> text[f]]
  OBVIOUS
<1>3. /\ Push(s, m) /\ disturbed' = disturbed \cup {h \in Handlers : awaiting[s] = h}
      /\ UNCHANGED <<pc, copy, result, awaiting, slot, toSS, copies, made, job, ctl>>
  BY <1>1, <1>2 DEF Sync, handler, bounds, server
<1>4. m \in Message
  <2>1. text[f] \in Texts
    BY DEF IInv, ThreadType
  <2> QED BY <1>2, <2>1 DEF Message
<1>5. /\ toNS' \in [Servers -> Seq(Message)]
      /\ \A t \in Servers \ {s} : toNS'[t] = toNS[t]
  BY <1>3, <1>4, PushType
<1>6. \A t \in Servers : \A n : Carried(t, n)' => Carried(t, n)
  BY <1>3 DEF Carried, Active
<1>7. Alone(s)'
  <2>1. awaiting[s] \in Handlers \cup {NoHandler}
    BY DEF AnswerInv, AnswerType
  <2> QED BY <1>3, <2>1 DEF Alone
<1>8. AnswerType'
  BY <1>3, <1>5 DEF AnswerInv, AnswerType
<1>9. \A t \in Servers \ {s} : toSS'[t] = toSS[t] /\ job'[t] = job[t] /\ ctl'[t] = ctl[t]
  BY <1>3
<1> QED BY <1>3, <1>5, <1>6, <1>7, <1>8, <1>9, OneAnswers

\* The handler that waits for a server that dies is told so.
LEMMA KillAnswers ==
    ASSUME IInv, AnswerInv, NEW s \in Servers, Kill(s)
    PROVE  AnswerInv'
<1>1. /\ ctl' = [ctl EXCEPT ![s] = "dead"] /\ job' = [job EXCEPT ![s] = NoJob]
      /\ toSS' = [toSS EXCEPT ![s] = <<>>] /\ toNS' = [toNS EXCEPT ![s] = <<>>]
      /\ awaiting' = [awaiting EXCEPT ![s] = NoHandler]
      /\ slot' = slot \/ slot' = [slot EXCEPT ![s] = [do |-> "FAILED"]]
      /\ UNCHANGED <<pc, copy, result, copies, made, disturbed>>
  BY DEF Kill, handler
<1>2. /\ Numbered /\ AnswerType /\ NoHandler \notin Handlers
      /\ \A t \in Servers : Waits(t) /\ Alone(t)
      /\ \A h \in Handlers : Mine(h)
  BY CopyAssumption DEF AnswerInv
<1>3. /\ DOMAIN ctl = Servers /\ DOMAIN job = Servers /\ DOMAIN toSS = Servers
      /\ DOMAIN toNS = Servers /\ DOMAIN awaiting = Servers
  BY <1>2 DEF IInv, ThreadType, RequestType, AnswerType
<1>4. /\ ctl'[s] = "dead" /\ toSS'[s] = <<>> /\ awaiting'[s] = NoHandler
      /\ \A t \in Servers : t # s => /\ ctl'[t] = ctl[t] /\ job'[t] = job[t]
                                     /\ toSS'[t] = toSS[t] /\ toNS'[t] = toNS[t]
                                     /\ awaiting'[t] = awaiting[t]
  BY <1>1, <1>3
<1>5. \A t \in Servers : \A n : Carried(t, n)' => Carried(t, n)
  <2>1. \A n : ~Carried(s, n)'
    BY <1>4 DEF Carried, Active
  <2>2. ASSUME NEW t \in Servers, t # s, NEW n, Carried(t, n)' PROVE Carried(t, n)
    BY <1>4, <2>2 DEF Carried, Active
  <2> QED BY <2>1, <2>2
<1>6. Numbered'
  BY <1>1, <1>2, <1>5 DEF Numbered
<1>7. ASSUME NEW t \in Servers PROVE Waits(t)' /\ Alone(t)'
  <2>1. CASE t = s
    BY <1>4, <2>1 DEF Waits, Alone
  <2>2. CASE t # s
    <3>1. awaiting'[t] = awaiting[t]
      BY <1>4, <2>2
    <3>2. slot'[t] = slot[t]
      BY <1>1, <1>2, <2>2 DEF AnswerType
    <3>3. Waits(t)'
      BY <1>1, <1>2, <3>1, <3>2 DEF Waits, Dest
    <3>4. \A r \in Servers : Carried(r, copy[awaiting[t]].nr)' => Carried(r, copy[awaiting[t]].nr)
      BY <1>1, <1>5, <3>1
    <3>5. Active(t)' <=> Active(t)
      BY <1>4, <2>2 DEF Active
    <3>6. Alone(t)'
      BY <1>1, <1>2, <1>4, <2>2, <3>1, <3>4, <3>5 DEF Alone
    <3> QED BY <3>3, <3>6
  <2> QED BY <2>1, <2>2
<1>8. ASSUME NEW h \in Handlers PROVE Mine(h)'
  <2>1. \A k \in Handlers : Dest(k)' = Dest(k)
    BY <1>1 DEF Dest
  <2>2. CASE pc[h] # "wait" \/ slot'[Dest(h)] = slot[Dest(h)]
    BY <1>1, <1>2, <1>5, <2>1, <2>2, HandlerKept
  <2>3. CASE pc[h] = "wait" /\ slot'[Dest(h)] # slot[Dest(h)]
    <3>1. Dest(h) \in Servers
      BY <2>3, CopyAssumption DEF Dest, IInv, RequestType, Job
    <3>2. slot'[Dest(h)] = [do |-> "FAILED"]
      BY <1>1, <1>2, <2>3, <3>1 DEF AnswerType
    <3>3. Unsent(h)' /\ Answered(h)'
      BY <1>1, <1>2, <2>3 DEF Mine, Unsent, Answered
    <3>4. Expects(h)'
      BY <1>1, <1>2, <2>1, <3>2 DEF Mine, Expects, Right
    <3> QED BY <3>3, <3>4 DEF Mine
  <2> QED BY <2>2, <2>3
<1>9. AnswerType'
  <2>1. <<>> \in Seq(Message)
    OBVIOUS
  <2> QED BY <1>1, <1>2, <2>1 DEF AnswerType
<1> QED BY <1>6, <1>7, <1>8, <1>9 DEF AnswerInv

\* Reads for other servers, and the writers up to their last step.
LEMMA RestAnswers ==
    ASSUME AnswerInv,
           \/ \E s \in Servers : PeerStep(s)
           \/ \E f \in Files : FindFile(f) \/ EnterFile(f) \/ CommitOpen(f) \/ CommitClose(f)
                             \/ Detach(f)
           \/ UNCHANGED vars
    PROVE  AnswerInv'
<1>1. /\ UNCHANGED <<pc, copy, result, awaiting, slot, toSS, toNS, made, disturbed>>
      /\ UNCHANGED <<copies, job, ctl>>
  BY DEF PeerStep, PeerFind, PeerRead, FindFile, EnterFile, CommitOpen, CommitClose, Detach, vars,
    disk, locks, server, handler, wire, bounds, history
<1>2. \A s \in Servers : Active(s)' <=> Active(s)
  BY <1>1 DEF Active
<1> QED BY <1>1, <1>2, QuietAnswers

\* Nobody has asked for anything when the servers start.
LEMMA AnswersInit == Init => AnswerInv
<1> SUFFICES ASSUME Init PROVE AnswerInv
  OBVIOUS
<1>1. AnswerType
  <2>1. <<>> \in Seq(Message)
    OBVIOUS
  <2> QED BY <2>1 DEF Init, AnswerType
<1>2. \A s \in Servers : \A n : ~Carried(s, n)
  BY DEF Init, Carried, Active
<1>3. Numbered
  BY <1>2 DEF Init, Numbered
<1>4. ASSUME NEW s \in Servers PROVE Waits(s) /\ Alone(s)
  BY DEF Init, Waits, Alone
<1>5. ASSUME NEW h \in Handlers PROVE Mine(h)
  BY DEF Init, Mine, Unsent, Expects, Answered
<1> QED BY <1>1, <1>3, <1>4, <1>5 DEF AnswerInv

\* Every step keeps the invariant of the answers.
LEMMA AnswersStep == IInv /\ AnswerInv /\ [Next]_vars => AnswerInv'
<1> SUFFICES ASSUME IInv, AnswerInv, [Next]_vars PROVE AnswerInv'
  OBVIOUS
<1>1. ASSUME NEW h \in Handlers, NEW c \in Copies, Copy(h, c) PROVE AnswerInv'
  BY <1>1, CopyAnswers
<1>2. CASE NameServerStep
  BY <1>2, SendAnswers, DeliverAnswers, TakeAnswers, EndAnswers
  DEF NameServerStep
<1>3. ASSUME NEW s \in Servers, ControlStep(s) PROVE AnswerInv'
  BY <1>3, BeginAnswers, WorkAnswers, FinishAnswers, ReplyAnswers, FailAnswers DEF ControlStep
<1>4. ASSUME NEW s \in Servers, PeerStep(s) \/ Kill(s) PROVE AnswerInv'
  BY <1>4, RestAnswers, KillAnswers
<1>5. ASSUME NEW f \in Files, FindFile(f) \/ CommitOpen(f) \/ ClientStep(f) PROVE AnswerInv'
  BY <1>5, RestAnswers, SyncAnswers DEF ClientStep
<1>6. CASE UNCHANGED vars
  BY <1>6, RestAnswers
<1> QED BY <1>1, <1>2, <1>3, <1>4, <1>5, <1>6 DEF Next

\* The client is told that its copy was made exactly when it was, although the
\* reader thread puts whatever message comes first into the slot, and whoever waits
\* takes it, if nothing else was on its way, no other request overtook this one and
\* nobody committed a write on that server meanwhile, for any number of servers,
\* handlers and COPYs.
THEOREM AnswersAreTrue == Spec => []AnswerTrue
<1>1. AnswerInv => AnswerTrue
  BY DEF AnswerInv, Mine, Answered, Right, AnswerTrue, Succeeded
<1> QED BY IInvInit, IInvStep, AnswersInit, AnswersStep, <1>1, PTL DEF Spec

=============================================================================
