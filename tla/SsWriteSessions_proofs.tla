----------------------- MODULE SsWriteSessions_proofs -----------------------
(***************************************************************************)
(* Proofs about SsWriteSessions for every set of clients, every text and   *)
(* every bound.                                                            *)
(*                                                                         *)
(* The first part is about single sessions and the record of the file.     *)
(* The second, from "Sentences of a text" on, is about what the sentence   *)
(* lock guarantees between sessions: an open session names one sentence of *)
(* the file, its own, with the text that its client was given, however     *)
(* ETIRW renumbered and moved it.                                          *)
(***************************************************************************)
EXTENDS SsWriteSessions, TLAPS, FiniteSetTheorems, SequenceTheorems

-----------------------------------------------------------------------------
(* Operators on texts *)

\* Consecutive units of a text form a text.
LEMMA SubSeqType ==
    ASSUME NEW s \in Seq(Unit), NEW m \in Int, NEW n \in Int,
           1 <= m, n <= Len(s)
    PROVE  SubSeq(s, m, n) \in Seq(Unit)
<1>1. \A i \in m..n : s[i] \in Unit
    OBVIOUS
<1> QED
    BY <1>1, SubSeqProperties

\* A span of a text within its length is a text.
LEMMA SpanType ==
    ASSUME NEW s \in Text, NEW from \in Nat, NEW to \in Nat, to <= Len(s)
    PROVE  Span(s, from, to) \in Text
    BY SubSeqType DEF Text, Span

\* ss_get_sentence_bounds returns ordered offsets inside the text.
LEMMA BoundsType ==
    ASSUME NEW s \in Text, NEW i \in Nat,
           NEW b \in ss_get_sentence_bounds(s, i)
    PROVE  /\ b.start \in Nat /\ b.end \in Nat
           /\ b.start <= b.end /\ b.end <= Len(s)
    BY DEF ss_get_sentence_bounds, Text

\* count_sentences_in_span counts.
LEMMA CountType ==
    ASSUME NEW s \in Text
    PROVE  count_sentences_in_span(s) \in Nat
<1>1. IsFiniteSet(Dots(s))
  <2>1. Dots(s) \subseteq 1..Len(s)
      BY DEF Dots, Text
  <2> QED
      BY <2>1, FS_Interval, FS_Subset DEF Text
<1> QED
    BY <1>1, FS_CardinalityType DEF count_sentences_in_span

\* A word edit of a sentence yields a text.
LEMMA EditType ==
    ASSUME NEW s \in Text, NEW p \in InsertPoints(s), NEW words \in Edits
    PROVE  ss_apply_word_edit(s, p, words) \in Text
<1> DEFINE B == Body(s)
           L == SubSeq(B, 1, p)
           R == SubSeq(B, p + 1, Len(B))
           N == L \o words \o R
<1>0. s \in Seq(Unit) /\ Len(s) \in Nat
    BY DEF Text
<1>1. B \in Seq(Unit) /\ Len(B) \in Nat
  <2>1. CASE EndsWithDot(s)
      BY <1>0, <2>1, SubSeqType DEF Body
  <2>2. CASE ~EndsWithDot(s)
      BY <1>0, <2>2 DEF Body
  <2> QED
      BY <2>1, <2>2
<1>2. p \in 0..Len(B)
    BY DEF InsertPoints
<1>3. L \in Seq(Unit)
    BY <1>1, <1>2, SubSeqType
<1>4. R \in Seq(Unit)
    BY <1>1, <1>2, SubSeqType
<1>5. words \in Seq(Unit)
  <2>1. Word \in Unit /\ Dot \in Unit
      BY DEF Unit
  <2>2. <<Word>> \in Seq(Unit)
      BY <2>1
  <2>3. <<Word, Dot>> \in Seq(Unit)
      BY <2>1
  <2> QED
      BY <2>2, <2>3 DEF Edits
<1>6. N \in Seq(Unit)
    BY <1>3, <1>4, <1>5
<1>7. Dot \in Unit
    BY DEF Unit
<1>8. Append(N, Dot) \in Seq(Unit)
    BY <1>6, <1>7
<1> QED
    BY <1>6, <1>8 DEF ss_apply_word_edit, Text

\* ss_update_active_sessions keeps a session a session of the same file: an
\* offset at or after the replaced span stays non-negative when it moves.
LEMMA ShiftedType ==
    ASSUME NEW s \in Session, s.sentence_start <= s.sentence_end,
           NEW edit_end \in Nat, NEW char_delta \in Int, NEW delta \in Int,
           0 <= edit_end + char_delta
    PROVE  /\ Shifted(s, edit_end, char_delta, delta) \in Session
           /\ Shifted(s, edit_end, char_delta, delta).file = s.file
           /\ Shifted(s, edit_end, char_delta, delta).sentence_start
                <= Shifted(s, edit_end, char_delta, delta).sentence_end
<1> DEFINE moved == s.sentence_start >= edit_end
           start == s.sentence_start + char_delta
           end == s.sentence_end + char_delta
           index == IF s.sentence_index + delta < 0
                    THEN 0 ELSE s.sentence_index + delta
           u == Shifted(s, edit_end, char_delta, delta)
<1>1. CASE ~moved
    BY <1>1 DEF Shifted
<1>2. CASE moved
  <2>1. /\ s.sentence_start \in Nat /\ s.sentence_end \in Nat
        /\ s.sentence_index \in Nat
      BY DEF Session
  <2>2. start \in Nat /\ end \in Nat /\ start <= end
      BY <1>2, <2>1
  <2>3. index \in Nat
      BY <2>1
  <2>4. u = [s EXCEPT !.sentence_start = start, !.sentence_end = end,
                      !.sentence_index = index]
      BY <1>2 DEF Shifted
  <2> HIDE DEF start, end, index, u, moved
  <2>5. /\ u \in Session /\ u.file = s.file
        /\ u.sentence_start = start /\ u.sentence_end = end
      BY <2>2, <2>3, <2>4 DEF Session
  <2> QED
      BY <2>2, <2>5 DEF u
<1> QED
    BY <1>1, <1>2

-----------------------------------------------------------------------------
(* Type correctness *)

\* The offsets of a session are in order, so they survive a move of the text.
SessionsOrdered ==
    \A c \in Clients : HasSession(c) =>
        sessions[c].sentence_start <= sessions[c].sentence_end

\* What the local variables of a handler hold at each of its steps: the record
\* it found, the session that ETIRW works on, the tag of a checkpoint request.
FramesFilled ==
    \A t \in Threads :
        /\ pc[t] \in {"enter", "check", "create", "etirw", "commit", "detach",
                      "sync", "replace", "save", "unlink", "delist", "free"}
              => frame[t].rec \in Recs
        /\ pc[t] \in {"etirw", "commit", "detach"}
              => t \in Clients /\ HasSession(t)
                   /\ sessions[t].file = frame[t].rec
        /\ pc[t] = "save" \/ frame[t].op = "checkpoint" => frame[t].tag \in Tags

TypeInv == TypeOK /\ SessionsOrdered /\ FramesFilled

\* ss_update_active_sessions keeps the list a list of sessions: it moves
\* offsets and indices and neither adds, drops nor re-targets a session.
LEMMA UpdateType ==
    ASSUME TypeOK, SessionsOrdered, NEW c \in Clients, NEW r,
           NEW edit_start \in Nat, NEW old_len \in Nat, NEW new_len \in Nat,
           NEW delta \in Int
    PROVE  LET moved == ss_update_active_sessions(c, r, edit_start, old_len,
                                                  new_len, delta)
           IN  /\ moved \in [Clients -> Session \cup {NoSession}]
               /\ \A d \in Clients :
                     /\ moved[d] = NoSession <=> sessions[d] = NoSession
                     /\ moved[d] # NoSession =>
                           /\ moved[d].file = sessions[d].file
                           /\ moved[d].sentence_start <= moved[d].sentence_end
<1> DEFINE moved == ss_update_active_sessions(c, r, edit_start, old_len,
                                              new_len, delta)
<1> DEFINE edit_end == edit_start + old_len
           char_delta == new_len - old_len
<1>0. edit_end \in Nat /\ char_delta \in Int /\ 0 <= edit_end + char_delta
    OBVIOUS
<1>1. ASSUME NEW d \in Clients
      PROVE  /\ moved[d] \in Session \cup {NoSession}
             /\ moved[d] = NoSession <=> sessions[d] = NoSession
             /\ moved[d] # NoSession =>
                   /\ moved[d].file = sessions[d].file
                   /\ moved[d].sentence_start <= moved[d].sentence_end
  <2>1. CASE d # c /\ HasSession(d) /\ sessions[d].file = r
    <3> DEFINE u == Shifted(sessions[d], edit_end, char_delta, delta)
    <3>0. sessions[d] \in Session
        BY <2>1 DEF TypeOK, HasSession
    <3>1. sessions[d].sentence_start <= sessions[d].sentence_end
        BY <2>1 DEF HasSession, SessionsOrdered
    <3>2. /\ u \in Session /\ u.file = sessions[d].file
          /\ u.sentence_start <= u.sentence_end
      <4> HIDE DEF edit_end, char_delta
      <4> QED
          BY <3>0, <3>1, <1>0, ShiftedType
    <3>3. moved[d] = u
        BY <2>1 DEF ss_update_active_sessions
    <3> HIDE DEF u, moved
    <3> QED
        BY <2>1, <3>2, <3>3, NoSessionAssumption DEF HasSession
  <2>2. CASE ~(d # c /\ HasSession(d) /\ sessions[d].file = r)
    <3>1. moved[d] = sessions[d]
        BY <2>2 DEF ss_update_active_sessions
    <3> HIDE DEF moved
    <3> QED
        BY <3>1 DEF TypeOK, SessionsOrdered, HasSession
  <2> QED
      BY <2>1, <2>2
<1>2. moved = [d \in Clients |-> moved[d]]
    BY DEF ss_update_active_sessions
<1> HIDE DEF moved
<1>3. moved \in [Clients -> Session \cup {NoSession}]
    BY <1>1, <1>2
<1> QED
    BY <1>1, <1>3 DEF moved

\* The server starts with well-typed state.
LEMMA InitTypeInv == Init => TypeInv
<1> SUFFICES ASSUME Init PROVE TypeInv
    OBVIOUS
<1>1. <<>> \in Text /\ <<>> \in Seq(Checkpoint)
    BY DEF Text
<1>2. IdleFrame \in Frame /\ IdleFrame.op = "none"
    BY <1>1 DEF IdleFrame, Frame
<1>3. content \in Text /\ Len(content) \in Nat
    BY ConstantsAssumption DEF Init, Text
<1>4. TypeOK
    BY <1>1, <1>2, <1>3 DEF Init, TypeOK, Labels
<1>5. SessionsOrdered
    BY DEF Init, SessionsOrdered, HasSession
<1>6. FramesFilled
    BY <1>2 DEF Init, FramesFilled
<1> QED
    BY <1>4, <1>5, <1>6 DEF TypeInv

\* Every step keeps the types: one case per action of Next.  Under each, the
\* new frame is shown to be one (<2>a), then each part of TypeInv.
LEMMA NextTypeInv == TypeInv /\ [Next]_vars => TypeInv'
<1> SUFFICES ASSUME TypeInv, [Next]_vars PROVE TypeInv'
    OBVIOUS
<1>t. TypeOK /\ SessionsOrdered /\ FramesFilled
    BY DEF TypeInv
<1>i. IdleFrame \in Frame /\ IdleFrame.op = "none"
  <2>1. <<>> \in Text
      BY DEF Text
  <2> QED
      BY <2>1 DEF IdleFrame, Frame
<1>u. CASE UNCHANGED vars
  <2>1. TypeOK'
      BY <1>t, <1>u DEF vars, TypeOK, disk, records, locks, aux
  <2>2. SessionsOrdered'
      BY <1>t, <1>u DEF vars, SessionsOrdered, HasSession
  <2>3. FramesFilled'
      BY <1>t, <1>u DEF vars, FramesFilled, HasSession
  <2> QED
      BY <2>1, <2>2, <2>3 DEF TypeInv
<1>1. ASSUME NEW t \in Threads, FindFile(t)
      PROVE  TypeInv'
  <2>p. PICK r \in listed : SetFrame(t, [frame[t] EXCEPT !.rec = r])
      BY <1>1 DEF FindFile
  <2> DEFINE F == [frame[t] EXCEPT !.rec = r]
  <2>a. /\ F \in Frame
        /\ F.rec \in Recs /\ F.op = frame[t].op /\ F.tag = frame[t].tag
    <3>1. frame[t] \in Frame
        BY <1>t DEF TypeOK, Threads
    <3> QED
        BY <3>1, <1>t DEF Frame, TypeOK
  <2>b. t \in Threads /\ frame' = [frame EXCEPT ![t] = F]
      BY <2>p DEF SetFrame, Threads
  <2> HIDE DEF F
  <2>f. frame' \in [Threads -> Frame]
      BY <1>t, <2>a, <2>b DEF TypeOK
  <2>1. TypeOK'
      BY <1>1, <1>t, <2>f, <2>b DEF FindFile, TypeOK, Goto, SetFrame, disk,
          records, aux, Labels
  <2>2. SessionsOrdered'
      BY <1>1, <1>t DEF FindFile, TypeOK, SessionsOrdered, HasSession
  <2>3. FramesFilled'
      BY <1>1, <1>t, <2>a, <2>b DEF FindFile, TypeOK, FramesFilled, HasSession,
          Goto
  <2> QED
      BY <2>1, <2>2, <2>3 DEF TypeInv
<1>2. ASSUME NEW t \in Threads, FindFails(t)
      PROVE  TypeInv'
  <2>1. TypeOK'
      BY <1>2, <1>t, <1>i DEF FindFails, TypeOK, Goto, SetFrame, Return, disk,
          records, locks, aux, Threads, Labels, Frame
  <2>2. SessionsOrdered'
      BY <1>2, <1>t DEF FindFails, TypeOK, SessionsOrdered, HasSession, Goto,
          SetFrame, Return, disk, records, locks, aux
  <2>3. FramesFilled'
      BY <1>2, <1>t, <1>i DEF FindFails, TypeOK, FramesFilled, HasSession,
          Goto, SetFrame, Return, disk, records, locks, aux, Threads, Frame
  <2> QED
      BY <2>1, <2>2, <2>3 DEF TypeInv
<1>3. ASSUME NEW t \in Threads, EnterFile(t)
      PROVE  TypeInv'
  <2>1. TypeOK'
      BY <1>3, <1>t, <1>i DEF EnterFile, TypeOK, Goto, disk, records, aux,
          Threads, Labels, Frame
  <2>2. SessionsOrdered'
      BY <1>3, <1>t DEF EnterFile, TypeOK, SessionsOrdered, HasSession, Goto,
          disk, records, aux
  <2>3. FramesFilled'
      BY <1>3, <1>t, <1>i DEF EnterFile, TypeOK, FramesFilled, HasSession,
          Goto, disk, records, aux, Threads, Frame
  <2> QED
      BY <2>1, <2>2, <2>3 DEF TypeInv
<1>4. ASSUME NEW t \in Threads, WholeFileCheck(t)
      PROVE  TypeInv'
  <2>r. frame[t].rec \in Recs
      BY <1>4, <1>t DEF WholeFileCheck, FramesFilled
  <2>x. Replacements(t) \subseteq Text
    <3>1. undo \in Text /\ CopyTexts \subseteq Text
        BY <1>t, ConstantsAssumption DEF TypeOK
    <3>2. ckpts[frame[t].rec] \in Seq(Checkpoint)
        BY <1>t, <2>r DEF TypeOK
    <3>3. \A j \in DOMAIN ckpts[frame[t].rec] : ckpts[frame[t].rec][j] \in Checkpoint
        BY <3>2
    <3>4. \A k \in Checkpoint : k.text \in Text
        BY DEF Checkpoint
    <3> QED
        BY <3>1, <3>3, <3>4 DEF Replacements
  <2>p. PICK x \in Replacements(t) : SetFrame(t, [frame[t] EXCEPT !.text = x])
      BY <1>4 DEF WholeFileCheck
  <2> DEFINE F == [frame[t] EXCEPT !.text = x]
  <2>a. /\ F \in Frame
        /\ F.rec = frame[t].rec /\ F.op = frame[t].op /\ F.tag = frame[t].tag
    <3>1. frame[t] \in Frame
        BY <1>t DEF TypeOK, Threads
    <3> QED
        BY <3>1, <2>x DEF Frame
  <2>b. t \in Threads /\ frame' = [frame EXCEPT ![t] = F]
      BY <2>p DEF SetFrame, Threads
  <2> HIDE DEF F
  <2>f. frame' \in [Threads -> Frame]
      BY <1>t, <2>a, <2>b DEF TypeOK
  <2>1. TypeOK'
      BY <1>4, <1>t, <2>f, <2>b DEF WholeFileCheck, TypeOK, Goto, SetFrame,
          disk, records, locks, aux, Labels
  <2>2. SessionsOrdered'
      BY <1>4, <1>t DEF WholeFileCheck, TypeOK, SessionsOrdered, HasSession
  <2>3. FramesFilled'
      BY <1>4, <1>t, <2>a, <2>b DEF WholeFileCheck, TypeOK, FramesFilled,
          HasSession, Goto
  <2> QED
      BY <2>1, <2>2, <2>3 DEF TypeInv
<1>5. ASSUME NEW t \in Threads, WholeFileRefused(t)
      PROVE  TypeInv'
  <2>1. TypeOK'
      BY <1>5, <1>t, <1>i DEF WholeFileRefused, TypeOK, Goto, SetFrame, Return,
          Unlock, LeaveWithError, disk, records, aux, Threads, Labels, Frame
  <2>2. SessionsOrdered'
      BY <1>5, <1>t DEF WholeFileRefused, TypeOK, SessionsOrdered, HasSession,
          Goto, SetFrame, Return, Unlock, LeaveWithError, disk, records, aux
  <2>3. FramesFilled'
      BY <1>5, <1>t, <1>i DEF WholeFileRefused, TypeOK, FramesFilled,
          HasSession, Goto, SetFrame, Return, Unlock, LeaveWithError, disk,
          records, aux, Threads, Frame
  <2> QED
      BY <2>1, <2>2, <2>3 DEF TypeInv
<1>6. ASSUME NEW t \in Threads, TouchFreed(t)
      PROVE  TypeInv'
  <2>1. TypeOK'
      BY <1>6, <1>t, <1>i DEF TouchFreed, TypeOK, disk, records, locks,
          Threads, Labels, Frame
  <2>2. SessionsOrdered'
      BY <1>6, <1>t DEF TouchFreed, TypeOK, SessionsOrdered, HasSession, disk,
          records, locks
  <2>3. FramesFilled'
      BY <1>6, <1>t, <1>i DEF TouchFreed, TypeOK, FramesFilled, HasSession,
          disk, records, locks, Threads, Frame
  <2> QED
      BY <2>1, <2>2, <2>3 DEF TypeInv
<1>7. ASSUME NEW c \in Clients, NEW i \in 0..MaxIndex, WriteLockRequest(c, i)
      PROVE  TypeInv'
  <2>i. i \in Nat
      BY ConstantsAssumption
  <2>p. SetFrame(c, [frame[c] EXCEPT !.op = "lock", !.index = i])
      BY <1>7 DEF WriteLockRequest
  <2> DEFINE F == [frame[c] EXCEPT !.op = "lock", !.index = i]
  <2>a. /\ F \in Frame
        /\ F.op = "lock"
    <3>1. frame[c] \in Frame
        BY <1>t DEF TypeOK, Threads
    <3> QED
        BY <3>1, <2>i DEF Frame, ClientOpNames
  <2>b. c \in Threads /\ frame' = [frame EXCEPT ![c] = F]
      BY <2>p DEF SetFrame, Threads
  <2> HIDE DEF F
  <2>f. frame' \in [Threads -> Frame]
      BY <1>t, <2>a, <2>b DEF TypeOK
  <2>1. TypeOK'
      BY <1>7, <1>t, <2>f, <2>b DEF WriteLockRequest, TypeOK, Goto, SetFrame,
          disk, records, locks, aux, Labels, ss_abort_session
  <2>2. SessionsOrdered'
      BY <1>7, <1>t DEF WriteLockRequest, TypeOK, SessionsOrdered, HasSession,
          ss_abort_session
  <2>3. FramesFilled'
      BY <1>7, <1>t, <2>a, <2>b DEF WriteLockRequest, TypeOK, FramesFilled,
          HasSession, Goto, ss_abort_session
  <2> QED
      BY <2>1, <2>2, <2>3 DEF TypeInv
<1>8. ASSUME NEW c \in Clients, WriteLockCheck(c)
      PROVE  TypeInv'
  <2>r. frame[c].rec \in Recs /\ c \in Threads
      BY <1>8, <1>t DEF WriteLockCheck, FramesFilled, Threads
  <2>0. CASE LeaveWithError(c)
    <3>1. TypeOK'
        BY <2>0, <1>t, <1>i, <2>r DEF TypeOK, Goto, SetFrame, Return, Unlock,
            LeaveWithError, disk, records, locks, aux, Labels
    <3>2. SessionsOrdered'
        BY <2>0, <1>t DEF SessionsOrdered, HasSession, LeaveWithError
    <3>3. FramesFilled'
        BY <2>0, <1>t, <1>i DEF TypeOK, FramesFilled, HasSession, Goto,
            SetFrame, Return, Unlock, LeaveWithError, disk, records, locks, aux
    <3> QED
        BY <3>1, <3>2, <3>3 DEF TypeInv
  <2>1. CASE /\ Goto(c, "create")
             /\ UNCHANGED <<disk, records, sessions, locks, frame, aux>>
    <3>1. TypeOK'
        BY <2>1, <1>t DEF TypeOK, Goto, disk, records, locks, aux, Labels
    <3>2. SessionsOrdered'
        BY <2>1, <1>t DEF SessionsOrdered, HasSession
    <3>3. FramesFilled'
        BY <2>1, <1>t, <2>r DEF TypeOK, FramesFilled, HasSession, Goto
    <3> QED
        BY <3>1, <3>2, <3>3 DEF TypeInv
  <2> QED
      BY <1>8, <2>0, <2>1 DEF WriteLockCheck
<1>9. ASSUME NEW c \in Clients, WriteLockCreate(c)
      PROVE  TypeInv'
  <2>r. frame[c].rec \in Recs /\ frame[c].index \in Nat /\ c \in Threads
      BY <1>9, <1>t DEF WriteLockCreate, FramesFilled, TypeOK, Frame, Threads
  <2>0. CASE LeaveWithError(c)
    <3>1. TypeOK'
        BY <2>0, <1>t, <1>i, <2>r DEF TypeOK, Goto, SetFrame, Return, Unlock,
            LeaveWithError, disk, records, aux, Labels
    <3>2. SessionsOrdered'
        BY <2>0, <1>t DEF SessionsOrdered, HasSession, LeaveWithError
    <3>3. FramesFilled'
        BY <2>0, <1>t, <1>i DEF TypeOK, FramesFilled, HasSession, Goto,
            SetFrame, Return, Unlock, LeaveWithError, disk, records, aux
    <3> QED
        BY <3>1, <3>2, <3>3 DEF TypeInv
  <2>1. ASSUME NEW b \in ss_get_sentence_bounds(content, frame[c].index),
               sessions' = [sessions EXCEPT ![c] = ss_create_session(
                   frame[c].rec, frame[c].index, b.start, b.end, content)],
               Unlock(c), Return(c), UNCHANGED <<disk, records, filesLock, aux>>
        PROVE  TypeInv'
    <3> DEFINE S == ss_create_session(frame[c].rec, frame[c].index, b.start,
                                      b.end, content)
    <3>0. content \in Text
        BY <1>t DEF TypeOK
    <3>1. /\ b.start \in Nat /\ b.end \in Nat
          /\ b.start <= b.end /\ b.end <= Len(content)
        BY <2>r, <3>0, BoundsType
    <3>2. Span(content, b.start, b.end) \in Text
        BY <3>0, <3>1, SpanType
    <3>3. /\ S \in Session /\ S.file = frame[c].rec
          /\ S.sentence_start <= S.sentence_end
        BY <2>r, <3>0, <3>1, <3>2 DEF ss_create_session, Session
    <3> HIDE DEF S
    <3>4. sessions' = [sessions EXCEPT ![c] = S]
        BY <2>1 DEF S
    <3>5. TypeOK'
        BY <1>t, <1>i, <2>1, <2>r, <3>3, <3>4 DEF TypeOK, Goto, SetFrame,
            Return, Unlock, LeaveWithError, disk, records, aux, Labels
    <3>6. SessionsOrdered'
        BY <1>t, <3>3, <3>4 DEF TypeOK, SessionsOrdered, HasSession
    <3>7. FramesFilled'
        BY <1>t, <1>i, <1>9, <2>1, <3>3, <3>4
        DEF WriteLockCreate, TypeOK, FramesFilled, HasSession, Return, Goto, SetFrame
    <3> QED
        BY <3>5, <3>6, <3>7 DEF TypeInv
  <2> QED
      BY <1>9, <2>0, <2>1 DEF WriteLockCreate
<1>10. ASSUME NEW c \in Clients, WriteData(c)
      PROVE  TypeInv'
  <2>s. sessions[c] \in Session
      BY <1>10, <1>t DEF WriteData, TypeOK, HasSession
  <2>w. sessions[c].sentence_working \in Text
      BY <2>s DEF Session
  <2>p. PICK p \in InsertPoints(sessions[c].sentence_working), words \in Edits :
           sessions' = [sessions EXCEPT ![c].sentence_working =
               ss_apply_word_edit(sessions[c].sentence_working, p, words)]
      BY <1>10 DEF WriteData
  <2> DEFINE e == ss_apply_word_edit(sessions[c].sentence_working, p, words)
             S == [sessions[c] EXCEPT !.sentence_working = e]
  <2>e. e \in Text
      BY <2>w, EditType
  <2>a. sessions' = [sessions EXCEPT ![c] = S]
      BY <2>p
  <2>b. /\ S \in Session /\ S.file = sessions[c].file
        /\ S.sentence_start = sessions[c].sentence_start
        /\ S.sentence_end = sessions[c].sentence_end
    <3> HIDE DEF e
    <3> QED
        BY <2>s, <2>e DEF Session
  <2> HIDE DEF S
  <2>f. /\ UNCHANGED <<disk, records, locks, pc, frame, aux>>
      BY <1>10 DEF WriteData
  <2>1. TypeOK'
      BY <1>t, <2>a, <2>b, <2>f DEF TypeOK, disk, records, locks, aux
  <2>c. S # NoSession
      BY <2>b, NoSessionAssumption
  <2>2. SessionsOrdered'
      BY <1>10, <1>t, <2>a, <2>b DEF WriteData, TypeOK, SessionsOrdered,
          HasSession
  <2>3. FramesFilled'
      BY <1>t, <2>a, <2>b, <2>c, <2>f DEF TypeOK, FramesFilled, HasSession
  <2> QED
      BY <2>1, <2>2, <2>3 DEF TypeInv
<1>11. ASSUME NEW c \in Clients, EtirwRequest(c)
      PROVE  TypeInv'
  <2>s. sessions[c] \in Session
      BY <1>11, <1>t DEF EtirwRequest, TypeOK, HasSession
  <2>n. /\ sessions[c].sentence_start \in Nat /\ sessions[c].sentence_end \in Nat
        /\ sessions[c].file \in Recs
      BY <2>s DEF Session
  <2>p. SetFrame(c, [frame[c] EXCEPT !.op = "etirw", !.rec = sessions[c].file,
           !.from = sessions[c].sentence_start, !.to = sessions[c].sentence_end])
      BY <1>11 DEF EtirwRequest
  <2> DEFINE F == [frame[c] EXCEPT !.op = "etirw", !.rec = sessions[c].file,
           !.from = sessions[c].sentence_start, !.to = sessions[c].sentence_end]
  <2>a. /\ F \in Frame
        /\ F.op = "etirw" /\ F.rec = sessions[c].file /\ F.rec \in Recs
    <3>1. frame[c] \in Frame
        BY <1>t DEF TypeOK, Threads
    <3> QED
        BY <3>1, <2>n DEF Frame
  <2>b. c \in Threads /\ frame' = [frame EXCEPT ![c] = F]
      BY <2>p DEF SetFrame, Threads
  <2> HIDE DEF F
  <2>f. frame' \in [Threads -> Frame]
      BY <1>t, <2>a, <2>b DEF TypeOK
  <2>1. TypeOK'
      BY <1>11, <1>t, <2>f, <2>b DEF EtirwRequest, TypeOK, Goto, SetFrame,
          disk, records, locks, aux, Labels
  <2>2. SessionsOrdered'
      BY <1>11, <1>t DEF EtirwRequest, TypeOK, SessionsOrdered, HasSession
  <2>3. FramesFilled'
      BY <1>11, <1>t, <2>a, <2>b DEF EtirwRequest, TypeOK, FramesFilled,
          HasSession, Goto
  <2> QED
      BY <2>1, <2>2, <2>3 DEF TypeInv
<1>12. ASSUME NEW c \in Clients, EtirwLock(c)
      PROVE  TypeInv'
  <2>1. TypeOK'
      BY <1>12, <1>t, <1>i DEF EtirwLock, TypeOK, Goto, disk, records, aux,
          Threads, Labels, Frame
  <2>2. SessionsOrdered'
      BY <1>12, <1>t DEF EtirwLock, TypeOK, SessionsOrdered, HasSession, Goto,
          disk, records, aux
  <2>3. FramesFilled'
      BY <1>12, <1>t, <1>i DEF EtirwLock, TypeOK, FramesFilled, HasSession,
          Goto, disk, records, aux, Threads, Frame
  <2> QED
      BY <2>1, <2>2, <2>3 DEF TypeInv
<1>13. ASSUME NEW c \in Clients, EtirwCommit(c)
      PROVE  TypeInv'
  <2>r. /\ frame[c].rec \in Recs /\ frame[c].from \in Nat /\ frame[c].to \in Nat
        /\ c \in Threads /\ sessions[c] \in Session
      BY <1>13, <1>t DEF EtirwCommit, FramesFilled, TypeOK, Frame, Threads,
          HasSession
  <2>w. sessions[c].sentence_working \in Text
      BY <2>r DEF Session
  <2>t. content \in Text /\ Len(content) \in Nat
      BY <1>t DEF TypeOK, Text
  <2>0. CASE LeaveWithError(c)
    <3>1. TypeOK'
        BY <2>0, <1>t, <1>i, <2>r DEF TypeOK, Goto, SetFrame, Return, Unlock,
            LeaveWithError, disk, records, aux, Labels
    <3>2. SessionsOrdered'
        BY <2>0, <1>t DEF SessionsOrdered, HasSession, LeaveWithError
    <3>3. FramesFilled'
        BY <2>0, <1>t, <1>i DEF TypeOK, FramesFilled, HasSession, Goto,
            SetFrame, Return, Unlock, LeaveWithError, disk, records, aux
    <3> QED
        BY <3>1, <3>2, <3>3 DEF TypeInv
  <2> DEFINE from == frame[c].from
             to == frame[c].to
             new == sessions[c].sentence_working
             old == Span(content, from, to)
             delta == count_sentences_in_span(new) - count_sentences_in_span(old)
             moved == ss_update_active_sessions(c, frame[c].rec, from, to - from,
                                                Len(new), delta)
  <2>1. CASE ~LeaveWithError(c)
    <3>a. /\ ~(~onDisk \/ from > Len(content) \/ to > Len(content) \/ from > to)
          /\ undo' = content /\ undoOnDisk' = TRUE
          /\ content' = Span(content, 0, from) \o new \o Span(content, to, Len(content))
          /\ undoAvail' = [undoAvail EXCEPT ![frame[c].rec] = TRUE]
          /\ sessions' = moved
          /\ Unlock(c) /\ Goto(c, "detach")
          /\ UNCHANGED <<onDisk, listed, freed, ckpts, filesLock, frame, crashed>>
        BY <1>13, <2>1 DEF EtirwCommit
    <3>1. from <= Len(content) /\ to <= Len(content) /\ from <= to
        BY <2>r, <2>t, <3>a
    <3>b. staleCommit' \in BOOLEAN
        BY <1>13, <2>1 DEF EtirwCommit
    <3>2. /\ Span(content, 0, from) \in Text
          /\ Span(content, to, Len(content)) \in Text
          /\ old \in Text
        BY <2>r, <2>t, <3>1, SpanType
    <3>3. content' \in Text
        BY <2>w, <3>a, <3>2 DEF Text
    <3>4. delta \in Int /\ Len(new) \in Nat /\ to - from \in Nat
      <4>1. count_sentences_in_span(new) \in Nat
          BY <2>w, CountType
      <4>2. count_sentences_in_span(old) \in Nat
          BY <3>2, CountType
      <4>3. Len(new) \in Nat
          BY <2>w DEF Text
      <4>4. to - from \in Nat
          BY <2>r, <3>1
      <4> QED
          BY <4>1, <4>2, <4>3, <4>4
    <3>c. from \in Nat
        BY <2>r
    <3> HIDE DEF delta, old, new, from, to
    <3>5. /\ moved \in [Clients -> Session \cup {NoSession}]
          /\ \A d \in Clients :
                /\ moved[d] = NoSession <=> sessions[d] = NoSession
                /\ moved[d] # NoSession =>
                      /\ moved[d].file = sessions[d].file
                      /\ moved[d].sentence_start <= moved[d].sentence_end
        BY <1>t, <3>4, <3>c, UpdateType, Zenon
    <3> HIDE DEF moved
    <3>7. TypeOK'
        BY <1>t, <2>r, <2>t, <3>a, <3>3, <3>5, <3>b DEF TypeOK, Unlock, Goto,
            Labels
    <3>8. SessionsOrdered'
        BY <3>a, <3>5 DEF SessionsOrdered, HasSession
    <3>9. FramesFilled'
        BY <1>13, <1>t, <3>a, <3>5 DEF EtirwCommit, FramesFilled, TypeOK,
            HasSession, Goto
    <3> QED
        BY <3>7, <3>8, <3>9 DEF TypeInv
  <2> QED
      BY <2>0, <2>1
<1>14. ASSUME NEW c \in Clients, EtirwDetach(c)
      PROVE  TypeInv'
  <2>1. TypeOK'
      BY <1>14, <1>t, <1>i DEF EtirwDetach, TypeOK, Goto, disk, records, locks,
          aux, Threads, Labels, Frame, ss_abort_session
  <2>2. SessionsOrdered'
      BY <1>14, <1>t DEF EtirwDetach, TypeOK, SessionsOrdered, HasSession,
          Goto, disk, records, locks, aux, ss_abort_session
  <2>3. FramesFilled'
      BY <1>14, <1>t, <1>i DEF EtirwDetach, TypeOK, FramesFilled, HasSession,
          Goto, disk, records, locks, aux, Threads, Frame, ss_abort_session
  <2> QED
      BY <2>1, <2>2, <2>3 DEF TypeInv
<1>16. ASSUME NEW c \in Clients, ss_sync_metadata_to_ns(c)
      PROVE  TypeInv'
  <2>1. TypeOK'
      BY <1>16, <1>t, <1>i DEF ss_sync_metadata_to_ns, TypeOK, Goto, SetFrame,
          Return, disk, records, locks, aux, Threads, Labels, Frame
  <2>2. SessionsOrdered'
      BY <1>16, <1>t DEF ss_sync_metadata_to_ns, TypeOK, SessionsOrdered,
          HasSession, Goto,
          SetFrame, Return, disk, records, locks
  <2>3. FramesFilled'
      BY <1>16, <1>t, <1>i DEF ss_sync_metadata_to_ns, TypeOK, FramesFilled, HasSession,
          Goto, SetFrame, Return, disk, records, locks, Threads, Frame
  <2> QED
      BY <2>1, <2>2, <2>3 DEF TypeInv
<1>17. ASSUME NEW c \in Clients, Disconnect(c)
      PROVE  TypeInv'
  <2>1. TypeOK'
      BY <1>17, <1>t, <1>i DEF Disconnect, TypeOK, disk, records, locks, aux,
          Threads, Labels, Frame, ss_abort_session
  <2>2. SessionsOrdered'
      BY <1>17, <1>t DEF Disconnect, TypeOK, SessionsOrdered, HasSession, disk,
          records, locks, aux, ss_abort_session
  <2>3. FramesFilled'
      BY <1>17, <1>t, <1>i DEF Disconnect, TypeOK, FramesFilled, HasSession,
          disk, records, locks, aux, Threads, Frame, ss_abort_session
  <2> QED
      BY <2>1, <2>2, <2>3 DEF TypeInv
<1>18. ASSUME NEW c \in Clients, WholeFileRequest(c)
      PROVE  TypeInv'
  <2>c. ClientOps \subseteq ClientOpNames
      BY ConstantsAssumption
  <2>p. PICK op \in ClientOps \ {"lock"},
          tag \in Tags \cup {NoTag} :
           /\ op # "undo" => tag \in Tags
           /\ SetFrame(c, [frame[c] EXCEPT !.op = op, !.tag = tag])
      BY <1>18 DEF WholeFileRequest
  <2> DEFINE F == [frame[c] EXCEPT !.op = op, !.tag = tag]
  <2>a. /\ F \in Frame
        /\ F.op # "undo" => F.tag \in Tags
    <3>1. frame[c] \in Frame
        BY <1>t DEF TypeOK, Threads
    <3> QED
        BY <3>1, <2>c, <2>p DEF Frame
  <2>b. c \in Threads /\ frame' = [frame EXCEPT ![c] = F]
      BY <2>p DEF SetFrame, Threads
  <2> HIDE DEF F
  <2>f. frame' \in [Threads -> Frame]
      BY <1>t, <2>a, <2>b DEF TypeOK
  <2>1. TypeOK'
      BY <1>18, <1>t, <2>f, <2>b DEF WholeFileRequest, TypeOK, Goto, SetFrame,
          disk, records, locks, aux, Labels
  <2>2. SessionsOrdered'
      BY <1>18, <1>t DEF WholeFileRequest, TypeOK, SessionsOrdered, HasSession
  <2>3. FramesFilled'
      BY <1>18, <1>t, <2>a, <2>b DEF WholeFileRequest, TypeOK, FramesFilled,
          HasSession, Goto
  <2> QED
      BY <2>1, <2>2, <2>3 DEF TypeInv
<1>19. ASSUME NEW c \in Clients, CheckpointCheck(c)
      PROVE  TypeInv'
  <2>1. TypeOK'
      BY <1>19, <1>t, <1>i DEF CheckpointCheck, TypeOK, Goto, disk, records,
          locks, aux, Threads, Labels, Frame
  <2>2. SessionsOrdered'
      BY <1>19, <1>t DEF CheckpointCheck, TypeOK, SessionsOrdered, HasSession,
          Goto, disk, records, locks, aux
  <2>3. FramesFilled'
      BY <1>19, <1>t, <1>i DEF CheckpointCheck, TypeOK, FramesFilled,
          HasSession, Goto, disk, records, locks, aux, Threads, Frame
  <2> QED
      BY <2>1, <2>2, <2>3 DEF TypeInv
<1>20. ASSUME NEW c \in Clients, CheckpointSave(c)
      PROVE  TypeInv'
  <2>r. /\ frame[c].rec \in Recs /\ frame[c].tag \in Tags
        /\ c \in Threads
      BY <1>20, <1>t DEF CheckpointSave, FramesFilled, Threads
  <2> DEFINE r == frame[c].rec
             kept == IF Len(ckpts[r]) >= MaxCheckpoints THEN Tail(ckpts[r])
                     ELSE ckpts[r]
             new == [tag |-> frame[c].tag, text |-> content]
  <2>k. Append(kept, new) \in Seq(Checkpoint)
    <3>1. new \in Checkpoint
        BY <1>t, <2>r DEF TypeOK, Checkpoint
    <3>2. ckpts[r] \in Seq(Checkpoint)
        BY <1>t, <2>r DEF TypeOK
    <3>3. kept \in Seq(Checkpoint)
      <4>1. CASE Len(ckpts[r]) >= MaxCheckpoints
        <5>1. ckpts[r] # <<>>
            BY <4>1, ConstantsAssumption
        <5> QED
            BY <3>2, <4>1, <5>1, HeadTailProperties
      <4>2. CASE ~(Len(ckpts[r]) >= MaxCheckpoints)
          BY <3>2, <4>2
      <4> QED
          BY <4>1, <4>2
    <3> HIDE DEF kept, new
    <3> QED
        BY <3>1, <3>3
  <2>u. \/ ckpts' = ckpts
        \/ ckpts' = [ckpts EXCEPT ![r] = Append(kept, new)]
      BY <1>20 DEF CheckpointSave, LeaveWithError, records
  <2>v. ckpts' \in [Recs -> Seq(Checkpoint)]
    <3> HIDE DEF kept, new
    <3> QED
        BY <1>t, <2>r, <2>k, <2>u DEF TypeOK
  <2>1. TypeOK'
      BY <1>20, <1>t, <1>i, <2>r, <2>v DEF CheckpointSave, TypeOK, Goto,
          SetFrame, Return, Unlock, LeaveWithError, disk, records, aux, Labels
  <2>2. SessionsOrdered'
      BY <1>20, <1>t DEF CheckpointSave, SessionsOrdered, HasSession,
          LeaveWithError
  <2>3. FramesFilled'
    <3>1. /\ sessions' = sessions /\ frame' = [frame EXCEPT ![c] = IdleFrame]
          /\ pc' = [pc EXCEPT ![c] = "idle"]
        BY <1>20 DEF CheckpointSave, LeaveWithError, Return, SetFrame, Goto
    <3> QED
        BY <3>1, <1>t, <1>i DEF TypeOK, FramesFilled, HasSession, Threads, Frame
  <2> QED
      BY <2>1, <2>2, <2>3 DEF TypeInv
<1>21. ASSUME NEW c \in Clients, UndoWrite(c)
      PROVE  TypeInv'
  <2>1. TypeOK'
      BY <1>21, <1>t, <1>i DEF UndoWrite, TypeOK, Goto, SetFrame, Return,
          Unlock, aux, Threads, Labels, Frame
  <2>2. SessionsOrdered'
      BY <1>21, <1>t DEF UndoWrite, TypeOK, SessionsOrdered, HasSession, Goto,
          SetFrame, Return, Unlock, aux
  <2>3. FramesFilled'
      BY <1>21, <1>t, <1>i DEF UndoWrite, TypeOK, FramesFilled, HasSession,
          Goto, SetFrame, Return, Unlock, aux, Threads, Frame
  <2> QED
      BY <2>1, <2>2, <2>3 DEF TypeInv
<1>22. ASSUME NEW c \in Clients, RevertWrite(c)
      PROVE  TypeInv'
  <2>1. TypeOK'
    <3>1. CASE ~onDisk
        BY <1>22, <3>1, <1>t, <1>i DEF RevertWrite, TypeOK, Goto, SetFrame,
            Return, Unlock, LeaveWithError, disk, records, aux, Threads, Labels
    <3>2. CASE onDisk
        BY <1>22, <3>2, <1>t, <1>i, ZenonT(60) DEF RevertWrite, TypeOK, Goto, SetFrame,
            Return, Unlock, aux, Threads, Labels, Frame
    <3> QED
        BY <3>1, <3>2
  <2>2. SessionsOrdered'
      BY <1>22, <1>t DEF RevertWrite, TypeOK, SessionsOrdered, HasSession,
          Goto, SetFrame, Return, Unlock, LeaveWithError, disk, records, aux
  <2>3. FramesFilled'
    <3>1. /\ sessions' = sessions /\ frame' = [frame EXCEPT ![c] = IdleFrame]
          /\ pc' = [pc EXCEPT ![c] = "idle"]
        BY <1>22 DEF RevertWrite, LeaveWithError, Return, SetFrame, Goto
    <3> QED
        BY <3>1, <1>t, <1>i DEF TypeOK, FramesFilled, HasSession, Threads, Frame
  <2> QED
      BY <2>1, <2>2, <2>3 DEF TypeInv
<1>23. ASSUME CopyRequest
      PROVE  TypeInv'
  <2>p. SetFrame(NS, [frame[NS] EXCEPT !.op = "copy"])
      BY <1>23 DEF CopyRequest
  <2> DEFINE F == [frame[NS] EXCEPT !.op = "copy"]
  <2>a. /\ F \in Frame
        /\ F.op = "copy"
    <3>1. frame[NS] \in Frame
        BY <1>t DEF TypeOK, Threads
    <3> QED
        BY <3>1 DEF Frame, NsOpNames
  <2>b. NS \in Threads /\ frame' = [frame EXCEPT ![NS] = F]
      BY <2>p DEF SetFrame, Threads
  <2> HIDE DEF F
  <2>f. frame' \in [Threads -> Frame]
      BY <1>t, <2>a, <2>b DEF TypeOK
  <2>1. TypeOK'
      BY <1>23, <1>t, <2>f, <2>b DEF CopyRequest, TypeOK, Goto, SetFrame, disk,
          records, locks, aux, Labels
  <2>2. SessionsOrdered'
      BY <1>23, <1>t DEF CopyRequest, TypeOK, SessionsOrdered, HasSession
  <2>3. FramesFilled'
      BY <1>23, <1>t, <2>a, <2>b DEF CopyRequest, TypeOK, FramesFilled,
          HasSession, Goto
  <2> QED
      BY <2>1, <2>2, <2>3 DEF TypeInv
<1>24. ASSUME CopyWrite
      PROVE  TypeInv'
  <2>n. NS \in Threads /\ frame[NS].text \in Text
      BY <1>t DEF TypeOK, Frame, Threads
  <2>1. TypeOK'
      BY <1>24, <1>t, <1>i, <2>n DEF CopyWrite, TypeOK, Goto, SetFrame,
          Return, Unlock, records, aux, Threads, Labels
  <2>2. SessionsOrdered'
      BY <1>24, <1>t DEF CopyWrite, TypeOK, SessionsOrdered, HasSession
  <2>3. FramesFilled'
      BY <1>24, <1>t, <1>i DEF CopyWrite, TypeOK, FramesFilled, HasSession,
          Goto, Return, SetFrame
  <2> QED
      BY <2>1, <2>2, <2>3 DEF TypeInv
<1>25. ASSUME ss_create_file
      PROVE  TypeInv'
  <2>1. TypeOK'
      BY <1>25, <1>t, <1>i DEF ss_create_file, TypeOK, locks, aux, Threads,
          Labels, Frame, Text
  <2>2. SessionsOrdered'
      BY <1>25, <1>t DEF ss_create_file, TypeOK, SessionsOrdered, HasSession,
          locks, Text
  <2>3. FramesFilled'
      BY <1>25, <1>t, <1>i DEF ss_create_file, TypeOK, FramesFilled,
          HasSession, locks, Threads, Frame, Text
  <2> QED
      BY <2>1, <2>2, <2>3 DEF TypeInv
<1>26. ASSUME ss_delete_file
      PROVE  TypeInv'
  <2>p. PICK r \in listed : SetFrame(NS, [frame[NS] EXCEPT !.op = "delete", !.rec = r])
      BY <1>26 DEF ss_delete_file
  <2> DEFINE F == [frame[NS] EXCEPT !.op = "delete", !.rec = r]
  <2>e. r \in Recs /\ NS \in Threads
      BY <1>t DEF TypeOK, Threads
  <2>a. F \in Frame /\ F.op = "delete" /\ F.rec \in Recs
    <3>1. frame[NS] \in Frame
        BY <1>t, <2>e DEF TypeOK
    <3> QED
        BY <3>1, <2>e DEF Frame, NsOpNames
  <2>b. frame' = [frame EXCEPT ![NS] = F]
      BY <2>p DEF SetFrame
  <2> HIDE DEF F
  <2>f. frame' \in [Threads -> Frame]
      BY <1>t, <2>a, <2>b DEF TypeOK
  <2>1. TypeOK'
      BY <1>26, <1>t, <2>f, <2>e DEF ss_delete_file, TypeOK, Goto, disk,
          records, aux, Labels
  <2>2. SessionsOrdered'
      BY <1>26, <1>t DEF ss_delete_file, SessionsOrdered, HasSession
  <2>3. FramesFilled'
      BY <1>26, <1>t, <2>a, <2>b DEF ss_delete_file, TypeOK, FramesFilled,
          HasSession, Goto
  <2> QED
      BY <2>1, <2>2, <2>3 DEF TypeInv
<1>29. ASSUME DeleteContent
      PROVE  TypeInv'
  <2>e. <<>> \in Text /\ NS \in Threads
      BY DEF Text, Threads
  <2>1. TypeOK'
      BY <1>29, <1>t, <2>e DEF DeleteContent, TypeOK, Goto, records, locks, aux,
          Labels
  <2>2. SessionsOrdered'
      BY <1>29, <1>t DEF DeleteContent, SessionsOrdered, HasSession
  <2>3. FramesFilled'
      BY <1>29, <1>t, <2>e DEF DeleteContent, TypeOK, FramesFilled, HasSession, Goto
  <2> QED
      BY <2>1, <2>2, <2>3 DEF TypeInv
<1>30. ASSUME DeleteRecord
      PROVE  TypeInv'
  <2>e. <<>> \in Text /\ <<>> \in Seq(Checkpoint) /\ NS \in Threads
      BY DEF Text, Threads
  <2>1. TypeOK'
      BY <1>30, <1>t, <2>e DEF DeleteRecord, TypeOK, Goto, aux, Labels
  <2>2. SessionsOrdered'
      BY <1>30, <1>t DEF DeleteRecord, SessionsOrdered, HasSession
  <2>3. FramesFilled'
      BY <1>30, <1>t, <2>e DEF DeleteRecord, TypeOK, FramesFilled, HasSession, Goto
  <2> QED
      BY <2>1, <2>2, <2>3 DEF TypeInv
<1>27. ASSUME FreeRecord
      PROVE  TypeInv'
  <2>1. TypeOK'
      BY <1>27, <1>t, <1>i DEF FreeRecord, TypeOK, Goto, SetFrame, Return,
          disk, locks, aux, Threads, Labels, Frame, FramesFilled
  <2>2. SessionsOrdered'
      BY <1>27, <1>t DEF FreeRecord, TypeOK, SessionsOrdered, HasSession, Goto,
          SetFrame, Return, disk, locks, aux, FramesFilled
  <2>3. FramesFilled'
      BY <1>27, <1>t, <1>i DEF FreeRecord, TypeOK, FramesFilled, HasSession,
          Goto, SetFrame, Return, disk, locks, aux, Threads, Frame
  <2> QED
      BY <2>1, <2>2, <2>3 DEF TypeInv
<1>28. ASSUME Crashed
      PROVE  TypeInv'
  <2> QED
      BY <1>28, <1>u DEF Crashed
<1> QED
    BY <1>u, <1>1, <1>2, <1>3, <1>4, <1>5, <1>6, <1>7, <1>8, <1>9, <1>10,
        <1>11, <1>12, <1>13, <1>14, <1>16, <1>17, <1>18, <1>19, <1>20,
        <1>21, <1>22, <1>23, <1>24, <1>25, <1>26, <1>27, <1>28, <1>29,
        <1>30 DEF Next,
        ClientStep, ThreadStep, NsStep

\* The storage server's state is well typed in every reachable state: offsets
\* and sentence indices stay naturals through ss_update_active_sessions, and
\* every text written to disk, kept for UNDO or saved as a checkpoint is one.
THEOREM TypeCorrect == Spec => []TypeOK
<1>1. Spec => []TypeInv
    BY InitTypeInv, NextTypeInv, PTL DEF Spec
<1>2. TypeInv => TypeOK
    BY DEF TypeInv
<1> QED
    BY <1>1, <1>2, PTL

-----------------------------------------------------------------------------
(* What the record's file_lock guarantees, for every number of clients:
   whole-file operations exclude write sessions, and checkpoint tags stay
   unique. *)

\* The steps between lock and unlock of file_lock belong to its holder.
LocksHeld ==
    \A t \in Threads :
        pc[t] \in {"check", "create", "commit", "replace", "save"}
            => fileLock[frame[t].rec] = t

\* The tag of a checkpoint about to be saved is still new.
SavesNewTag ==
    \A t \in Threads :
        pc[t] = "save" => ~HasTag(frame[t].rec, frame[t].tag)

\* file_lock is released only by the thread that holds it.
LEMMA LocksStep == TypeInv /\ LocksHeld /\ [Next]_vars => LocksHeld'
<1> SUFFICES ASSUME TypeInv, LocksHeld, [Next]_vars PROVE LocksHeld'
    OBVIOUS
<1>t. /\ pc \in [Threads -> Labels] /\ frame \in [Threads -> Frame]
      /\ fileLock \in [Recs -> Threads \cup {NoThread}]
      /\ Clients \subseteq Threads /\ NS \in Threads /\ NoThread \notin Threads
      /\ FramesFilled /\ LocksHeld
    BY ConstantsAssumption DEF TypeInv, TypeOK, Threads
<1>1. ASSUME NEW t \in Threads, FindFile(t) PROVE LocksHeld'
    BY <1>1, <1>t DEF FindFile, SetFrame, Goto, FramesFilled, locks,
        LocksHeld
<1>2. ASSUME NEW t \in Threads, FindFails(t) PROVE LocksHeld'
    BY <1>2, <1>t DEF FindFails, Return, SetFrame, Goto, FramesFilled,
        locks, LocksHeld
<1>3. ASSUME NEW t \in Threads, EnterFile(t) PROVE LocksHeld'
    BY <1>3, <1>t DEF EnterFile, Goto, FramesFilled, locks, LocksHeld
<1>4. ASSUME NEW t \in Threads, WholeFileCheck(t) PROVE LocksHeld'
    BY <1>4, <1>t DEF WholeFileCheck, SetFrame, Goto, FramesFilled, locks,
        LocksHeld
<1>5. ASSUME NEW t \in Threads, WholeFileRefused(t) PROVE LocksHeld'
    BY <1>5, <1>t DEF WholeFileRefused, LeaveWithError, Return, Unlock,
        SetFrame, Goto, FramesFilled, locks, LocksHeld
<1>6. ASSUME NEW t \in Threads, TouchFreed(t) PROVE LocksHeld'
    BY <1>6, <1>t DEF TouchFreed, FramesFilled, locks, LocksHeld
<1>7. ASSUME NEW c \in Clients, NEW i \in 0..MaxIndex, WriteLockRequest(c, i) PROVE LocksHeld'
    BY <1>7, <1>t DEF WriteLockRequest, SetFrame, Goto, FramesFilled,
        locks, LocksHeld
<1>8. ASSUME NEW c \in Clients, WriteLockCheck(c) PROVE LocksHeld'
    BY <1>8, <1>t DEF WriteLockCheck, LeaveWithError, Return, Unlock,
        SetFrame, Goto, FramesFilled, locks, LocksHeld
<1>9. ASSUME NEW c \in Clients, WriteLockCreate(c) PROVE LocksHeld'
    BY <1>9, <1>t DEF WriteLockCreate, LeaveWithError, Return, Unlock,
        SetFrame, Goto, FramesFilled, locks, LocksHeld
<1>10. ASSUME NEW c \in Clients, WriteData(c) PROVE LocksHeld'
    BY <1>10, <1>t DEF WriteData, FramesFilled, locks, LocksHeld
<1>11. ASSUME NEW c \in Clients, EtirwRequest(c) PROVE LocksHeld'
    BY <1>11, <1>t DEF EtirwRequest, SetFrame, Goto, FramesFilled, locks,
        LocksHeld
<1>12. ASSUME NEW c \in Clients, EtirwLock(c) PROVE LocksHeld'
    BY <1>12, <1>t DEF EtirwLock, Goto, FramesFilled, locks, LocksHeld
<1>13. ASSUME NEW c \in Clients, EtirwCommit(c) PROVE LocksHeld'
  <2>1. /\ fileLock' = [fileLock EXCEPT ![frame[c].rec] = NoThread]
        /\ \/ pc' = [pc EXCEPT ![c] = "detach"] /\ frame' = frame
           \/ /\ pc' = [pc EXCEPT ![c] = "idle"]
              /\ frame' = [frame EXCEPT ![c] = IdleFrame]
        /\ pc[c] = "commit"
      BY <1>13 DEF EtirwCommit, LeaveWithError, Return, Unlock, SetFrame, Goto
  <2> QED
      BY <2>1, <1>t DEF LocksHeld, FramesFilled
<1>14. ASSUME NEW c \in Clients, EtirwDetach(c) PROVE LocksHeld'
    BY <1>14, <1>t DEF EtirwDetach, Goto, FramesFilled, locks, LocksHeld
<1>16. ASSUME NEW c \in Clients, ss_sync_metadata_to_ns(c) PROVE LocksHeld'
    BY <1>16, <1>t DEF ss_sync_metadata_to_ns, Return, SetFrame, Goto, FramesFilled,
        locks, LocksHeld
<1>17. ASSUME NEW c \in Clients, Disconnect(c) PROVE LocksHeld'
    BY <1>17, <1>t DEF Disconnect, FramesFilled, locks, LocksHeld
<1>18. ASSUME NEW c \in Clients, WholeFileRequest(c) PROVE LocksHeld'
    BY <1>18, <1>t DEF WholeFileRequest, SetFrame, Goto, FramesFilled,
        locks, LocksHeld
<1>19. ASSUME NEW c \in Clients, CheckpointCheck(c) PROVE LocksHeld'
    BY <1>19, <1>t DEF CheckpointCheck, Goto, FramesFilled, locks,
        LocksHeld
<1>20. ASSUME NEW c \in Clients, CheckpointSave(c) PROVE LocksHeld'
    BY <1>20, <1>t DEF CheckpointSave, LeaveWithError, Return, Unlock,
        SetFrame, Goto, FramesFilled, locks, LocksHeld
<1>21. ASSUME NEW c \in Clients, UndoWrite(c) PROVE LocksHeld'
    BY <1>21, <1>t DEF UndoWrite, Return, Unlock, SetFrame, Goto,
        FramesFilled, locks, LocksHeld
<1>22. ASSUME NEW c \in Clients, RevertWrite(c) PROVE LocksHeld'
    BY <1>22, <1>t DEF RevertWrite, LeaveWithError, Return, Unlock,
        SetFrame, Goto, FramesFilled, locks, LocksHeld
<1>23. ASSUME CopyRequest PROVE LocksHeld'
    BY <1>23, <1>t DEF CopyRequest, SetFrame, Goto, FramesFilled, locks,
        LocksHeld
<1>24. ASSUME CopyWrite PROVE LocksHeld'
    BY <1>24, <1>t DEF CopyWrite, Return, Unlock, SetFrame, Goto,
        FramesFilled, locks, LocksHeld
<1>25. ASSUME ss_create_file PROVE LocksHeld'
    BY <1>25, <1>t DEF ss_create_file, FramesFilled, locks, LocksHeld
<1>26. ASSUME ss_delete_file PROVE LocksHeld'
    BY <1>26, <1>t DEF ss_delete_file, SetFrame, Goto, FramesFilled, locks, LocksHeld
<1>28. ASSUME DeleteContent PROVE LocksHeld'
    BY <1>28, <1>t DEF DeleteContent, Goto, FramesFilled, locks, LocksHeld
<1>29. ASSUME DeleteRecord PROVE LocksHeld'
    BY <1>29, <1>t DEF DeleteRecord, Goto, FramesFilled, locks, LocksHeld
<1>27. ASSUME FreeRecord PROVE LocksHeld'
    BY <1>27, <1>t DEF FreeRecord, Return, SetFrame, Goto, FramesFilled,
        locks, LocksHeld
<1>u. CASE UNCHANGED vars
    BY <1>u, <1>t DEF vars, locks, records, LocksHeld
<1> QED
    BY <1>u, <1>1, <1>2, <1>3, <1>4, <1>5, <1>6, <1>7, <1>8, <1>9, <1>10,
        <1>11, <1>12, <1>13, <1>14, <1>16, <1>17, <1>18, <1>19,
        <1>20, <1>21, <1>22, <1>23, <1>24, <1>25, <1>26, <1>27, <1>28, <1>29 DEF Next,
        ClientStep, ThreadStep, NsStep, Crashed

\* A commit adds no session and moves none to another file.
LEMMA CommitKeepsTargets ==
    ASSUME TypeInv, NEW c \in Clients, EtirwCommit(c)
    PROVE  \A d \in Clients : sessions'[d] # NoSession =>
              sessions[d] # NoSession /\ sessions'[d].file = sessions[d].file
<1> DEFINE r == frame[c].rec
           from == frame[c].from
           to == frame[c].to
           new == sessions[c].sentence_working
           delta == count_sentences_in_span(new)
                      - count_sentences_in_span(Span(content, from, to))
<1>1. CASE LeaveWithError(c)
    BY <1>1 DEF LeaveWithError
<1>2. CASE /\ sessions' = ss_update_active_sessions(c, r, from, to - from,
                              Len(new), delta)
           /\ from <= to /\ to <= Len(content)
  <2>1. /\ TypeOK /\ SessionsOrdered
        /\ c \in Threads /\ content \in Text
        /\ sessions[c] \in Session /\ frame[c] \in Frame
    <3>1. c \in Threads
        BY DEF Threads
    <3>2. HasSession(c)
        BY <3>1 DEF TypeInv, FramesFilled, EtirwCommit
    <3> QED
        BY <3>1, <3>2 DEF TypeInv, TypeOK, HasSession
  <2>2. from \in Nat /\ to \in Nat /\ new \in Text /\ Len(new) \in Nat
      BY <2>1 DEF Session, Frame, Text
  <2>3. Span(content, from, to) \in Text
      BY <2>1, <2>2, <1>2, SpanType
  <2>4. /\ count_sentences_in_span(new) \in Nat
        /\ count_sentences_in_span(Span(content, from, to)) \in Nat
      BY <2>2, <2>3, CountType
  <2>5. delta \in Int /\ to - from \in Nat
      BY <2>2, <2>4, <1>2
  <2> DEFINE moved == ss_update_active_sessions(c, r, from, to - from, Len(new),
                                                delta)
  <2>6. sessions' = moved
      BY <1>2
  <2> HIDE DEF delta, from, to, new, r
  <2>7. /\ moved \in [Clients -> Session \cup {NoSession}]
        /\ \A d \in Clients :
              /\ moved[d] = NoSession <=> sessions[d] = NoSession
              /\ moved[d] # NoSession =>
                    /\ moved[d].file = sessions[d].file
                    /\ moved[d].sentence_start <= moved[d].sentence_end
      BY <2>1, <2>2, <2>5, UpdateType, Zenon
  <2> QED
      BY <2>6, <2>7
<1>3. /\ c \in Threads /\ content \in Text /\ frame[c] \in Frame
    BY DEF TypeInv, TypeOK, Threads
<1>4. from \in Nat /\ to \in Nat /\ Len(content) \in Nat
    BY <1>3 DEF Frame, Text
<1>5. CASE ~LeaveWithError(c)
  <2>1. /\ ~(~onDisk \/ from > Len(content) \/ to > Len(content) \/ from > to)
        /\ sessions' = ss_update_active_sessions(c, r, from, to - from,
                           Len(new), delta)
      BY <1>5 DEF EtirwCommit
  <2>2. from <= to /\ to <= Len(content)
      BY <1>4, <2>1
  <2> QED
      BY <1>2, <2>1, <2>2
<1> QED
    BY <1>1, <1>5

\* No write session appears on a file between the check for writers and the
\* write of UNDO, REVERT, SS_COPY or CHECKPOINT, and ETIRW re-targets none.
LEMMA ExclusiveStep ==
    TypeInv /\ LocksHeld /\ WholeFileOpsExclusive /\ [Next]_vars
        => WholeFileOpsExclusive'
<1> SUFFICES ASSUME TypeInv, LocksHeld, WholeFileOpsExclusive, [Next]_vars
             PROVE  WholeFileOpsExclusive'
    OBVIOUS
<1>t. /\ pc \in [Threads -> Labels] /\ frame \in [Threads -> Frame]
      /\ sessions \in [Clients -> Session \cup {NoSession}]
      /\ Clients \subseteq Threads /\ NS \in Threads
      /\ FramesFilled /\ LocksHeld /\ WholeFileOpsExclusive
    BY DEF TypeInv, TypeOK, Threads
<1>1. ASSUME NEW t \in Threads, FindFile(t) PROVE WholeFileOpsExclusive'
    BY <1>1, <1>t DEF FindFile, SetFrame, Goto, WholeFileOpsExclusive,
        ss_file_has_active_writers, HasSession
<1>2. ASSUME NEW t \in Threads, FindFails(t) PROVE WholeFileOpsExclusive'
    BY <1>2, <1>t DEF FindFails, Return, SetFrame, Goto,
        WholeFileOpsExclusive, ss_file_has_active_writers, HasSession
<1>3. ASSUME NEW t \in Threads, EnterFile(t) PROVE WholeFileOpsExclusive'
    BY <1>3, <1>t DEF EnterFile, Goto, WholeFileOpsExclusive,
        ss_file_has_active_writers, HasSession
<1>4. ASSUME NEW t \in Threads, WholeFileCheck(t) PROVE WholeFileOpsExclusive'
    BY <1>4, <1>t DEF WholeFileCheck, SetFrame, Goto,
        WholeFileOpsExclusive, ss_file_has_active_writers, HasSession
<1>5. ASSUME NEW t \in Threads, WholeFileRefused(t) PROVE WholeFileOpsExclusive'
    BY <1>5, <1>t DEF WholeFileRefused, LeaveWithError, Return, Unlock,
        SetFrame, Goto, WholeFileOpsExclusive, ss_file_has_active_writers,
        HasSession
<1>6. ASSUME NEW t \in Threads, TouchFreed(t) PROVE WholeFileOpsExclusive'
    BY <1>6, <1>t DEF TouchFreed, WholeFileOpsExclusive,
        ss_file_has_active_writers, HasSession
<1>7. ASSUME NEW c \in Clients, NEW i \in 0..MaxIndex, WriteLockRequest(c, i) PROVE WholeFileOpsExclusive'
    BY <1>7, <1>t DEF WriteLockRequest, SetFrame, Goto, ss_abort_session,
        WholeFileOpsExclusive, ss_file_has_active_writers, HasSession
<1>8. ASSUME NEW c \in Clients, WriteLockCheck(c) PROVE WholeFileOpsExclusive'
    BY <1>8, <1>t DEF WriteLockCheck, LeaveWithError, Return, Unlock,
        SetFrame, Goto, WholeFileOpsExclusive, ss_file_has_active_writers,
        HasSession
<1>9. ASSUME NEW c \in Clients, WriteLockCreate(c) PROVE WholeFileOpsExclusive'
  <2>1. CASE LeaveWithError(c)
      BY <2>1, <1>t DEF LeaveWithError, Return, SetFrame, Goto,
          WholeFileOpsExclusive, ss_file_has_active_writers, HasSession
  <2>2. CASE \E b \in ss_get_sentence_bounds(content, frame[c].index) :
                sessions' = [sessions EXCEPT ![c] =
                    ss_create_session(frame[c].rec, frame[c].index, b.start,
                                      b.end, content)]
    <3>0. PICK b \in ss_get_sentence_bounds(content, frame[c].index) :
                sessions' = [sessions EXCEPT ![c] =
                    ss_create_session(frame[c].rec, frame[c].index, b.start,
                                      b.end, content)]
        BY <2>2
    <3> DEFINE u == ss_create_session(frame[c].rec, frame[c].index, b.start,
                                      b.end, content)
    <3>1. /\ sessions' = [sessions EXCEPT ![c] = u]
          /\ u.file = frame[c].rec
        BY <3>0 DEF ss_create_session
    <3> HIDE DEF u
    <3>2. CASE ~LeaveWithError(c)
      <4>1. /\ pc[c] = "create" /\ pc' = [pc EXCEPT ![c] = "idle"]
            /\ frame' = [frame EXCEPT ![c] = IdleFrame]
          BY <1>9, <3>2 DEF WriteLockCreate, Return, SetFrame, Goto
      <4> QED
          BY <3>1, <4>1, <1>t DEF LocksHeld, WholeFileOpsExclusive,
              ss_file_has_active_writers, HasSession
    <3> QED
        BY <2>1, <3>2
  <2> QED
      BY <1>9, <2>1, <2>2 DEF WriteLockCreate
<1>10. ASSUME NEW c \in Clients, WriteData(c) PROVE WholeFileOpsExclusive'
  <2>1. PICK x : sessions' = [sessions EXCEPT ![c].sentence_working = x]
      BY <1>10 DEF WriteData
  <2>2. HasSession(c) /\ sessions[c] \in Session
      BY <1>10, <1>t DEF WriteData, HasSession
  <2>3. \A d \in Clients : sessions'[d] # NoSession =>
              sessions[d] # NoSession /\ sessions'[d].file = sessions[d].file
      BY <2>1, <2>2, <1>t DEF HasSession, Session
  <2>4. UNCHANGED <<pc, frame>>
      BY <1>10 DEF WriteData
  <2> QED
      BY <2>3, <2>4, <1>t DEF WholeFileOpsExclusive,
          ss_file_has_active_writers, HasSession
<1>11. ASSUME NEW c \in Clients, EtirwRequest(c) PROVE WholeFileOpsExclusive'
    BY <1>11, <1>t DEF EtirwRequest, SetFrame, Goto,
        WholeFileOpsExclusive, ss_file_has_active_writers, HasSession
<1>12. ASSUME NEW c \in Clients, EtirwLock(c) PROVE WholeFileOpsExclusive'
    BY <1>12, <1>t DEF EtirwLock, Goto, WholeFileOpsExclusive,
        ss_file_has_active_writers, HasSession
<1>13. ASSUME NEW c \in Clients, EtirwCommit(c) PROVE WholeFileOpsExclusive'
  <2>1. \/ /\ pc' = [pc EXCEPT ![c] = "detach"]
           /\ UNCHANGED frame
        \/ /\ pc' = [pc EXCEPT ![c] = "idle"]
           /\ frame' = [frame EXCEPT ![c] = IdleFrame]
      BY <1>13 DEF EtirwCommit, LeaveWithError, Return, SetFrame, Goto
  <2>2. \A d \in Clients : sessions'[d] # NoSession =>
              sessions[d] # NoSession /\ sessions'[d].file = sessions[d].file
      BY <1>13, CommitKeepsTargets
  <2> QED
      BY <2>1, <2>2, <1>t DEF WholeFileOpsExclusive,
          ss_file_has_active_writers, HasSession
<1>14. ASSUME NEW c \in Clients, EtirwDetach(c) PROVE WholeFileOpsExclusive'
    BY <1>14, <1>t DEF EtirwDetach, Goto, ss_abort_session,
        WholeFileOpsExclusive, ss_file_has_active_writers, HasSession
<1>16. ASSUME NEW c \in Clients, ss_sync_metadata_to_ns(c) PROVE WholeFileOpsExclusive'
    BY <1>16, <1>t DEF ss_sync_metadata_to_ns, Return, SetFrame, Goto,
        WholeFileOpsExclusive, ss_file_has_active_writers, HasSession
<1>17. ASSUME NEW c \in Clients, Disconnect(c) PROVE WholeFileOpsExclusive'
    BY <1>17, <1>t DEF Disconnect, ss_abort_session,
        WholeFileOpsExclusive, ss_file_has_active_writers, HasSession
<1>18. ASSUME NEW c \in Clients, WholeFileRequest(c) PROVE WholeFileOpsExclusive'
    BY <1>18, <1>t DEF WholeFileRequest, SetFrame, Goto,
        WholeFileOpsExclusive, ss_file_has_active_writers, HasSession
<1>19. ASSUME NEW c \in Clients, CheckpointCheck(c) PROVE WholeFileOpsExclusive'
    BY <1>19, <1>t DEF CheckpointCheck, Goto, WholeFileOpsExclusive,
        ss_file_has_active_writers, HasSession
<1>20. ASSUME NEW c \in Clients, CheckpointSave(c) PROVE WholeFileOpsExclusive'
    BY <1>20, <1>t DEF CheckpointSave, LeaveWithError, Return, Unlock,
        SetFrame, Goto, WholeFileOpsExclusive, ss_file_has_active_writers,
        HasSession
<1>21. ASSUME NEW c \in Clients, UndoWrite(c) PROVE WholeFileOpsExclusive'
    BY <1>21, <1>t DEF UndoWrite, Return, Unlock, SetFrame, Goto,
        WholeFileOpsExclusive, ss_file_has_active_writers, HasSession
<1>22. ASSUME NEW c \in Clients, RevertWrite(c) PROVE WholeFileOpsExclusive'
    BY <1>22, <1>t DEF RevertWrite, LeaveWithError, Return, Unlock,
        SetFrame, Goto, WholeFileOpsExclusive, ss_file_has_active_writers,
        HasSession
<1>23. ASSUME CopyRequest PROVE WholeFileOpsExclusive'
    BY <1>23, <1>t DEF CopyRequest, SetFrame, Goto, WholeFileOpsExclusive,
        ss_file_has_active_writers, HasSession
<1>24. ASSUME CopyWrite PROVE WholeFileOpsExclusive'
    BY <1>24, <1>t DEF CopyWrite, Return, Unlock, SetFrame, Goto,
        WholeFileOpsExclusive, ss_file_has_active_writers, HasSession
<1>25. ASSUME ss_create_file PROVE WholeFileOpsExclusive'
    BY <1>25, <1>t DEF ss_create_file, WholeFileOpsExclusive,
        ss_file_has_active_writers, HasSession
<1>26. ASSUME ss_delete_file PROVE WholeFileOpsExclusive'
    BY <1>26, <1>t DEF ss_delete_file, SetFrame, Goto, WholeFileOpsExclusive, ss_file_has_active_writers,
        HasSession
<1>28. ASSUME DeleteContent PROVE WholeFileOpsExclusive'
    BY <1>28, <1>t DEF DeleteContent, Goto, WholeFileOpsExclusive, ss_file_has_active_writers,
        HasSession
<1>29. ASSUME DeleteRecord PROVE WholeFileOpsExclusive'
    BY <1>29, <1>t DEF DeleteRecord, Goto, WholeFileOpsExclusive, ss_file_has_active_writers,
        HasSession
<1>27. ASSUME FreeRecord PROVE WholeFileOpsExclusive'
    BY <1>27, <1>t DEF FreeRecord, Return, SetFrame, Goto,
        WholeFileOpsExclusive, ss_file_has_active_writers, HasSession
<1>u. CASE UNCHANGED vars
    BY <1>u, <1>t DEF vars, locks, records, WholeFileOpsExclusive,
        ss_file_has_active_writers, HasSession
<1> QED
    BY <1>u, <1>1, <1>2, <1>3, <1>4, <1>5, <1>6, <1>7, <1>8, <1>9, <1>10,
        <1>11, <1>12, <1>13, <1>14, <1>16, <1>17, <1>18, <1>19,
        <1>20, <1>21, <1>22, <1>23, <1>24, <1>25, <1>26, <1>27, <1>28, <1>29 DEF Next,
        ClientStep, ThreadStep, NsStep, Crashed

\* The checkpoints of a file change only under its file_lock (CHECKPOINT), or
\* all go at once (DELETE_FILE), so a tag checked to be new is new when saved.
LEMMA TagsStep ==
    TypeInv /\ LocksHeld /\ SavesNewTag /\ CheckpointTagsUnique /\ [Next]_vars
        => SavesNewTag' /\ CheckpointTagsUnique'
<1> SUFFICES ASSUME TypeInv, LocksHeld, SavesNewTag, CheckpointTagsUnique,
                    [Next]_vars
             PROVE  SavesNewTag' /\ CheckpointTagsUnique'
    OBVIOUS
<1>t. /\ pc \in [Threads -> Labels] /\ frame \in [Threads -> Frame]
      /\ ckpts \in [Recs -> Seq(Checkpoint)]
      /\ Clients \subseteq Threads /\ NS \in Threads
      /\ FramesFilled /\ LocksHeld /\ SavesNewTag /\ CheckpointTagsUnique
    BY DEF TypeInv, TypeOK, Threads
<1>1. ASSUME NEW t \in Threads, FindFile(t) PROVE SavesNewTag' /\ CheckpointTagsUnique'
  <2>1. PICK F : frame' = [frame EXCEPT ![t] = F]
      BY <1>1 DEF FindFile, SetFrame
  <2> QED
      BY <1>1, <2>1, <1>t DEF FindFile, Goto, SavesNewTag, CheckpointTagsUnique,
          HasTag, records
<1>2. ASSUME NEW t \in Threads, FindFails(t) PROVE SavesNewTag' /\ CheckpointTagsUnique'
    BY <1>2, <1>t DEF FindFails, Return, SetFrame, Goto, SavesNewTag,
        CheckpointTagsUnique, HasTag, records
<1>3. ASSUME NEW t \in Threads, EnterFile(t) PROVE SavesNewTag' /\ CheckpointTagsUnique'
    BY <1>3, <1>t DEF EnterFile, Goto, SavesNewTag, CheckpointTagsUnique,
        HasTag, records
<1>4. ASSUME NEW t \in Threads, WholeFileCheck(t) PROVE SavesNewTag' /\ CheckpointTagsUnique'
  <2>1. PICK F : frame' = [frame EXCEPT ![t] = F]
      BY <1>4 DEF WholeFileCheck, SetFrame
  <2> QED
      BY <1>4, <2>1, <1>t DEF WholeFileCheck, Goto, SavesNewTag, CheckpointTagsUnique,
          HasTag, records
<1>5. ASSUME NEW t \in Threads, WholeFileRefused(t) PROVE SavesNewTag' /\ CheckpointTagsUnique'
    BY <1>5, <1>t DEF WholeFileRefused, LeaveWithError, Return, Unlock,
        SetFrame, Goto, SavesNewTag, CheckpointTagsUnique, HasTag, records
<1>6. ASSUME NEW t \in Threads, TouchFreed(t) PROVE SavesNewTag' /\ CheckpointTagsUnique'
    BY <1>6, <1>t DEF TouchFreed, SavesNewTag, CheckpointTagsUnique,
        HasTag, records
<1>7. ASSUME NEW c \in Clients, NEW i \in 0..MaxIndex, WriteLockRequest(c, i) PROVE SavesNewTag' /\ CheckpointTagsUnique'
    BY <1>7, <1>t DEF WriteLockRequest, SetFrame, Goto, SavesNewTag,
        CheckpointTagsUnique, HasTag, records
<1>8. ASSUME NEW c \in Clients, WriteLockCheck(c) PROVE SavesNewTag' /\ CheckpointTagsUnique'
  <2>1. /\ ckpts' = ckpts
        /\ \/ /\ frame' = [frame EXCEPT ![c] = IdleFrame]
              /\ pc' = [pc EXCEPT ![c] = "idle"]
           \/ /\ frame' = frame
              /\ pc' = [pc EXCEPT ![c] = "create"]
      BY <1>8 DEF WriteLockCheck, LeaveWithError, Return, SetFrame, Goto, records
  <2>2. SavesNewTag'
      BY <2>1, <1>t DEF SavesNewTag, HasTag
  <2>3. CheckpointTagsUnique'
      BY <2>1, <1>t DEF CheckpointTagsUnique
  <2> QED
      BY <2>2, <2>3
<1>9. ASSUME NEW c \in Clients, WriteLockCreate(c) PROVE SavesNewTag' /\ CheckpointTagsUnique'
    BY <1>9, <1>t DEF WriteLockCreate, LeaveWithError, Return, Unlock,
        SetFrame, Goto, SavesNewTag, CheckpointTagsUnique, HasTag, records
<1>10. ASSUME NEW c \in Clients, WriteData(c) PROVE SavesNewTag' /\ CheckpointTagsUnique'
    BY <1>10, <1>t DEF WriteData, SavesNewTag, CheckpointTagsUnique,
        HasTag, records
<1>11. ASSUME NEW c \in Clients, EtirwRequest(c) PROVE SavesNewTag' /\ CheckpointTagsUnique'
    BY <1>11, <1>t DEF EtirwRequest, SetFrame, Goto, SavesNewTag,
        CheckpointTagsUnique, HasTag, records
<1>12. ASSUME NEW c \in Clients, EtirwLock(c) PROVE SavesNewTag' /\ CheckpointTagsUnique'
    BY <1>12, <1>t DEF EtirwLock, Goto, SavesNewTag, CheckpointTagsUnique,
        HasTag, records
<1>13. ASSUME NEW c \in Clients, EtirwCommit(c) PROVE SavesNewTag' /\ CheckpointTagsUnique'
    BY <1>13, <1>t, ZenonT(60) DEF EtirwCommit, LeaveWithError, Return, Unlock,
        SetFrame, Goto, SavesNewTag, CheckpointTagsUnique, HasTag, records
<1>14. ASSUME NEW c \in Clients, EtirwDetach(c) PROVE SavesNewTag' /\ CheckpointTagsUnique'
    BY <1>14, <1>t DEF EtirwDetach, Goto, SavesNewTag,
        CheckpointTagsUnique, HasTag, records
<1>16. ASSUME NEW c \in Clients, ss_sync_metadata_to_ns(c) PROVE SavesNewTag' /\ CheckpointTagsUnique'
    BY <1>16, <1>t DEF ss_sync_metadata_to_ns, Return, SetFrame, Goto, SavesNewTag,
        CheckpointTagsUnique, HasTag, records
<1>17. ASSUME NEW c \in Clients, Disconnect(c) PROVE SavesNewTag' /\ CheckpointTagsUnique'
    BY <1>17, <1>t DEF Disconnect, SavesNewTag, CheckpointTagsUnique,
        HasTag, records
<1>18. ASSUME NEW c \in Clients, WholeFileRequest(c) PROVE SavesNewTag' /\ CheckpointTagsUnique'
  <2>1. PICK F : frame' = [frame EXCEPT ![c] = F]
      BY <1>18 DEF WholeFileRequest, SetFrame
  <2> QED
      BY <1>18, <2>1, <1>t DEF WholeFileRequest, Goto, SavesNewTag, CheckpointTagsUnique,
          HasTag, records
<1>19. ASSUME NEW c \in Clients, CheckpointCheck(c) PROVE SavesNewTag' /\ CheckpointTagsUnique'
    BY <1>19, <1>t DEF CheckpointCheck, Goto, SavesNewTag,
        CheckpointTagsUnique, HasTag, records
<1>20. ASSUME NEW c \in Clients, CheckpointSave(c) PROVE SavesNewTag' /\ CheckpointTagsUnique'
  <2> DEFINE r == frame[c].rec
             kept == IF Len(ckpts[r]) >= MaxCheckpoints
                     THEN Tail(ckpts[r]) ELSE ckpts[r]
             new == Append(kept, [tag |-> frame[c].tag, text |-> content])
  <2>1. CASE ~onDisk
      BY <1>20, <2>1, <1>t DEF CheckpointSave, LeaveWithError, Return, Unlock,
          SetFrame, Goto, records, SavesNewTag, CheckpointTagsUnique, HasTag
  <2>2. CASE onDisk
    <3>1. /\ r \in Recs /\ ckpts[r] \in Seq(Checkpoint)
          /\ ckpts' = [ckpts EXCEPT ![r] = new]
          /\ pc' = [pc EXCEPT ![c] = "idle"]
          /\ frame' = [frame EXCEPT ![c] = IdleFrame]
          /\ pc[c] = "save"
        BY <1>20, <2>2, <1>t DEF CheckpointSave, FramesFilled, Return, SetFrame,
            Goto
    <3>2. SavesNewTag'
      <4> HIDE DEF new, r
      <4>1. ASSUME NEW t \in Threads, pc'[t] = "save"
            PROVE  ckpts'[frame'[t].rec] = ckpts[frame[t].rec]
                     /\ frame'[t] = frame[t] /\ pc[t] = "save"
          BY <1>t, <3>1, <4>1 DEF LocksHeld, FramesFilled, r
      <4> QED
          BY <1>t, <4>1, ZenonT(60) DEF SavesNewTag, HasTag
    <3>3. /\ kept \in Seq(Checkpoint)
          /\ \A i \in DOMAIN kept : kept[i].tag # frame[c].tag
          /\ \A i, j \in DOMAIN kept : kept[i].tag = kept[j].tag => i = j
      <4>1. /\ \A i \in DOMAIN ckpts[r] : ckpts[r][i].tag # frame[c].tag
            /\ \A i, j \in DOMAIN ckpts[r] :
                  ckpts[r][i].tag = ckpts[r][j].tag => i = j
          BY <1>t, <3>1 DEF SavesNewTag, HasTag, CheckpointTagsUnique
      <4>2. CASE Len(ckpts[r]) >= MaxCheckpoints
        <5>1. Len(ckpts[r]) > 0
            BY <3>1, <4>2, ConstantsAssumption
        <5> HIDE DEF r
        <5>2. /\ Tail(ckpts[r]) \in Seq(Checkpoint)
              /\ Len(Tail(ckpts[r])) = Len(ckpts[r]) - 1
              /\ \A i \in 1..(Len(ckpts[r]) - 1) :
                    Tail(ckpts[r])[i] = ckpts[r][i + 1]
            BY <3>1, <5>1
        <5> QED
            BY <3>1, <4>1, <4>2, <5>1, <5>2
      <4>3. CASE ~(Len(ckpts[r]) >= MaxCheckpoints)
          BY <3>1, <4>1, <4>3
      <4> QED
          BY <4>2, <4>3
    <3> HIDE DEF kept
    <3>4. \A i, j \in DOMAIN new : new[i].tag = new[j].tag => i = j
        BY <3>3
    <3>5. CheckpointTagsUnique'
      <4> HIDE DEF new
      <4> QED
          BY <1>t, <3>1, <3>4 DEF CheckpointTagsUnique
    <3> QED
        BY <3>2, <3>5
  <2> QED
      BY <2>1, <2>2
<1>21. ASSUME NEW c \in Clients, UndoWrite(c) PROVE SavesNewTag' /\ CheckpointTagsUnique'
    BY <1>21, <1>t DEF UndoWrite, Return, Unlock, SetFrame, Goto,
        SavesNewTag, CheckpointTagsUnique, HasTag, records
<1>22. ASSUME NEW c \in Clients, RevertWrite(c) PROVE SavesNewTag' /\ CheckpointTagsUnique'
  <2>1. /\ ckpts' = ckpts /\ frame' = [frame EXCEPT ![c] = IdleFrame]
        /\ pc' = [pc EXCEPT ![c] = "idle"]
      BY <1>22 DEF RevertWrite, LeaveWithError, Return, SetFrame, Goto, records
  <2>2. SavesNewTag'
      BY <2>1, <1>t DEF SavesNewTag, HasTag
  <2>3. CheckpointTagsUnique'
      BY <2>1, <1>t DEF CheckpointTagsUnique
  <2> QED
      BY <2>2, <2>3
<1>23. ASSUME CopyRequest PROVE SavesNewTag' /\ CheckpointTagsUnique'
    BY <1>23, <1>t DEF CopyRequest, SetFrame, Goto, SavesNewTag,
        CheckpointTagsUnique, HasTag, records
<1>24. ASSUME CopyWrite PROVE SavesNewTag' /\ CheckpointTagsUnique'
    BY <1>24, <1>t DEF CopyWrite, Return, Unlock, SetFrame, Goto,
        SavesNewTag, CheckpointTagsUnique, HasTag, records
<1>25. ASSUME ss_create_file PROVE SavesNewTag' /\ CheckpointTagsUnique'
    BY <1>25, <1>t DEF ss_create_file, SavesNewTag, CheckpointTagsUnique,
        HasTag, records
<1>26. ASSUME ss_delete_file PROVE SavesNewTag' /\ CheckpointTagsUnique'
  <2>1. /\ ckpts' = ckpts /\ pc' = [pc EXCEPT ![NS] = "unlink"]
        /\ \E x : frame' = [frame EXCEPT ![NS] = x]
      BY <1>26 DEF ss_delete_file, SetFrame, Goto, records
  <2> QED
      BY <2>1, <1>t, ZenonT(60) DEF SavesNewTag, CheckpointTagsUnique, HasTag
<1>28. ASSUME DeleteContent PROVE SavesNewTag' /\ CheckpointTagsUnique'
    BY <1>28, <1>t DEF DeleteContent, Goto, SavesNewTag, CheckpointTagsUnique,
        HasTag, records
<1>29. ASSUME DeleteRecord PROVE SavesNewTag' /\ CheckpointTagsUnique'
    BY <1>29, <1>t DEF DeleteRecord, Goto, SavesNewTag, CheckpointTagsUnique,
        HasTag, records
<1>27. ASSUME FreeRecord PROVE SavesNewTag' /\ CheckpointTagsUnique'
    BY <1>27, <1>t DEF FreeRecord, Return, SetFrame, Goto, SavesNewTag,
        CheckpointTagsUnique, HasTag, records
<1>u. CASE UNCHANGED vars
    BY <1>u, <1>t DEF vars, locks, records, SavesNewTag,
        CheckpointTagsUnique, HasTag
<1> QED
    BY <1>u, <1>1, <1>2, <1>3, <1>4, <1>5, <1>6, <1>7, <1>8, <1>9, <1>10,
        <1>11, <1>12, <1>13, <1>14, <1>16, <1>17, <1>18, <1>19,
        <1>20, <1>21, <1>22, <1>23, <1>24, <1>25, <1>26, <1>27, <1>28, <1>29 DEF Next,
        ClientStep, ThreadStep, NsStep, Crashed

-----------------------------------------------------------------------------

\* The inductive invariant of file_lock.
ExclusionInv ==
    TypeInv /\ LocksHeld /\ WholeFileOpsExclusive /\ SavesNewTag
        /\ CheckpointTagsUnique

\* The exclusion invariant holds of a server that has just loaded its files ...
LEMMA ExclusionInit == Init => ExclusionInv
BY InitTypeInv DEF Init, ExclusionInv, LocksHeld, WholeFileOpsExclusive, SavesNewTag,
    CheckpointTagsUnique

\* ... and every step of a handler keeps it.
LEMMA ExclusionStep == ExclusionInv /\ [Next]_vars => ExclusionInv'
BY NextTypeInv, LocksStep, ExclusiveStep, TagsStep DEF ExclusionInv

\* The exclusion invariant holds in every state.
LEMMA ExclusionInvariant == Spec => []ExclusionInv
BY ExclusionInit, ExclusionStep, PTL DEF Spec

\* UNDO, REVERT, SS_COPY and CHECKPOINT never write a file on which a write
\* session is open, for every number of clients and of file records.
THEOREM WholeFileExclusion == Spec => []WholeFileOpsExclusive
<1>1. ExclusionInv => WholeFileOpsExclusive
    BY DEF ExclusionInv
<1> QED
    BY <1>1, ExclusionInvariant, PTL

\* The checkpoints of a file carry pairwise different tags, whatever the
\* order of the CHECKPOINT requests and whatever SS_MAX_CHECKPOINTS.
THEOREM UniqueTags == Spec => []CheckpointTagsUnique
<1>1. ExclusionInv => CheckpointTagsUnique
    BY DEF ExclusionInv
<1> QED
    BY <1>1, ExclusionInvariant, PTL

-----------------------------------------------------------------------------
(* Sentences of a text *)

\* The delimiters up to position x.
DotsTo(s, x) == {p \in Dots(s) : p <= x}

\* Offsets a and e bound the sentence with index i.
IsSentence(s, i, a, e) ==
    /\ a \in Nat /\ e \in Nat /\ a <= e /\ e <= Len(s)
    /\ a = 0 \/ s[a] = Dot
    /\ Cardinality(DotsTo(s, a)) = i
    /\ e = Len(s) \/ (a < e /\ s[e] = Dot)
    /\ \A p \in Dots(s) : p <= a \/ e <= p

\* IsSentence says what ss_get_sentence_bounds finds.
LEMMA BoundsAreSentence ==
    ASSUME NEW s \in Text, NEW i, NEW a, NEW e
    PROVE  [start |-> a, end |-> e] \in ss_get_sentence_bounds(s, i)
              <=> IsSentence(s, i, a, e)
<1> DEFINE b == [start |-> a, end |-> e]
<1>1. b \in [start : 0..Len(s), end : 0..Len(s)] <=> a \in 0..Len(s) /\ e \in 0..Len(s)
  OBVIOUS
<1>2. b.start = a /\ b.end = e
  OBVIOUS
<1>3. Len(s) \in Nat
  BY DEF Text
<1>4. b \in ss_get_sentence_bounds(s, i) <=>
        /\ b \in [start : 0..Len(s), end : 0..Len(s)]
        /\ b.start <= b.end
        /\ b.start = 0 \/ s[b.start] = Dot
        /\ Cardinality({p \in Dots(s) : p <= b.start}) = i
        /\ b.end = Len(s) \/ (b.start < b.end /\ s[b.end] = Dot)
        /\ \A p \in Dots(s) : p <= b.start \/ b.end <= p
  BY DEF ss_get_sentence_bounds
<1>5. {p \in Dots(s) : p <= b.start} = DotsTo(s, a)
  BY <1>2 DEF DotsTo
<1>6. a \in 0..Len(s) /\ e \in 0..Len(s) /\ a <= e
        <=> a \in Nat /\ e \in Nat /\ a <= e /\ e <= Len(s)
  BY <1>3
<1> HIDE DEF b
<1>7. b \in ss_get_sentence_bounds(s, i) <=>
        /\ a \in 0..Len(s) /\ e \in 0..Len(s)
        /\ a <= e
        /\ a = 0 \/ s[a] = Dot
        /\ Cardinality(DotsTo(s, a)) = i
        /\ e = Len(s) \/ (a < e /\ s[e] = Dot)
        /\ \A p \in Dots(s) : p <= a \/ e <= p
  BY <1>1, <1>2, <1>4, <1>5
<1> QED BY <1>6, <1>7 DEF IsSentence, b

\* The delimiters of a text are finitely many positions in it.
LEMMA DotsFinite ==
    ASSUME NEW s \in Text
    PROVE  /\ Dots(s) \subseteq 1..Len(s) /\ Len(s) \in Nat
           /\ \A D \in SUBSET Dots(s) : IsFiniteSet(D) /\ Cardinality(D) \in Nat
<1>1. Dots(s) \subseteq 1..Len(s) /\ Len(s) \in Nat
  BY DEF Dots, Text
<1>2. IsFiniteSet(1..Len(s))
  BY <1>1, FS_Interval
<1>3. ASSUME NEW D \in SUBSET Dots(s) PROVE IsFiniteSet(D) /\ Cardinality(D) \in Nat
  <2>1. D \in SUBSET (1..Len(s))
    BY <1>1
  <2> QED BY <1>2, <2>1, FS_Subset, FS_CardinalityType
<1> QED BY <1>1, <1>3

\* Sentences come in the order of their indices; the earlier one ends in its
\* delimiter.
LEMMA SentencesInOrder ==
    ASSUME NEW s \in Text, NEW i \in Nat, NEW j \in Nat, i < j,
           NEW a, NEW e, NEW b, NEW f,
           IsSentence(s, i, a, e), IsSentence(s, j, b, f)
    PROVE  e <= b /\ a < e /\ s[e] = Dot
<1>1. /\ a \in Nat /\ e \in Nat /\ b \in Nat /\ f \in Nat /\ Len(s) \in Nat
      /\ a <= e /\ b <= f /\ e <= Len(s) /\ f <= Len(s)
  BY DEF IsSentence, Text
<1>2. a < b
  <2> SUFFICES ASSUME b <= a PROVE FALSE
    BY <1>1
  <2>1. DotsTo(s, b) \subseteq DotsTo(s, a)
    BY <1>1, DotsFinite DEF DotsTo
  <2>2. IsFiniteSet(DotsTo(s, a))
    BY DotsFinite DEF DotsTo
  <2>3. Cardinality(DotsTo(s, b)) <= Cardinality(DotsTo(s, a))
    BY <2>1, <2>2, FS_Subset
  <2> QED BY <2>3 DEF IsSentence
<1>3. b \in Dots(s)
  BY <1>1, <1>2 DEF IsSentence, Dots, Text
<1>4. e <= b
  BY <1>1, <1>2, <1>3 DEF IsSentence
<1>5. CASE e = Len(s)
  BY <1>1, <1>2, <1>3, <1>4, <1>5 DEF Dots
<1>6. CASE e # Len(s)
  BY <1>4, <1>6 DEF IsSentence
<1> QED BY <1>5, <1>6

\* A text in which a span is replaced.
Splice(s, from, to, new) == Span(s, 0, from) \o new \o Span(s, to, Len(s))

\* Where the units of the result u come from.
IsSplice(u, s, from, to, new) ==
    /\ u \in Text
    /\ Len(u) = from + Len(new) + Len(s) - to
    /\ \A p \in 1..from : u[p] = s[p]
    /\ \A p \in 1..Len(new) : u[from + p] = new[p]
    /\ \A p \in (to + 1)..Len(s) : u[p + from + Len(new) - to] = s[p]

\* Splice puts the units where IsSplice says.
LEMMA SpliceUnits ==
    ASSUME NEW s \in Text, NEW new \in Text, NEW from \in Nat, NEW to \in Nat,
           from <= to, to <= Len(s)
    PROVE  IsSplice(Splice(s, from, to, new), s, from, to, new)
<1> DEFINE u == Splice(s, from, to, new)
<1> DEFINE A == Span(s, 0, from)
           B == Span(s, to, Len(s))
           n == Len(new)
<1>0. s \in Seq(Unit) /\ new \in Seq(Unit) /\ Len(s) \in Nat /\ n \in Nat
  BY DEF Text
<1>1. /\ A \in Seq(Unit) /\ Len(A) = from
      /\ \A p \in 1..from : A[p] = s[p]
  <2>1. \A p \in (0 + 1)..from : s[p] \in Unit
    BY <1>0
  <2>2. /\ SubSeq(s, 0 + 1, from) \in Seq(Unit)
        /\ Len(SubSeq(s, 0 + 1, from)) = IF 0 + 1 <= from THEN from - (0 + 1) + 1 ELSE 0
        /\ \A p \in 1..(from - (0 + 1) + 1) : SubSeq(s, 0 + 1, from)[p] = s[(0 + 1) + p - 1]
    BY <2>1, SubSeqProperties
  <2> QED BY <2>2 DEF Span
<1>2. /\ B \in Seq(Unit) /\ Len(B) = Len(s) - to
      /\ \A p \in 1..(Len(s) - to) : B[p] = s[to + p]
  <2>1. \A p \in (to + 1)..Len(s) : s[p] \in Unit
    BY <1>0
  <2>2. /\ SubSeq(s, to + 1, Len(s)) \in Seq(Unit)
        /\ Len(SubSeq(s, to + 1, Len(s))) = IF to + 1 <= Len(s) THEN Len(s) - (to + 1) + 1 ELSE 0
        /\ \A p \in 1..(Len(s) - (to + 1) + 1) : SubSeq(s, to + 1, Len(s))[p] = s[(to + 1) + p - 1]
    BY <1>0, <2>1, SubSeqProperties
  <2> QED BY <1>0, <2>2 DEF Span
<1> HIDE DEF A, B
<1>3. /\ A \o new \in Seq(Unit) /\ Len(A \o new) = from + n
      /\ \A p \in 1..(from + n) : (A \o new)[p] = IF p <= from THEN A[p] ELSE new[p - from]
  BY <1>0, <1>1, ConcatProperties
<1> DEFINE C == A \o new
<1> HIDE DEF C
<1>4. C \in Seq(Unit) /\ Len(C) = from + n
  BY <1>3 DEF C
<1>5. /\ C \o B \in Seq(Unit) /\ Len(C \o B) = from + n + (Len(s) - to)
      /\ \A p \in 1..(from + n + (Len(s) - to)) :
            (C \o B)[p] = IF p <= from + n THEN C[p] ELSE B[p - (from + n)]
  <2>1. /\ C \o B \in Seq(Unit) /\ Len(C \o B) = Len(C) + Len(B)
        /\ \A p \in 1..(Len(C) + Len(B)) :
              (C \o B)[p] = IF p <= Len(C) THEN C[p] ELSE B[p - Len(C)]
    <3>1. C \in Seq(Unit) /\ B \in Seq(Unit)
      BY <1>2, <1>4
    <3> QED BY <3>1, ConcatProperties
  <2> QED BY <1>2, <1>4, <2>1
<1>6. u = C \o B
  BY DEF Splice, A, B, C
<1> HIDE DEF u
<1>7. /\ u \in Seq(Unit) /\ Len(u) = from + n + Len(s) - to
      /\ \A p \in 1..(from + n + (Len(s) - to)) :
            u[p] = IF p <= from + n THEN C[p] ELSE B[p - (from + n)]
  BY <1>0, <1>5, <1>6
<1>8. ASSUME NEW p \in 1..from PROVE u[p] = s[p]
  <2>1. p \in 1..(from + n) /\ p \in 1..(from + n + (Len(s) - to)) /\ p <= from /\ p <= from + n
    BY <1>0
  <2>2. u[p] = C[p] /\ C[p] = A[p]
    BY <1>3, <1>7, <2>1 DEF C
  <2> QED BY <1>1, <2>2
<1>9. ASSUME NEW p \in 1..n PROVE u[from + p] = new[p]
  <2>1. /\ from + p \in 1..(from + n) /\ from + p \in 1..(from + n + (Len(s) - to))
        /\ ~(from + p <= from) /\ from + p <= from + n /\ from + p - from = p
    BY <1>0
  <2>2. u[from + p] = C[from + p] /\ C[from + p] = new[from + p - from]
    BY <1>3, <1>7, <2>1 DEF C
  <2> QED BY <2>1, <2>2
<1>10. ASSUME NEW p \in (to + 1)..Len(s) PROVE u[p + from + n - to] = s[p]
  <2> DEFINE q == p + from + n - to
  <2>1. /\ q \in 1..(from + n + (Len(s) - to)) /\ ~(q <= from + n)
        /\ q - (from + n) = p - to /\ p - to \in 1..(Len(s) - to) /\ to + (p - to) = p
    BY <1>0
  <2> HIDE DEF q
  <2>2. u[q] = B[p - to]
    BY <1>7, <2>1
  <2>3. B[p - to] = s[to + (p - to)]
    BY <1>2, <2>1
  <2> QED BY <2>1, <2>2, <2>3 DEF q
<1> QED BY <1>7, <1>8, <1>9, <1>10 DEF Text, IsSplice, u

\* The units a + 1 to e of s are in u too, k positions further.
Moved(s, u, a, e, k) == \A p \in (a + 1)..e : u[p + k] = s[p]

\* Spans with the same units are the same text.
LEMMA SpansEqual ==
    ASSUME NEW s \in Text, NEW u \in Text, NEW a \in Nat, NEW e \in Nat,
           NEW k \in Int, NEW b \in Nat, NEW f \in Nat, b = a + k, f = e + k,
           a <= e, e <= Len(s), f <= Len(u), Moved(s, u, a, e, k)
    PROVE  Span(u, b, f) = Span(s, a, e)
<1>0. s \in Seq(Unit) /\ u \in Seq(Unit) /\ Len(s) \in Nat /\ Len(u) \in Nat
  BY DEF Text
<1>1. /\ SubSeq(s, a + 1, e) \in Seq(Unit)
      /\ Len(SubSeq(s, a + 1, e)) = IF a + 1 <= e THEN e - (a + 1) + 1 ELSE 0
      /\ \A p \in 1..(e - (a + 1) + 1) : SubSeq(s, a + 1, e)[p] = s[(a + 1) + p - 1]
  <2>1. \A p \in (a + 1)..e : s[p] \in Unit
    BY <1>0
  <2> QED BY <2>1, SubSeqProperties
<1>2. /\ SubSeq(u, b + 1, f) \in Seq(Unit)
      /\ Len(SubSeq(u, b + 1, f)) = IF b + 1 <= f THEN f - (b + 1) + 1 ELSE 0
      /\ \A p \in 1..(f - (b + 1) + 1) :
            SubSeq(u, b + 1, f)[p] = u[(b + 1) + p - 1]
  <2>1. \A p \in (b + 1)..f : u[p] \in Unit
    BY <1>0
  <2> QED BY <2>1, SubSeqProperties
<1> DEFINE S == SubSeq(s, a + 1, e)
           U == SubSeq(u, b + 1, f)
<1>3. Len(S) = e - a /\ Len(U) = e - a
  BY <1>1, <1>2
<1>4. ASSUME NEW p \in 1..(e - a) PROVE U[p] = S[p]
  <2>1. /\ p \in 1..(e - (a + 1) + 1) /\ p \in 1..(f - (b + 1) + 1)
        /\ (a + 1) + p - 1 = a + p /\ (b + 1) + p - 1 = (a + p) + k
        /\ a + p \in (a + 1)..e
    OBVIOUS
  <2>2. S[p] = s[a + p]
    BY <1>1, <2>1
  <2>3. U[p] = u[(a + p) + k]
    BY <1>2, <2>1
  <2> QED BY <2>1, <2>2, <2>3 DEF Moved
<1>5. S \in Seq(Unit) /\ U \in Seq(Unit)
  BY <1>1, <1>2
<1> HIDE DEF S, U
<1>6. U = S
  BY <1>3, <1>4, <1>5, SeqEqual
<1> QED BY <1>6 DEF S, U, Span

\* The delimiters of a spliced text, each where it came from.
LEMMA SpliceDots ==
    ASSUME NEW s \in Text, NEW new \in Text, NEW from \in Nat, NEW to \in Nat,
           from <= to, to <= Len(s), NEW u, IsSplice(u, s, from, to, new)
    PROVE  \A p : p \in Dots(u) <=>
              \/ p \in 1..from /\ p \in Dots(s)
              \/ \E q \in Dots(new) : p = from + q
              \/ \E q \in Dots(s) : q > to /\ p = q + from + Len(new) - to
<1> DEFINE n == Len(new)
<1>0. /\ Len(s) \in Nat /\ n \in Nat
      /\ DOMAIN s = 1..Len(s) /\ DOMAIN new = 1..n
  BY DEF Text
<1>2. /\ u \in Text
      /\ Len(u) = from + n + Len(s) - to
      /\ \A p \in 1..from : u[p] = s[p]
      /\ \A p \in 1..n : u[from + p] = new[p]
      /\ \A p \in (to + 1)..Len(s) : u[p + from + n - to] = s[p]
  BY DEF IsSplice
<1>3. DOMAIN u = 1..(from + n + Len(s) - to)
  BY <1>2 DEF Text
<1> HIDE DEF n
<1>4. ASSUME NEW p \in Dots(u)
      PROVE  \/ p \in 1..from /\ p \in Dots(s)
             \/ \E q \in Dots(new) : p = from + q
             \/ \E q \in Dots(s) : q > to /\ p = q + from + n - to
  <2>1. p \in 1..(from + n + Len(s) - to) /\ u[p] = Dot
    BY <1>3 DEF Dots
  <2>2. CASE p <= from
    BY <1>0, <1>2, <2>1, <2>2 DEF Dots
  <2>3. CASE p > from /\ p <= from + n
    <3>1. p - from \in 1..n /\ p = from + (p - from)
      BY <1>0, <2>1, <2>3
    <3>2. p - from \in Dots(new)
      BY <1>0, <1>2, <2>1, <3>1 DEF Dots
    <3> QED BY <3>1, <3>2
  <2>4. CASE p > from + n
    <3> DEFINE q == p - from - n + to
    <3>1. q \in (to + 1)..Len(s) /\ p = q + from + n - to /\ q \in 1..Len(s) /\ q > to
      BY <1>0, <2>1, <2>4
    <3> HIDE DEF q
    <3>2. q \in Dots(s)
      BY <1>0, <1>2, <2>1, <3>1 DEF Dots
    <3> QED BY <3>1, <3>2
  <2> QED BY <1>0, <2>1, <2>2, <2>3, <2>4
<1>5. ASSUME NEW p \in 1..from, p \in Dots(s) PROVE p \in Dots(u)
  BY <1>0, <1>2, <1>3, <1>5 DEF Dots
<1>6. ASSUME NEW q \in Dots(new) PROVE from + q \in Dots(u)
  <2>1. q \in 1..n /\ new[q] = Dot
    BY <1>0 DEF Dots
  <2>2. from + q \in 1..(from + n + Len(s) - to)
    BY <1>0, <2>1
  <2> QED BY <1>2, <1>3, <2>1, <2>2 DEF Dots
<1>7. ASSUME NEW q \in Dots(s), q > to PROVE q + from + n - to \in Dots(u)
  <2>1. q \in (to + 1)..Len(s) /\ s[q] = Dot
    BY <1>0, <1>7 DEF Dots
  <2>2. q + from + n - to \in 1..(from + n + Len(s) - to)
    BY <1>0, <2>1
  <2> QED BY <1>2, <1>3, <2>1, <2>2 DEF Dots
<1> QED BY <1>4, <1>5, <1>6, <1>7 DEF n

\* A commit in a later sentence leaves an earlier one as it is, and does not
\* take it for one to be moved.
LEMMA EarlierKept ==
    ASSUME NEW s \in Text, NEW new \in Text, NEW i \in Nat, NEW j \in Nat, j < i,
           NEW from, NEW to, NEW a, NEW e,
           IsSentence(s, i, from, to), IsSentence(s, j, a, e),
           NEW u, IsSplice(u, s, from, to, new)
    PROVE  a < to /\ IsSentence(u, j, a, e) /\ Span(u, a, e) = Span(s, a, e)
<1>1. /\ a \in Nat /\ e \in Nat /\ from \in Nat /\ to \in Nat /\ Len(s) \in Nat
      /\ a <= e /\ from <= to /\ e <= Len(s) /\ to <= Len(s) /\ Len(new) \in Nat
      /\ DOMAIN s = 1..Len(s)
  BY DEF IsSentence, Text
<1>2. e <= from /\ a < e /\ s[e] = Dot
  BY SentencesInOrder
<1>3. IsSplice(u, s, from, to, new)
  OBVIOUS
<1>4. /\ u \in Text
      /\ Len(u) = from + Len(new) + Len(s) - to
      /\ \A p \in 1..from : u[p] = s[p]
  BY <1>3 DEF IsSplice
<1>5. \A p : p \in Dots(u) => p \in Dots(s) \/ p > from
  <2>1. \A p : p \in Dots(u) =>
              \/ p \in 1..from /\ p \in Dots(s)
              \/ \E q \in Dots(new) : p = from + q
              \/ \E q \in Dots(s) : q > to /\ p = q + from + Len(new) - to
    BY <1>1, <1>3, SpliceDots
  <2>2. Dots(new) \subseteq 1..Len(new) /\ Dots(s) \subseteq 1..Len(s)
    BY DotsFinite
  <2> QED BY <1>1, <2>1, <2>2
<1>6. \A p \in Dots(s) : p <= from => p \in Dots(u)
  <2>1. Dots(s) \subseteq 1..Len(s)
    BY DotsFinite
  <2> QED BY <1>1, <1>3, <2>1, SpliceDots
<1>7. DotsTo(u, a) = DotsTo(s, a)
  <2>1. Dots(u) \subseteq Nat /\ Dots(s) \subseteq Nat
    BY <1>4, DotsFinite
  <2> QED BY <1>1, <1>2, <1>5, <1>6, <2>1 DEF DotsTo
<1>8. IsSentence(u, j, a, e)
  <2>0. /\ a = 0 \/ s[a] = Dot
        /\ Cardinality(DotsTo(s, a)) = j
        /\ \A p \in Dots(s) : p <= a \/ e <= p
    BY DEF IsSentence
  <2>1. a = 0 \/ u[a] = Dot
    BY <1>1, <1>2, <1>4, <2>0
  <2>2. u[e] = Dot /\ e <= Len(u)
    BY <1>1, <1>2, <1>4
  <2>3. \A p \in Dots(u) : p <= a \/ e <= p
    <3>1. Dots(u) \subseteq Nat
      BY <1>4, DotsFinite
    <3> QED BY <1>1, <1>2, <1>5, <2>0, <3>1
  <2> QED BY <1>1, <1>2, <1>7, <2>0, <2>1, <2>2, <2>3 DEF IsSentence
<1>9. Span(u, a, e) = Span(s, a, e)
  <2>1. Moved(s, u, a, e, 0)
    BY <1>1, <1>2, <1>4 DEF Moved
  <2>2. e <= Len(u) /\ 0 \in Int /\ a = a + 0 /\ e = e + 0
    BY <1>1, <1>2, <1>4
  <2> QED BY <1>1, <1>4, <2>1, <2>2, SpansEqual
<1> QED BY <1>1, <1>2, <1>8, <1>9

\* Moving a finite set of positions does not change how many they are.
LEMMA MovedCount ==
    ASSUME NEW D \in SUBSET Nat, NEW k \in Int, IsFiniteSet(D)
    PROVE  /\ IsFiniteSet({q + k : q \in D})
           /\ Cardinality({q + k : q \in D}) = Cardinality(D)
<1> DEFINE T == {q + k : q \in D}
           m == [q \in D |-> q + k]
<1>1. m \in [D -> T]
  OBVIOUS
<1>2. \A x, y \in D : m[x] = m[y] => x = y
  OBVIOUS
<1>3. \A t \in T : \E q \in D : m[q] = t
  OBVIOUS
<1>4. m \in Bijection(D, T)
  BY <1>1, <1>2, <1>3 DEF Bijection, Injection, Surjection, IsInjective
<1>5. ExistsBijection(D, T)
  BY <1>4 DEF ExistsBijection
<1> HIDE DEF T, m
<1>6. IsFiniteSet(T) /\ Cardinality(T) = Cardinality(D)
  BY <1>5, FS_Bijection
<1> QED BY <1>6 DEF T

\* A commit in an earlier sentence, which ended in a delimiter and still does,
\* moves a later one by the difference in length, and its index by the
\* difference that count_sentences_in_span finds.
LEMMA LaterMoved ==
    ASSUME NEW s \in Text, NEW new \in Text, NEW i \in Nat, NEW j \in Nat, i < j,
           NEW from, NEW to, NEW a, NEW e,
           IsSentence(s, i, from, to), IsSentence(s, j, a, e),
           EndsWithDot(new), NEW u, IsSplice(u, s, from, to, new)
    PROVE  LET k == Len(new) - (to - from)
               delta == count_sentences_in_span(new)
                          - count_sentences_in_span(Span(s, from, to))
           IN  /\ to <= a /\ 0 <= delta
               /\ IsSentence(u, j + delta, a + k, e + k)
               /\ Span(u, a + k, e + k) = Span(s, a, e)
<1> DEFINE n == Len(new)
           k == n - (to - from)
<1>1. /\ a \in Nat /\ e \in Nat /\ from \in Nat /\ to \in Nat /\ Len(s) \in Nat
      /\ a <= e /\ from <= to /\ e <= Len(s) /\ to <= Len(s)
      /\ DOMAIN s = 1..Len(s)
  BY DEF IsSentence, Text
<1>2. to <= a /\ from < to /\ s[to] = Dot
  BY SentencesInOrder
<1>3. n \in Nat /\ n > 0 /\ new[n] = Dot /\ n \in Dots(new)
  BY DEF EndsWithDot, Text, Dots
<1>4. /\ u \in Text /\ Len(u) = Len(s) + k
      /\ \A p \in 1..from : u[p] = s[p]
      /\ \A p \in 1..n : u[from + p] = new[p]
      /\ \A p \in (to + 1)..Len(s) : u[p + k] = s[p]
  <2>1. /\ u \in Text /\ Len(u) = from + n + Len(s) - to
        /\ \A p \in 1..from : u[p] = s[p]
        /\ \A p \in 1..n : u[from + p] = new[p]
        /\ \A p \in (to + 1)..Len(s) : u[p + from + n - to] = s[p]
    BY DEF IsSplice
  <2>2. \A p \in Nat : p + from + n - to = p + k
    BY <1>1, <1>3
  <2>3. Len(u) = Len(s) + k
    BY <1>1, <1>3, <2>1
  <2>4. ASSUME NEW p \in (to + 1)..Len(s) PROVE u[p + k] = s[p]
    BY <1>1, <2>1, <2>2
  <2> QED BY <2>1, <2>3, <2>4
<1>5. k \in Int /\ a + k \in Nat /\ e + k \in Nat /\ a + k >= from + n /\ to + k = from + n
  BY <1>1, <1>2, <1>3
<1>6. /\ Dots(s) \subseteq 1..Len(s) /\ Dots(new) \subseteq 1..n
      /\ \A D \in SUBSET Dots(s) : IsFiniteSet(D) /\ Cardinality(D) \in Nat
      /\ \A D \in SUBSET Dots(new) : IsFiniteSet(D) /\ Cardinality(D) \in Nat
  BY DotsFinite
<1> DEFINE B == DotsTo(s, from)
           R == {q \in Dots(s) : to < q /\ q <= a}
           RK == {q + k : q \in R}
           NF == {q + from : q \in Dots(new)}
<1>7. /\ to \in Dots(s)
      /\ DotsTo(s, a) = (B \cup {to}) \cup R
      /\ (B \cup {to}) \cap R = {} /\ to \notin B
  <2>1. to \in Dots(s)
    BY <1>1, <1>2 DEF Dots
  <2>2. \A p \in Dots(s) : p <= from \/ to <= p
    BY DEF IsSentence
  <2>3. Dots(s) \subseteq Nat
    BY <1>1, <1>6
  <2> QED BY <1>1, <1>2, <2>1, <2>2, <2>3 DEF DotsTo
<1>8. DotsTo(u, a + k) = (B \cup NF) \cup RK
  <2>1. \A p : p \in Dots(u) <=>
              \/ p \in 1..from /\ p \in Dots(s)
              \/ \E q \in Dots(new) : p = from + q
              \/ \E q \in Dots(s) : q > to /\ p = q + from + n - to
    BY <1>1, SpliceDots
  <2>2. ASSUME NEW p \in DotsTo(u, a + k) PROVE p \in (B \cup NF) \cup RK
    <3>0. p \in Dots(u) /\ p <= a + k
      BY DEF DotsTo
    <3>1. CASE p \in 1..from /\ p \in Dots(s)
      BY <1>1, <3>1 DEF DotsTo
    <3>2. CASE \E q \in Dots(new) : p = from + q
      <4>1. PICK q \in Dots(new) : p = from + q
        BY <3>2
      <4>2. q \in Nat
        BY <1>3, <1>6
      <4> QED BY <1>1, <4>1, <4>2
    <3>3. CASE \E q \in Dots(s) : q > to /\ p = q + from + n - to
      <4>1. PICK q \in Dots(s) : q > to /\ p = q + from + n - to
        BY <3>3
      <4>2. q \in Nat
        BY <1>1, <1>6
      <4>3. p = q + k /\ q <= a /\ to < q
        BY <1>1, <1>3, <3>0, <4>1, <4>2
      <4> QED BY <4>3
    <3> QED BY <2>1, <3>0, <3>1, <3>2, <3>3
  <2>3. ASSUME NEW p \in B PROVE p \in DotsTo(u, a + k)
    <3>1. p \in Dots(s) /\ p <= from /\ p \in 1..Len(s)
      BY <1>6 DEF DotsTo
    <3>2. p \in 1..from /\ p <= a + k
      BY <1>1, <1>3, <1>5, <3>1
    <3> QED BY <2>1, <3>1, <3>2 DEF DotsTo
  <2>4. ASSUME NEW p \in NF PROVE p \in DotsTo(u, a + k)
    <3>1. PICK q \in Dots(new) : p = q + from
      OBVIOUS
    <3>2. q \in 1..n
      BY <1>6
    <3>3. p = from + q /\ p <= a + k
      BY <1>1, <1>3, <1>5, <3>1, <3>2
    <3> QED BY <2>1, <3>3 DEF DotsTo
  <2>5. ASSUME NEW p \in RK PROVE p \in DotsTo(u, a + k)
    <3>1. PICK q \in R : p = q + k
      OBVIOUS
    <3>2. q \in Dots(s) /\ q > to /\ q <= a /\ q \in Nat
      BY <1>1, <1>6
    <3>3. p = q + from + n - to /\ p <= a + k
      BY <1>1, <1>3, <3>1, <3>2
    <3> QED BY <2>1, <3>2, <3>3 DEF DotsTo
  <2> HIDE DEF B, NF, RK
  <2> QED BY <2>2, <2>3, <2>4, <2>5
<1>9. B \cap NF = {} /\ (B \cup NF) \cap RK = {}
  <2>1. \A p \in B : p \in Nat /\ p <= from
    BY <1>1, <1>6 DEF DotsTo
  <2>2. \A p \in NF : p \in Nat /\ from < p /\ p <= from + n
    BY <1>1, <1>3, <1>6
  <2>3. \A p \in RK : p \in Int /\ from + n < p
    <3>1. ASSUME NEW q \in R PROVE q + k \in Int /\ from + n < q + k
      <4>1. q \in Nat /\ to < q
        BY <1>1, <1>6
      <4> QED BY <1>1, <1>3, <4>1
    <3> HIDE DEF R, k, n
    <3> QED BY <3>1
  <2> HIDE DEF B, NF, RK
  <2> QED BY <1>1, <1>3, <2>1, <2>2, <2>3
<1>10. /\ IsFiniteSet(B) /\ IsFiniteSet(R) /\ IsFiniteSet(NF) /\ IsFiniteSet(RK)
       /\ Cardinality(B) \in Nat /\ Cardinality(R) \in Nat /\ Cardinality(Dots(new)) \in Nat
       /\ Cardinality(RK) = Cardinality(R) /\ Cardinality(NF) = Cardinality(Dots(new))
  <2>1. /\ IsFiniteSet(B) /\ IsFiniteSet(R) /\ IsFiniteSet(Dots(new))
        /\ Cardinality(B) \in Nat /\ Cardinality(R) \in Nat /\ Cardinality(Dots(new)) \in Nat
    BY <1>6 DEF DotsTo
  <2>2. R \in SUBSET Nat /\ Dots(new) \in SUBSET Nat
    BY <1>1, <1>3, <1>6
  <2> HIDE DEF k, R, B
  <2>3. IsFiniteSet(RK) /\ Cardinality(RK) = Cardinality(R)
    BY <1>5, <2>1, <2>2, MovedCount
  <2>4. IsFiniteSet(NF) /\ Cardinality(NF) = Cardinality(Dots(new))
    <3>1. from \in Int
      BY <1>1
    <3> QED BY <2>1, <2>2, <3>1, MovedCount
  <2> QED BY <2>1, <2>3, <2>4
<1> HIDE DEF B, R, RK, NF
<1>11. Cardinality(DotsTo(s, a)) = Cardinality(B) + 1 + Cardinality(R)
  <2>1. IsFiniteSet(B \cup {to}) /\ Cardinality(B \cup {to}) = Cardinality(B) + 1
    BY <1>7, <1>10, FS_AddElement
  <2>2. Cardinality((B \cup {to}) \cup R)
          = Cardinality(B \cup {to}) + Cardinality(R) - Cardinality((B \cup {to}) \cap R)
    BY <1>10, <2>1, FS_Union
  <2>3. Cardinality((B \cup {to}) \cap R) = 0
    BY <1>7, FS_EmptySet
  <2> QED BY <1>7, <1>10, <2>1, <2>2, <2>3
<1>12. Cardinality(DotsTo(u, a + k)) = Cardinality(B) + Cardinality(Dots(new)) + Cardinality(R)
  <2>1. /\ IsFiniteSet(B \cup NF)
        /\ Cardinality(B \cup NF) = Cardinality(B) + Cardinality(NF) - Cardinality(B \cap NF)
    BY <1>10, FS_Union
  <2>2. Cardinality((B \cup NF) \cup RK)
          = Cardinality(B \cup NF) + Cardinality(RK) - Cardinality((B \cup NF) \cap RK)
    BY <1>10, <2>1, FS_Union
  <2>3. Cardinality(B \cap NF) = 0 /\ Cardinality((B \cup NF) \cap RK) = 0
    BY <1>9, FS_EmptySet
  <2> HIDE DEF k
  <2>4. Cardinality(DotsTo(u, a + k)) = Cardinality((B \cup NF) \cup RK)
    BY <1>8
  <2> QED BY <1>10, <2>1, <2>2, <2>3, <2>4
<1> DEFINE old == Span(s, from, to)
<1>13. count_sentences_in_span(new) = Cardinality(Dots(new))
  BY <1>3 DEF count_sentences_in_span, EndsWithDot
<1>14. count_sentences_in_span(old) = 1
  <2>1. /\ old \in Seq(Unit) /\ Len(old) = to - from
        /\ \A p \in 1..(to - from) : old[p] = s[from + p]
    <3>1. \A p \in (from + 1)..to : s[p] \in Unit
      BY <1>1 DEF Text
    <3>2. /\ SubSeq(s, from + 1, to) \in Seq(Unit)
          /\ Len(SubSeq(s, from + 1, to)) = IF from + 1 <= to THEN to - (from + 1) + 1 ELSE 0
          /\ \A p \in 1..(to - (from + 1) + 1) : SubSeq(s, from + 1, to)[p] = s[(from + 1) + p - 1]
      BY <1>1, <3>1, SubSeqProperties
    <3> QED BY <1>1, <1>2, <3>2 DEF Span
  <2> HIDE DEF old
  <2>2. Dots(old) = {to - from}
    <3>1. DOMAIN old = 1..(to - from) /\ to - from \in 1..(to - from) /\ from + (to - from) = to
      BY <1>1, <1>2, <2>1
    <3>2. to - from \in Dots(old)
      BY <1>2, <2>1, <3>1 DEF Dots
    <3>3. ASSUME NEW p \in Dots(old) PROVE p = to - from
      <4>1. p \in 1..(to - from) /\ s[from + p] = Dot
        BY <2>1, <3>1 DEF Dots
      <4>2. from + p \in Dots(s)
        BY <1>1, <4>1 DEF Dots
      <4>3. from + p <= from \/ to <= from + p
        BY <4>2 DEF IsSentence
      <4> QED BY <1>1, <4>1, <4>3
    <3> QED BY <3>2, <3>3
  <2>3. old # <<>>
    BY <1>1, <1>2, <2>1
  <2>4. Cardinality(Dots(old)) = 1 /\ Dots(old) # {}
    BY <2>2, FS_Singleton
  <2> QED BY <2>3, <2>4 DEF count_sentences_in_span
<1> DEFINE delta == count_sentences_in_span(new) - count_sentences_in_span(old)
<1>15. /\ delta \in Int /\ 0 <= delta
       /\ Cardinality(DotsTo(u, a + k)) = j + delta
  <2>1. Cardinality(Dots(new)) > 0
    <3>1. IsFiniteSet(Dots(new)) /\ Dots(new) # {}
      BY <1>3, <1>6
    <3> QED BY <1>10, <3>1, FS_EmptySet
  <2>2. Cardinality(DotsTo(s, a)) = j
    BY DEF IsSentence
  <2> HIDE DEF old
  <2> QED BY <1>10, <1>11, <1>12, <1>13, <1>14, <2>1, <2>2
<1> HIDE DEF delta, old
<1>16. u[a + k] = Dot
  <2>1. CASE a = to
    <3>1. a + k = from + n /\ n \in 1..n
      BY <1>3, <1>5, <2>1
    <3> QED BY <1>3, <1>4, <3>1
  <2>2. CASE a # to
    <3>1. a \in (to + 1)..Len(s) /\ a # 0
      BY <1>1, <1>2, <2>2
    <3>2. s[a] = Dot
      BY <3>1 DEF IsSentence
    <3> QED BY <1>4, <3>1, <3>2
  <2> QED BY <2>1, <2>2
<1>17. e + k = Len(u) \/ (a + k < e + k /\ u[e + k] = Dot)
  <2>1. CASE e = Len(s)
    BY <1>4, <2>1
  <2>2. CASE e # Len(s)
    <3>1. a < e /\ s[e] = Dot
      BY <2>2 DEF IsSentence
    <3>2. e \in (to + 1)..Len(s) /\ a + k < e + k
      BY <1>1, <1>2, <1>5, <3>1
    <3> QED BY <1>4, <3>1, <3>2
  <2> QED BY <2>1, <2>2
<1>18. \A p \in Dots(u) : p <= a + k \/ e + k <= p
  <2>1. ASSUME NEW p \in Dots(u) PROVE p <= a + k \/ e + k <= p
    <3>1. \/ p \in 1..from
          \/ \E q \in Dots(new) : p = from + q
          \/ \E q \in Dots(s) : q > to /\ p = q + from + n - to
      BY <1>1, SpliceDots
    <3>2. CASE p \in 1..from
      BY <1>1, <1>3, <1>5, <3>2
    <3>3. CASE \E q \in Dots(new) : p = from + q
      BY <1>1, <1>3, <1>5, <1>6, <3>3
    <3>4. CASE \E q \in Dots(s) : q > to /\ p = q + from + n - to
      <4>1. PICK q \in Dots(s) : q > to /\ p = q + from + n - to
        BY <3>4
      <4>2. q <= a \/ e <= q
        BY DEF IsSentence
      <4>3. q \in Nat /\ p = q + k
        BY <1>1, <1>3, <1>6, <4>1
      <4> QED BY <1>1, <1>5, <4>2, <4>3
    <3> QED BY <3>1, <3>2, <3>3, <3>4
  <2> QED BY <2>1
<1>19. IsSentence(u, j + delta, a + k, e + k)
  <2>1. a + k <= e + k /\ e + k <= Len(u)
    BY <1>1, <1>4, <1>5
  <2> HIDE DEF k
  <2> QED BY <1>5, <1>15, <1>16, <1>17, <1>18, <2>1 DEF IsSentence
<1>20. Span(u, a + k, e + k) = Span(s, a, e)
  <2>1. Moved(s, u, a, e, k)
    BY <1>1, <1>2, <1>4 DEF Moved
  <2>2. e + k <= Len(u)
    BY <1>1, <1>4, <1>5
  <2> HIDE DEF k
  <2> QED BY <1>1, <1>4, <1>5, <2>1, <2>2, SpansEqual
<1> QED BY <1>2, <1>15, <1>19, <1>20 DEF delta, old

\* A word edit leaves the delimiter at the end of a sentence.
LEMMA EditKeepsEnd ==
    ASSUME NEW s \in Text, EndsWithDot(s), NEW p \in InsertPoints(s), NEW words \in Edits
    PROVE  EndsWithDot(ss_apply_word_edit(s, p, words))
<1> DEFINE L == SubSeq(Body(s), 1, p)
           R == SubSeq(Body(s), p + 1, Len(Body(s)))
           N == L \o words \o R
<1>1. ss_apply_word_edit(s, p, words) = IF ~EndsWithDot(N) THEN Append(N, Dot) ELSE N
  BY DEF ss_apply_word_edit
<1>2. N \in Seq(Unit)
  <2>1. s \in Seq(Unit) /\ Len(s) \in Nat /\ Len(s) > 0
    BY DEF Text, EndsWithDot
  <2>2. Body(s) \in Seq(Unit) /\ Len(Body(s)) \in Nat
    BY <2>1, SubSeqType DEF Body
  <2>3. p \in 0..Len(Body(s))
    BY DEF InsertPoints
  <2>4. L \in Seq(Unit) /\ R \in Seq(Unit)
    BY <2>2, <2>3, SubSeqType
  <2>5. words \in Seq(Unit)
    <3>1. Word \in Unit /\ Dot \in Unit
      BY DEF Unit
    <3>2. <<Word>> \in Seq(Unit) /\ <<Word, Dot>> \in Seq(Unit)
      BY <3>1
    <3> QED BY <3>2 DEF Edits
  <2> QED BY <2>4, <2>5
<1> HIDE DEF N
<1>3. CASE EndsWithDot(N)
  BY <1>1, <1>3
<1>4. CASE ~EndsWithDot(N)
  <2>1. Append(N, Dot) # <<>> /\ Append(N, Dot)[Len(Append(N, Dot))] = Dot
    BY <1>2 DEF Unit
  <2> QED BY <1>1, <1>4, <2>1 DEF EndsWithDot
<1> QED BY <1>3, <1>4

-----------------------------------------------------------------------------
(* The records that threads and sessions refer to *)

\* A record that is freed, or that DELETE_FILE is about to free.
Gone(r) == r \in freed \/ (pc[NS] = "free" /\ frame[NS].rec = r)

\* The file has one record at a time; what refers to an older one refers to one
\* that is gone.
RecordsInv ==
    /\ \A q, r \in listed : q = r
    /\ listed \cap freed = {}
    /\ pc[NS] \in {"unlink", "delist"} => frame[NS].rec \in listed
    /\ pc[NS] = "free" => listed = {}
    /\ \A t \in Threads : frame[t].rec \in Recs => frame[t].rec \in listed \/ Gone(frame[t].rec)
    /\ \A c \in Clients : sessions[c] # NoSession =>
          sessions[c].file \in listed \/ Gone(sessions[c].file)

\* A thread works on the record that is listed, if there is one.
LEMMA UsableIsListed ==
    ASSUME RecordsInv, NEW t \in Threads, Usable(t), frame[t].rec \in Recs, NEW r \in listed
    PROVE  frame[t].rec = r
BY DEF RecordsInv, Gone, Usable

\* CREATE_FILE lists a record only when none is listed; DELETE_FILE unlists it
\* before it frees it.
LEMMA RecordsStep ==
    ASSUME TypeInv, RecordsInv, [Next]_vars
    PROVE  RecordsInv'
<1>t. /\ pc \in [Threads -> Labels] /\ frame \in [Threads -> Frame]
      /\ sessions \in [Clients -> Session \cup {NoSession}]
      /\ listed \in SUBSET Recs /\ freed \in SUBSET Recs
      /\ Clients \subseteq Threads /\ NS \in Threads /\ NS \notin Clients
      /\ NoRec \notin Recs /\ FramesFilled /\ RecordsInv
  BY ConstantsAssumption DEF TypeInv, TypeOK, Threads
<1>i. IdleFrame.rec = NoRec
  BY DEF IdleFrame
<1>1. ASSUME NEW t \in Threads, FindFile(t) PROVE RecordsInv'
  BY <1>1, <1>t, <1>i DEF FindFile, SetFrame, Goto, disk, records, locks, aux,
    RecordsInv, Gone
<1>2. ASSUME NEW t \in Threads, FindFails(t) PROVE RecordsInv'
  BY <1>2, <1>t, <1>i DEF FindFails, Return, SetFrame, Goto, disk, records, locks,
    aux, RecordsInv, Gone
<1>3. ASSUME NEW t \in Threads, EnterFile(t) PROVE RecordsInv'
  BY <1>3, <1>t, <1>i DEF EnterFile, Goto, disk, records, locks, aux, RecordsInv,
    Gone
<1>4. ASSUME NEW t \in Threads, WholeFileCheck(t) PROVE RecordsInv'
  BY <1>4, <1>t, <1>i DEF WholeFileCheck, SetFrame, Goto, disk, records, locks, aux,
    RecordsInv, Gone
<1>5. ASSUME NEW t \in Threads, WholeFileRefused(t) PROVE RecordsInv'
  BY <1>5, <1>t, <1>i DEF WholeFileRefused, LeaveWithError, Return, Unlock,
    SetFrame, Goto, disk, records, locks, aux, RecordsInv, Gone
<1>6. ASSUME NEW t \in Threads, TouchFreed(t) PROVE RecordsInv'
  BY <1>6, <1>t, <1>i DEF TouchFreed, disk, records, locks, aux, RecordsInv, Gone
<1>7. ASSUME NEW c \in Clients, NEW i \in 0..MaxIndex, WriteLockRequest(c, i) PROVE RecordsInv'
  BY <1>7, <1>t, <1>i DEF WriteLockRequest, SetFrame, Goto, ss_abort_session, disk,
    records, locks, aux, RecordsInv, Gone
<1>8. ASSUME NEW c \in Clients, WriteLockCheck(c) PROVE RecordsInv'
  BY <1>8, <1>t, <1>i DEF WriteLockCheck, LeaveWithError, Return, Unlock, SetFrame,
    Goto, disk, records, locks, aux, RecordsInv, Gone
<1>9. ASSUME NEW c \in Clients, WriteLockCreate(c) PROVE RecordsInv'
  <2>1. CASE LeaveWithError(c)
    BY <1>9, <2>1, <1>t, <1>i DEF WriteLockCreate, LeaveWithError, Return, SetFrame, Goto, records,
      RecordsInv, Gone
  <2>2. CASE ~LeaveWithError(c)
    <3>1. PICK x : x.file = frame[c].rec /\ sessions' = [sessions EXCEPT ![c] = x]
      BY <1>9, <2>2 DEF WriteLockCreate, ss_create_session
    <3>2. frame[c].rec \in Recs
      BY <1>9, <1>t DEF WriteLockCreate, FramesFilled
    <3>3. /\ pc' = [pc EXCEPT ![c] = "idle"] /\ frame' = [frame EXCEPT ![c] = IdleFrame]
          /\ listed' = listed /\ freed' = freed
      BY <1>9, <2>2 DEF WriteLockCreate, Return, SetFrame, Goto, records
    <3> QED BY <1>t, <1>i, <3>1, <3>2, <3>3 DEF RecordsInv, Gone
  <2> QED BY <2>1, <2>2
<1>10. ASSUME NEW c \in Clients, WriteData(c) PROVE RecordsInv'
  <2>1. PICK x : sessions' = [sessions EXCEPT ![c].sentence_working = x]
    BY <1>10 DEF WriteData
  <2>2. sessions[c] \in Session
    BY <1>10, <1>t DEF WriteData, HasSession
  <2>3. \A d \in Clients : sessions'[d] # NoSession =>
              sessions[d] # NoSession /\ sessions'[d].file = sessions[d].file
    BY <2>1, <2>2, <1>t, NoSessionAssumption DEF Session
  <2>4. UNCHANGED <<pc, frame, listed, freed>>
    BY <1>10 DEF WriteData, records
  <2> QED BY <2>3, <2>4, <1>t DEF RecordsInv, Gone
<1>11. ASSUME NEW c \in Clients, EtirwRequest(c) PROVE RecordsInv'
  <2>1. sessions[c] # NoSession
    BY <1>11 DEF EtirwRequest, HasSession
  <2>2. PICK x : x.rec = sessions[c].file /\ frame' = [frame EXCEPT ![c] = x]
    BY <1>11, <1>t DEF EtirwRequest, SetFrame, Frame
  <2>3. pc' = [pc EXCEPT ![c] = "etirw"] /\ UNCHANGED <<listed, freed, sessions>>
    BY <1>11 DEF EtirwRequest, Goto, records
  <2> QED BY <2>1, <2>2, <2>3, <1>t DEF RecordsInv, Gone
<1>12. ASSUME NEW c \in Clients, EtirwLock(c) PROVE RecordsInv'
  BY <1>12, <1>t, <1>i DEF EtirwLock, Goto, disk, records, locks, aux, RecordsInv,
    Gone
<1>13. ASSUME NEW c \in Clients, EtirwCommit(c) PROVE RecordsInv'
  <2>1. /\ \/ /\ pc' = [pc EXCEPT ![c] = "detach"]
              /\ UNCHANGED frame
           \/ /\ pc' = [pc EXCEPT ![c] = "idle"]
              /\ frame' = [frame EXCEPT ![c] = IdleFrame]
        /\ UNCHANGED <<listed, freed>>
    BY <1>13 DEF EtirwCommit, LeaveWithError, Return, SetFrame, Goto, records
  <2>2. \A d \in Clients : sessions'[d] # NoSession =>
              sessions[d] # NoSession /\ sessions'[d].file = sessions[d].file
    BY <1>13, CommitKeepsTargets
  <2> QED BY <2>1, <2>2, <1>t, <1>i DEF RecordsInv, Gone
<1>14. ASSUME NEW c \in Clients, EtirwDetach(c) PROVE RecordsInv'
  BY <1>14, <1>t, <1>i DEF EtirwDetach, Goto, ss_abort_session, disk, records,
    locks, aux, RecordsInv, Gone
<1>15. ASSUME NEW c \in Clients, ss_sync_metadata_to_ns(c) PROVE RecordsInv'
  BY <1>15, <1>t, <1>i DEF ss_sync_metadata_to_ns, Return, SetFrame, Goto, disk,
    records, locks, aux, RecordsInv, Gone
<1>16. ASSUME NEW c \in Clients, Disconnect(c) PROVE RecordsInv'
  BY <1>16, <1>t, <1>i DEF Disconnect, ss_abort_session, disk, records, locks, aux,
    RecordsInv, Gone
<1>17. ASSUME NEW c \in Clients, WholeFileRequest(c) PROVE RecordsInv'
  BY <1>17, <1>t, <1>i DEF WholeFileRequest, SetFrame, Goto, disk, records, locks,
    aux, RecordsInv, Gone
<1>18. ASSUME NEW c \in Clients, CheckpointCheck(c) PROVE RecordsInv'
  BY <1>18, <1>t, <1>i DEF CheckpointCheck, Goto, disk, records, locks, aux,
    RecordsInv, Gone
<1>19. ASSUME NEW c \in Clients, CheckpointSave(c) PROVE RecordsInv'
  BY <1>19, <1>t, <1>i DEF CheckpointSave, LeaveWithError, Return, Unlock, SetFrame,
    Goto, disk, records, locks, aux, RecordsInv, Gone
<1>20. ASSUME NEW c \in Clients, UndoWrite(c) PROVE RecordsInv'
  BY <1>20, <1>t, <1>i DEF UndoWrite, Return, Unlock, SetFrame, Goto, disk, records,
    locks, aux, RecordsInv, Gone
<1>21. ASSUME NEW c \in Clients, RevertWrite(c) PROVE RecordsInv'
  BY <1>21, <1>t, <1>i DEF RevertWrite, LeaveWithError, Return, Unlock, SetFrame,
    Goto, disk, records, locks, aux, RecordsInv, Gone
<1>22. ASSUME CopyRequest PROVE RecordsInv'
  BY <1>22, <1>t, <1>i DEF CopyRequest, SetFrame, Goto, disk, records, locks, aux,
    RecordsInv, Gone
<1>23. ASSUME CopyWrite PROVE RecordsInv'
  BY <1>23, <1>t, <1>i DEF CopyWrite, Return, Unlock, SetFrame, Goto, disk, records,
    locks, aux, RecordsInv, Gone
<1>24. ASSUME ss_create_file PROVE RecordsInv'
  BY <1>24, <1>t, <1>i DEF ss_create_file, disk, records, locks, aux, RecordsInv,
    Gone
<1>25. ASSUME ss_delete_file PROVE RecordsInv'
  BY <1>25, <1>t, <1>i DEF ss_delete_file, SetFrame, Goto, disk, records, locks,
    aux, RecordsInv, Gone
<1>27. ASSUME DeleteContent PROVE RecordsInv'
  BY <1>27, <1>t, <1>i DEF DeleteContent, Goto, records, locks, aux, RecordsInv, Gone
<1>28. ASSUME DeleteRecord PROVE RecordsInv'
  BY <1>28, <1>t, <1>i DEF DeleteRecord, Goto, aux, RecordsInv, Gone
<1>26. ASSUME FreeRecord PROVE RecordsInv'
  BY <1>26, <1>t, <1>i DEF FreeRecord, Return, SetFrame, Goto, disk, records, locks,
    aux, RecordsInv, Gone
<1>u. CASE UNCHANGED vars
  BY <1>u, <1>t, <1>i DEF vars, disk, records, locks, aux, RecordsInv, Gone
<1> QED BY <1>u, <1>1, <1>2, <1>3, <1>4, <1>5, <1>6, <1>7, <1>8, <1>9, <1>10, <1>11,
    <1>12, <1>13, <1>14, <1>15, <1>16, <1>17, <1>18, <1>19, <1>20, <1>21, <1>22,
    <1>23, <1>24, <1>25, <1>26, <1>27, <1>28 DEF Next, ClientStep, ThreadStep, NsStep, Crashed

-----------------------------------------------------------------------------
(* The sentence lock *)

\* The sentence that a thread is about to lock is still free.
FreeToLock ==
    \A c \in Clients : pc[c] = "create" =>
        ~ss_find_session_by_sentence(frame[c].rec, frame[c].index)

\* Edits leave the delimiter at the end of a sentence.
EndsKept ==
    \A c \in Clients : sessions[c] # NoSession /\ EndsWithDot(sessions[c].sentence_text)
        => EndsWithDot(sessions[c].sentence_working)

\* A session names a sentence of the file, with the text it had when locked.
OwnSentence(c) ==
    /\ IsSentence(content, sessions[c].sentence_index, sessions[c].sentence_start,
                  sessions[c].sentence_end)
    /\ Span(content, sessions[c].sentence_start, sessions[c].sentence_end)
         = sessions[c].sentence_text

\* Every live session does, unless an ETIRW used offsets read too early.
OwnSentences == ~staleCommit => \A c \in Clients : Live(c) => OwnSentence(c)

\* A session that a step leaves alone, or only edits, or ends.
LeavesSession(d) ==
    sessions'[d] # NoSession =>
        /\ sessions[d] # NoSession
        /\ sessions'[d].file = sessions[d].file
        /\ sessions'[d].sentence_index = sessions[d].sentence_index
        /\ sessions'[d].sentence_start = sessions[d].sentence_start
        /\ sessions'[d].sentence_end = sessions[d].sentence_end
        /\ sessions'[d].sentence_text = sessions[d].sentence_text
        /\ EndsWithDot(sessions[d].sentence_working)
              => EndsWithDot(sessions'[d].sentence_working)

\* Steps that change neither the text nor what the sessions name, and do not end
\* a DELETE_FILE.
LEMMA QuietStep ==
    ASSUME OwnSentences, SentenceLocked, EndsKept,
           \A d \in Clients : LeavesSession(d),
           content' = content, listed' \subseteq listed, staleCommit' = staleCommit,
           \A d \in Clients : pc[d] = "detach" => pc'[d] = "detach" \/ sessions'[d] = NoSession,
           \A r \in listed' : BeingDeleted(r) => BeingDeleted(r)'
    PROVE  OwnSentences' /\ SentenceLocked' /\ EndsKept'
<1>1. ASSUME NEW d \in Clients, Live(d)' PROVE Live(d)
  <2>1. PICK r : r = sessions'[d].file
    OBVIOUS
  <2>2. /\ sessions'[d] # NoSession /\ pc'[d] # "detach" /\ r \in listed' /\ ~BeingDeleted(r)'
    BY <1>1, <2>1 DEF Live, HasSession, BeingDeleted
  <2>3. ~BeingDeleted(r)
    BY <2>2
  <2> QED BY <2>1, <2>2, <2>3 DEF Live, HasSession, LeavesSession
<1>2. ASSUME NEW d \in Clients, Live(d)'
      PROVE  /\ sessions'[d].sentence_index = sessions[d].sentence_index
             /\ OwnSentence(d) => OwnSentence(d)'
  BY <1>2 DEF Live, HasSession, LeavesSession, OwnSentence
<1>3. OwnSentences'
  BY <1>1, <1>2 DEF OwnSentences
<1>4. SentenceLocked'
  BY <1>1, <1>2 DEF SentenceLocked
<1>5. EndsKept'
  BY DEF EndsKept, LeavesSession
<1> QED BY <1>3, <1>4, <1>5

\* Steps after which the file has no open session.
LEMMA NobodyLive ==
    ASSUME EndsKept, sessions' = sessions, \A d \in Clients : ~Live(d)'
    PROVE  OwnSentences' /\ SentenceLocked' /\ EndsKept'
BY DEF OwnSentences, SentenceLocked, EndsKept

\* What a commit does to the sessions of other clients.
LEMMA CommitMoves ==
    ASSUME TypeInv, NEW c \in Clients, EtirwCommit(c), ~LeaveWithError(c)
    PROVE  LET r == frame[c].rec
               from == frame[c].from
               to == frame[c].to
               new == sessions[c].sentence_working
               k == Len(new) - (to - from)
               delta == count_sentences_in_span(new)
                          - count_sentences_in_span(Span(content, from, to))
           IN  /\ from <= to /\ to <= Len(content) /\ delta \in Int
               /\ sessions'[c] = sessions[c]
               /\ \A d \in Clients : sessions[d] = NoSession \/ sessions[d].file # r =>
                     sessions'[d] = sessions[d]
               /\ \A d \in Clients : d # c /\ sessions[d] # NoSession /\ sessions[d].file = r =>
                     sessions'[d] = Shifted(sessions[d], to, k, delta)
<1> DEFINE r == frame[c].rec
           from == frame[c].from
           to == frame[c].to
           new == sessions[c].sentence_working
           k == Len(new) - (to - from)
           delta == count_sentences_in_span(new)
                      - count_sentences_in_span(Span(content, from, to))
<1>1. /\ c \in Threads /\ content \in Text /\ frame[c] \in Frame
      /\ sessions[c] \in Session /\ sessions \in [Clients -> Session \cup {NoSession}]
  <2>1. c \in Threads
    BY DEF Threads
  <2>2. HasSession(c)
    BY <2>1 DEF TypeInv, FramesFilled, EtirwCommit
  <2> QED BY <2>1, <2>2 DEF TypeInv, TypeOK, HasSession
<1>2. /\ from \in Nat /\ to \in Nat /\ Len(content) \in Nat
      /\ new \in Text /\ Len(new) \in Nat
  BY <1>1 DEF Frame, Text, Session
<1>3. /\ ~(from > Len(content) \/ to > Len(content) \/ from > to)
      /\ sessions' = ss_update_active_sessions(c, r, from, to - from, Len(new), delta)
  BY DEF EtirwCommit
<1>4. from <= to /\ to <= Len(content) /\ from + (to - from) = to
  BY <1>2, <1>3
<1>5. delta \in Int
  <2>1. Span(content, from, to) \in Text
    BY <1>1, <1>2, <1>4, SpanType
  <2>2. /\ count_sentences_in_span(new) \in Nat
        /\ count_sentences_in_span(Span(content, from, to)) \in Nat
    BY <1>2, <2>1, CountType
  <2> QED BY <2>2
<1>6. \A d \in Clients : sessions'[d] =
        IF d # c /\ HasSession(d) /\ sessions[d].file = r
        THEN Shifted(sessions[d], to, k, delta)
        ELSE sessions[d]
  <2> HIDE DEF from, to, new, r, delta
  <2> QED BY <1>3, <1>4 DEF ss_update_active_sessions
<1> HIDE DEF from, to, new, r, k, delta
<1>7. /\ from <= to /\ to <= Len(content) /\ delta \in Int
      /\ sessions'[c] = sessions[c]
      /\ \A d \in Clients : sessions[d] = NoSession \/ sessions[d].file # r =>
            sessions'[d] = sessions[d]
      /\ \A d \in Clients : d # c /\ sessions[d] # NoSession /\ sessions[d].file = r =>
            sessions'[d] = Shifted(sessions[d], to, k, delta)
  BY <1>4, <1>5, <1>6 DEF HasSession
<1> QED BY <1>7 DEF from, to, new, r, k, delta

\* Sessions are created and renumbered under the record's file_lock only, so a
\* sentence found free stays free until the session is there.
LEMMA FreeToLockStep ==
    ASSUME TypeInv, LocksHeld, FreeToLock, [Next]_vars
    PROVE  FreeToLock'
<1>t. /\ pc \in [Threads -> Labels] /\ frame \in [Threads -> Frame]
      /\ sessions \in [Clients -> Session \cup {NoSession}]
      /\ Clients \subseteq Threads /\ NS \in Threads /\ NS \notin Clients
      /\ FramesFilled /\ FreeToLock
  BY ConstantsAssumption DEF TypeInv, TypeOK, Threads
<1>1. ASSUME NEW t \in Threads, FindFile(t) PROVE FreeToLock'
  BY <1>1, <1>t DEF FindFile, SetFrame, Goto, disk, records, locks, aux, FreeToLock,
    ss_find_session_by_sentence, HasSession
<1>2. ASSUME NEW t \in Threads, FindFails(t) PROVE FreeToLock'
  BY <1>2, <1>t DEF FindFails, Return, SetFrame, Goto, disk, records, locks, aux,
    FreeToLock, ss_find_session_by_sentence, HasSession
<1>3. ASSUME NEW t \in Threads, EnterFile(t) PROVE FreeToLock'
  BY <1>3, <1>t DEF EnterFile, Goto, disk, records, locks, aux, FreeToLock,
    ss_find_session_by_sentence, HasSession
<1>4. ASSUME NEW t \in Threads, WholeFileCheck(t) PROVE FreeToLock'
  BY <1>4, <1>t DEF WholeFileCheck, SetFrame, Goto, disk, records, locks, aux,
    FreeToLock, ss_find_session_by_sentence, HasSession
<1>5. ASSUME NEW t \in Threads, WholeFileRefused(t) PROVE FreeToLock'
  BY <1>5, <1>t DEF WholeFileRefused, LeaveWithError, Return, Unlock, SetFrame,
    Goto, disk, records, locks, aux, FreeToLock, ss_find_session_by_sentence,
    HasSession
<1>6. ASSUME NEW t \in Threads, TouchFreed(t) PROVE FreeToLock'
  BY <1>6, <1>t DEF TouchFreed, disk, records, locks, aux, FreeToLock,
    ss_find_session_by_sentence, HasSession
<1>7. ASSUME NEW c \in Clients, NEW i \in 0..MaxIndex, WriteLockRequest(c, i) PROVE FreeToLock'
  BY <1>7, <1>t DEF WriteLockRequest, SetFrame, Goto, ss_abort_session, disk,
    records, locks, aux, FreeToLock, ss_find_session_by_sentence, HasSession
<1>8. ASSUME NEW c \in Clients, WriteLockCheck(c) PROVE FreeToLock'
  BY <1>8, <1>t DEF WriteLockCheck, LeaveWithError, Return, Unlock, SetFrame, Goto,
    disk, records, locks, aux, FreeToLock, ss_find_session_by_sentence, HasSession
<1>9. ASSUME NEW c \in Clients, WriteLockCreate(c) PROVE FreeToLock'
  <2>1. CASE LeaveWithError(c)
    BY <1>9, <2>1, <1>t DEF LeaveWithError, Return, SetFrame, Goto, FreeToLock,
      ss_find_session_by_sentence, HasSession
  <2>2. CASE ~LeaveWithError(c)
    <3>1. PICK x : x.file = frame[c].rec /\ sessions' = [sessions EXCEPT ![c] = x]
      BY <1>9, <2>2 DEF WriteLockCreate, ss_create_session
    <3>2. \A d \in Clients : d # c /\ pc[d] = "create" => frame[d].rec # frame[c].rec
      BY <1>9, <1>t DEF WriteLockCreate, LocksHeld
    <3>3. pc' = [pc EXCEPT ![c] = "idle"] /\ frame' = [frame EXCEPT ![c] = IdleFrame]
      BY <1>9, <2>2 DEF WriteLockCreate, Return, SetFrame, Goto
    <3> QED BY <1>t, <3>1, <3>2, <3>3 DEF FreeToLock, ss_find_session_by_sentence, HasSession
  <2> QED BY <2>1, <2>2
<1>10. ASSUME NEW c \in Clients, WriteData(c) PROVE FreeToLock'
  <2>1. PICK x : sessions' = [sessions EXCEPT ![c].sentence_working = x]
    BY <1>10 DEF WriteData
  <2>2. sessions[c] \in Session
    BY <1>10, <1>t DEF WriteData, HasSession
  <2>3. \A d \in Clients : sessions'[d] # NoSession =>
              /\ sessions[d] # NoSession /\ sessions'[d].file = sessions[d].file
              /\ sessions'[d].sentence_index = sessions[d].sentence_index
    BY <2>1, <2>2, <1>t, NoSessionAssumption DEF Session
  <2>4. UNCHANGED <<pc, frame>>
    BY <1>10 DEF WriteData
  <2> QED BY <2>3, <2>4, <1>t DEF FreeToLock, ss_find_session_by_sentence, HasSession
<1>11. ASSUME NEW c \in Clients, EtirwRequest(c) PROVE FreeToLock'
  BY <1>11, <1>t DEF EtirwRequest, SetFrame, Goto, disk, records, locks, aux,
    FreeToLock, ss_find_session_by_sentence, HasSession
<1>12. ASSUME NEW c \in Clients, EtirwLock(c) PROVE FreeToLock'
  BY <1>12, <1>t DEF EtirwLock, Goto, disk, records, locks, aux, FreeToLock,
    ss_find_session_by_sentence, HasSession
<1>13. ASSUME NEW c \in Clients, EtirwCommit(c) PROVE FreeToLock'
  <2>1. CASE LeaveWithError(c)
    BY <1>13, <2>1, <1>t DEF LeaveWithError, Return, SetFrame, Goto, FreeToLock,
      ss_find_session_by_sentence, HasSession
  <2>2. CASE ~LeaveWithError(c)
    <3>1. pc[c] = "commit" /\ pc' = [pc EXCEPT ![c] = "detach"] /\ UNCHANGED frame
      BY <1>13, <2>2 DEF EtirwCommit, Goto
    <3>2. \A d \in Clients : pc[d] = "create" => frame[d].rec # frame[c].rec
      BY <3>1, <1>t DEF LocksHeld
    <3>3. \A d \in Clients : sessions[d] = NoSession \/ sessions[d].file # frame[c].rec =>
              sessions'[d] = sessions[d]
      BY <1>13, <2>2, CommitMoves
    <3>4. \A d \in Clients : sessions'[d] # NoSession =>
              sessions[d] # NoSession /\ sessions'[d].file = sessions[d].file
      BY <1>13, CommitKeepsTargets
    <3> QED BY <1>t, <3>1, <3>2, <3>3, <3>4 DEF FreeToLock, ss_find_session_by_sentence, HasSession
  <2> QED BY <2>1, <2>2
<1>14. ASSUME NEW c \in Clients, EtirwDetach(c) PROVE FreeToLock'
  BY <1>14, <1>t DEF EtirwDetach, Goto, ss_abort_session, disk, records, locks, aux,
    FreeToLock, ss_find_session_by_sentence, HasSession
<1>15. ASSUME NEW c \in Clients, ss_sync_metadata_to_ns(c) PROVE FreeToLock'
  BY <1>15, <1>t DEF ss_sync_metadata_to_ns, Return, SetFrame, Goto, disk, records,
    locks, aux, FreeToLock, ss_find_session_by_sentence, HasSession
<1>16. ASSUME NEW c \in Clients, Disconnect(c) PROVE FreeToLock'
  BY <1>16, <1>t DEF Disconnect, ss_abort_session, disk, records, locks, aux,
    FreeToLock, ss_find_session_by_sentence, HasSession
<1>17. ASSUME NEW c \in Clients, WholeFileRequest(c) PROVE FreeToLock'
  BY <1>17, <1>t DEF WholeFileRequest, SetFrame, Goto, disk, records, locks, aux,
    FreeToLock, ss_find_session_by_sentence, HasSession
<1>18. ASSUME NEW c \in Clients, CheckpointCheck(c) PROVE FreeToLock'
  BY <1>18, <1>t DEF CheckpointCheck, Goto, disk, records, locks, aux, FreeToLock,
    ss_find_session_by_sentence, HasSession
<1>19. ASSUME NEW c \in Clients, CheckpointSave(c) PROVE FreeToLock'
  BY <1>19, <1>t DEF CheckpointSave, LeaveWithError, Return, Unlock, SetFrame, Goto,
    disk, records, locks, aux, FreeToLock, ss_find_session_by_sentence, HasSession
<1>20. ASSUME NEW c \in Clients, UndoWrite(c) PROVE FreeToLock'
  BY <1>20, <1>t DEF UndoWrite, Return, Unlock, SetFrame, Goto, disk, records,
    locks, aux, FreeToLock, ss_find_session_by_sentence, HasSession
<1>21. ASSUME NEW c \in Clients, RevertWrite(c) PROVE FreeToLock'
  BY <1>21, <1>t DEF RevertWrite, LeaveWithError, Return, Unlock, SetFrame, Goto,
    disk, records, locks, aux, FreeToLock, ss_find_session_by_sentence, HasSession
<1>22. ASSUME CopyRequest PROVE FreeToLock'
  BY <1>22, <1>t DEF CopyRequest, SetFrame, Goto, disk, records, locks, aux,
    FreeToLock, ss_find_session_by_sentence, HasSession
<1>23. ASSUME CopyWrite PROVE FreeToLock'
  BY <1>23, <1>t DEF CopyWrite, Return, Unlock, SetFrame, Goto, disk, records,
    locks, aux, FreeToLock, ss_find_session_by_sentence, HasSession
<1>24. ASSUME ss_create_file PROVE FreeToLock'
  BY <1>24, <1>t DEF ss_create_file, disk, records, locks, aux, FreeToLock,
    ss_find_session_by_sentence, HasSession
<1>25. ASSUME ss_delete_file PROVE FreeToLock'
  BY <1>25, <1>t DEF ss_delete_file, SetFrame, Goto, disk, records, locks, aux,
    FreeToLock, ss_find_session_by_sentence, HasSession
<1>27. ASSUME DeleteContent PROVE FreeToLock'
  BY <1>27, <1>t DEF DeleteContent, Goto, records, locks, aux, FreeToLock,
    ss_find_session_by_sentence, HasSession
<1>28. ASSUME DeleteRecord PROVE FreeToLock'
  BY <1>28, <1>t DEF DeleteRecord, Goto, aux, FreeToLock,
    ss_find_session_by_sentence, HasSession
<1>26. ASSUME FreeRecord PROVE FreeToLock'
  BY <1>26, <1>t DEF FreeRecord, Return, SetFrame, Goto, disk, records, locks, aux,
    FreeToLock, ss_find_session_by_sentence, HasSession
<1>u. CASE UNCHANGED vars
  BY <1>u, <1>t DEF vars, disk, records, locks, aux, FreeToLock,
    ss_find_session_by_sentence, HasSession
<1> QED BY <1>u, <1>1, <1>2, <1>3, <1>4, <1>5, <1>6, <1>7, <1>8, <1>9, <1>10, <1>11,
    <1>12, <1>13, <1>14, <1>15, <1>16, <1>17, <1>18, <1>19, <1>20, <1>21, <1>22,
    <1>23, <1>24, <1>25, <1>26, <1>27, <1>28 DEF Next, ClientStep, ThreadStep, NsStep, Crashed

-----------------------------------------------------------------------------
(* Sessions that a commit or a new session finds *)

\* What moving a session changes.
LEMMA ShiftedFields ==
    ASSUME NEW x \in Session, NEW to \in Nat, NEW k \in Int, NEW delta \in Int,
           NEW y, y = Shifted(x, to, k, delta)
    PROVE  /\ y.file = x.file /\ y.sentence_text = x.sentence_text
           /\ y.sentence_working = x.sentence_working
           /\ x.sentence_start < to => y = x
           /\ x.sentence_start >= to =>
                 /\ y.sentence_start = x.sentence_start + k
                 /\ y.sentence_end = x.sentence_end + k
                 /\ x.sentence_index + delta >= 0 =>
                       y.sentence_index = x.sentence_index + delta
<1>1. /\ x.sentence_start \in Nat /\ x.sentence_end \in Nat /\ x.sentence_index \in Nat
  BY DEF Session
<1>2. CASE x.sentence_start < to
  BY <1>1, <1>2 DEF Shifted
<1>3. CASE x.sentence_start >= to
  <2> DEFINE m == IF x.sentence_index + delta < 0 THEN 0 ELSE x.sentence_index + delta
  <2>1. y = [x EXCEPT !.sentence_start = x.sentence_start + k,
                      !.sentence_end = x.sentence_end + k, !.sentence_index = m]
    BY <1>3 DEF Shifted
  <2>2. x.sentence_index + delta >= 0 => m = x.sentence_index + delta
    BY <1>1
  <2> HIDE DEF m
  <2>3. /\ y.file = x.file /\ y.sentence_text = x.sentence_text
        /\ y.sentence_working = x.sentence_working
        /\ y.sentence_start = x.sentence_start + k
        /\ y.sentence_end = x.sentence_end + k /\ y.sentence_index = m
    BY <2>1 DEF Session
  <2> QED BY <1>1, <1>3, <2>2, <2>3
<1> QED BY <1>1, <1>2, <1>3

\* A commit at the offsets of its own session leaves every other session on its
\* sentence, and renumbers the later ones upwards.
LEMMA CommitLeavesOthers ==
    ASSUME TypeInv, RecordsInv, OwnSentences, SentenceLocked, EndsKept,
           NEW c \in Clients, EtirwCommit(c), ~LeaveWithError(c), ~staleCommit',
           NEW d \in Clients, Live(d)'
    PROVE  LET i == sessions[c].sentence_index
               j == sessions[d].sentence_index
               delta == count_sentences_in_span(sessions[c].sentence_working)
                          - count_sentences_in_span(Span(content, frame[c].from, frame[c].to))
           IN  /\ Live(d) /\ d # c /\ delta \in Int
               /\ OwnSentence(d)'
               /\ \/ j < i /\ sessions'[d].sentence_index = j
                  \/ j > i /\ sessions'[d].sentence_index = j + delta /\ delta >= 0
<1> DEFINE r == frame[c].rec
           from == frame[c].from
           to == frame[c].to
           new == sessions[c].sentence_working
           k == Len(new) - (to - from)
           delta == count_sentences_in_span(new)
                      - count_sentences_in_span(Span(content, from, to))
           i == sessions[c].sentence_index
           j == sessions[d].sentence_index
           a == sessions[d].sentence_start
           e == sessions[d].sentence_end
<1>1. /\ c \in Threads /\ content \in Text /\ frame[c] \in Frame
      /\ sessions[c] \in Session /\ sessions[c] # NoSession /\ sessions[c].file = r
      /\ sessions \in [Clients -> Session \cup {NoSession}] /\ r \in Recs
      /\ pc \in [Threads -> Labels] /\ Clients \subseteq Threads
  <2>1. c \in Threads
    BY DEF Threads
  <2>2. HasSession(c) /\ sessions[c].file = r /\ r \in Recs
    BY <2>1 DEF TypeInv, FramesFilled, EtirwCommit
  <2> QED BY <2>1, <2>2 DEF TypeInv, TypeOK, HasSession, Threads
<1>2. /\ pc[c] = "commit" /\ pc' = [pc EXCEPT ![c] = "detach"] /\ Usable(c)
      /\ listed' = listed /\ ~staleCommit
      /\ from = sessions[c].sentence_start /\ to = sessions[c].sentence_end
      /\ content' = Splice(content, from, to, new)
  BY DEF EtirwCommit, Goto, Splice
<1>3. /\ from \in Nat /\ to \in Nat /\ Len(content) \in Nat /\ i \in Nat
      /\ new \in Text /\ Len(new) \in Nat /\ k \in Int
  BY <1>1 DEF Frame, Text, Session
<1>4. /\ from <= to /\ to <= Len(content) /\ delta \in Int
      /\ \A x \in Clients : sessions[x] = NoSession \/ sessions[x].file # r =>
            sessions'[x] = sessions[x]
      /\ \A x \in Clients : x # c /\ sessions[x] # NoSession /\ sessions[x].file = r =>
            sessions'[x] = Shifted(sessions[x], to, k, delta)
  BY CommitMoves
<1>5. /\ sessions'[d] # NoSession /\ sessions'[d].file \in listed /\ pc'[d] # "detach"
  BY <1>2 DEF Live, HasSession
<1>6. d # c /\ pc[d] # "detach"
  BY <1>1, <1>2, <1>5
<1>7. sessions[d] # NoSession /\ sessions'[d].file = sessions[d].file /\ sessions[d] \in Session
  BY <1>1, <1>5, CommitKeepsTargets
<1>8. sessions[d].file = r
  BY <1>1, <1>2, <1>5, <1>7, UsableIsListed
<1>9. Live(c) /\ Live(d)
  <2>1. frame'[NS] = frame[NS] /\ pc'[NS] = pc[NS] /\ NS \in Threads
    BY <1>1, <1>2, ConstantsAssumption DEF EtirwCommit, Threads
  <2>2. ~BeingDeleted(r)
    BY <1>7, <1>8, <2>1 DEF Live, BeingDeleted
  <2> QED BY <1>1, <1>2, <1>5, <1>6, <1>7, <1>8, <2>2 DEF Live, HasSession
<1>10. /\ i # j
       /\ IsSentence(content, i, from, to) /\ IsSentence(content, j, a, e)
       /\ Span(content, from, to) = sessions[c].sentence_text
       /\ Span(content, a, e) = sessions[d].sentence_text
  BY <1>2, <1>6, <1>9 DEF OwnSentences, OwnSentence, SentenceLocked
<1>11. /\ j \in Nat /\ a \in Nat /\ e \in Nat
  BY <1>7 DEF Session
<1>12. sessions'[d] = Shifted(sessions[d], to, k, delta)
  BY <1>4, <1>6, <1>7, <1>8
<1>13. IsSplice(content', content, from, to, new)
  <2>1. IsSplice(Splice(content, from, to, new), content, from, to, new)
    <3> HIDE DEF from, to, new
    <3> QED BY <1>1, <1>3, <1>4, SpliceUnits
  <2> QED BY <1>2, <2>1
<1> HIDE DEF from, to, new, k, delta, i, j, a, e
<1>14. /\ sessions'[d].sentence_text = sessions[d].sentence_text
       /\ a < to => sessions'[d] = sessions[d]
       /\ a >= to => /\ sessions'[d].sentence_start = a + k
                     /\ sessions'[d].sentence_end = e + k
                     /\ j + delta >= 0 => sessions'[d].sentence_index = j + delta
  BY <1>3, <1>4, <1>7, <1>12, ShiftedFields DEF a, e, j
<1>15. CASE j < i
  <2>1. a < to /\ IsSentence(content', j, a, e) /\ Span(content', a, e) = Span(content, a, e)
    <3>1. /\ content \in Text /\ new \in Text /\ i \in Nat /\ j \in Nat /\ j < i
          /\ IsSentence(content, i, from, to) /\ IsSentence(content, j, a, e)
          /\ IsSplice(content', content, from, to, new)
      BY <1>1, <1>3, <1>10, <1>11, <1>13, <1>15
    <3> QED BY <3>1, EarlierKept
  <2>2. OwnSentence(d)'
    BY <1>10, <1>14, <2>1 DEF OwnSentence, a, e, j
  <2> QED BY <1>4, <1>6, <1>9, <1>14, <1>15, <2>1, <2>2 DEF i, j, delta, new, from, to
<1>16. CASE i < j
  <2>1. EndsWithDot(new)
    <3>1. from < to /\ content[to] = Dot
      <4>1. /\ content \in Text /\ i \in Nat /\ j \in Nat /\ i < j
            /\ IsSentence(content, i, from, to) /\ IsSentence(content, j, a, e)
        BY <1>1, <1>3, <1>10, <1>11, <1>16
      <4> QED BY <4>1, SentencesInOrder
    <3>2. EndsWithDot(Span(content, from, to))
      <4>1. \A p \in (from + 1)..to : content[p] \in Unit
        BY <1>1, <1>3, <1>4 DEF Text
      <4>2. /\ SubSeq(content, from + 1, to) \in Seq(Unit)
            /\ Len(SubSeq(content, from + 1, to))
                 = IF from + 1 <= to THEN to - (from + 1) + 1 ELSE 0
            /\ \A p \in 1..(to - (from + 1) + 1) :
                  SubSeq(content, from + 1, to)[p] = content[(from + 1) + p - 1]
        BY <1>3, <4>1, SubSeqProperties, SMTT(30)
      <4>3. /\ Len(SubSeq(content, from + 1, to)) = to - from
            /\ to - from \in 1..(to - (from + 1) + 1) /\ (from + 1) + (to - from) - 1 = to
        BY <1>3, <3>1, <4>2
      <4>4. SubSeq(content, from + 1, to)[to - from] = Dot
        BY <3>1, <4>2, <4>3
      <4>5. SubSeq(content, from + 1, to) # <<>>
        <5>1. PICK q : q = SubSeq(content, from + 1, to)
          OBVIOUS
        <5>2. q \in Seq(Unit) /\ Len(q) = to - from
          BY <4>2, <4>3, <5>1
        <5>3. q # <<>>
          BY <1>3, <3>1, <5>2
        <5> QED BY <5>1, <5>3
      <4> QED BY <4>3, <4>4, <4>5 DEF EndsWithDot, Span
    <3> QED BY <1>1, <1>10, <3>2 DEF EndsKept, new
  <2>2. /\ to <= a /\ 0 <= delta
        /\ IsSentence(content', j + delta, a + k, e + k)
        /\ Span(content', a + k, e + k) = Span(content, a, e)
    <3>1. /\ content \in Text /\ new \in Text /\ i \in Nat /\ j \in Nat /\ i < j
          /\ IsSentence(content, i, from, to) /\ IsSentence(content, j, a, e)
          /\ IsSplice(content', content, from, to, new) /\ EndsWithDot(new)
      BY <1>1, <1>3, <1>10, <1>11, <1>13, <1>16, <2>1
    <3> QED BY <3>1, LaterMoved DEF k, delta
  <2>3. /\ sessions'[d].sentence_start = a + k
        /\ sessions'[d].sentence_end = e + k
        /\ sessions'[d].sentence_index = j + delta
    BY <1>3, <1>4, <1>11, <1>14, <2>2
  <2>4. OwnSentence(d)'
    BY <1>10, <1>14, <2>2, <2>3 DEF OwnSentence
  <2> QED BY <1>4, <1>6, <1>9, <1>16, <2>2, <2>3, <2>4 DEF i, j, delta, new, from, to
<1> QED BY <1>3, <1>10, <1>11, <1>15, <1>16

\* ETIRW keeps the sentence lock.
LEMMA CommitKeepsSentences ==
    ASSUME TypeInv, RecordsInv, OwnSentences, SentenceLocked, EndsKept,
           NEW c \in Clients, EtirwCommit(c), ~LeaveWithError(c)
    PROVE  OwnSentences' /\ SentenceLocked' /\ EndsKept'
<1> DEFINE delta == count_sentences_in_span(sessions[c].sentence_working)
                      - count_sentences_in_span(Span(content, frame[c].from, frame[c].to))
           i == sessions[c].sentence_index
<1>1. ASSUME ~staleCommit', NEW d \in Clients, Live(d)'
      PROVE  /\ Live(d) /\ d # c /\ delta \in Int /\ ~staleCommit /\ i \in Nat
             /\ OwnSentence(d)' /\ sessions[d].sentence_index \in Nat
             /\ \/ /\ sessions[d].sentence_index < i
                   /\ sessions'[d].sentence_index = sessions[d].sentence_index
                \/ /\ sessions[d].sentence_index > i /\ delta >= 0
                   /\ sessions'[d].sentence_index = sessions[d].sentence_index + delta
  <2>1. /\ Live(d) /\ d # c /\ delta \in Int
        /\ OwnSentence(d)'
        /\ \/ /\ sessions[d].sentence_index < i
              /\ sessions'[d].sentence_index = sessions[d].sentence_index
           \/ /\ sessions[d].sentence_index > i
              /\ sessions'[d].sentence_index = sessions[d].sentence_index + delta /\ delta >= 0
    BY <1>1, CommitLeavesOthers
  <2>2. ~staleCommit
    BY <1>1 DEF EtirwCommit
  <2>3. i \in Nat /\ sessions[d].sentence_index \in Nat
    <3>1. c \in Threads
      BY DEF Threads
    <3>2. sessions[c] # NoSession /\ sessions[d] # NoSession
      BY <2>1, <3>1 DEF TypeInv, FramesFilled, EtirwCommit, Live, HasSession
    <3> QED BY <3>2 DEF TypeInv, TypeOK, Session
  <2> QED BY <2>1, <2>2, <2>3
<1> HIDE DEF delta, i
<1>2. OwnSentences'
  BY <1>1 DEF OwnSentences
<1>3. SentenceLocked'
  <2> SUFFICES ASSUME ~staleCommit', NEW d \in Clients, NEW e \in Clients, d # e,
                      Live(d)', Live(e)'
               PROVE  sessions'[d].sentence_index # sessions'[e].sentence_index
    BY DEF SentenceLocked
  <2>1. sessions[d].sentence_index # sessions[e].sentence_index
    BY <1>1 DEF SentenceLocked
  <2> QED BY <1>1, <2>1
<1>4. EndsKept'
  <2> DEFINE k == Len(sessions[c].sentence_working) - (frame[c].to - frame[c].from)
  <2>1. /\ delta \in Int
        /\ sessions'[c] = sessions[c]
        /\ \A x \in Clients : sessions[x] = NoSession \/ sessions[x].file # frame[c].rec =>
              sessions'[x] = sessions[x]
        /\ \A x \in Clients :
              x # c /\ sessions[x] # NoSession /\ sessions[x].file = frame[c].rec =>
                 sessions'[x] = Shifted(sessions[x], frame[c].to, k, delta)
    BY CommitMoves DEF delta
  <2>2. frame[c].to \in Nat /\ k \in Int
    <3>1. c \in Threads
      BY DEF Threads
    <3>2. sessions[c] # NoSession
      BY <3>1 DEF TypeInv, FramesFilled, EtirwCommit, HasSession
    <3>3. frame[c] \in Frame /\ sessions[c] \in Session
      BY <3>1, <3>2 DEF TypeInv, TypeOK
    <3> QED BY <3>3 DEF Frame, Session, Text
  <2> HIDE DEF k
  <2>3. ASSUME NEW x \in Clients, sessions[x] # NoSession
        PROVE  /\ sessions'[x].sentence_text = sessions[x].sentence_text
               /\ sessions'[x].sentence_working = sessions[x].sentence_working
    <3>1. CASE x # c /\ sessions[x].file = frame[c].rec
      <4>1. sessions[x] \in Session
        BY <2>3 DEF TypeInv, TypeOK
      <4>2. sessions'[x] = Shifted(sessions[x], frame[c].to, k, delta)
        BY <2>1, <2>3, <3>1
      <4> QED BY <2>1, <2>2, <4>1, <4>2, ShiftedFields
    <3>2. CASE x = c \/ sessions[x].file # frame[c].rec
      BY <2>1, <3>2
    <3> QED BY <3>1, <3>2
  <2>4. ASSUME NEW x \in Clients, sessions[x] = NoSession PROVE sessions'[x] = NoSession
    BY <2>1, <2>4
  <2> QED BY <2>3, <2>4 DEF EndsKept
<1> QED BY <1>2, <1>3, <1>4

\* REQ_WRITE_LOCK grants a sentence that nobody has.
LEMMA CreateKeepsSentences ==
    ASSUME TypeInv, RecordsInv, FreeToLock, OwnSentences, SentenceLocked, EndsKept,
           NEW c \in Clients, WriteLockCreate(c), ~LeaveWithError(c)
    PROVE  OwnSentences' /\ SentenceLocked' /\ EndsKept'
<1> DEFINE r == frame[c].rec
           i == frame[c].index
<1>1. /\ c \in Threads /\ content \in Text /\ frame[c] \in Frame /\ r \in Recs
      /\ sessions \in [Clients -> Session \cup {NoSession}]
      /\ pc \in [Threads -> Labels] /\ frame \in [Threads -> Frame]
      /\ Clients \subseteq Threads
  <2>1. c \in Threads
    BY DEF Threads
  <2> QED BY <2>1 DEF TypeInv, TypeOK, Threads, FramesFilled, WriteLockCreate
<1>2. PICK b \in ss_get_sentence_bounds(content, i) :
          sessions' = [sessions EXCEPT ![c] = ss_create_session(r, i, b.start, b.end, content)]
  BY DEF WriteLockCreate
<1> DEFINE x == ss_create_session(r, i, b.start, b.end, content)
<1>3. /\ pc[c] = "create" /\ pc' = [pc EXCEPT ![c] = "idle"] /\ Usable(c)
      /\ content' = content /\ listed' = listed /\ staleCommit' = staleCommit
      /\ frame' = [frame EXCEPT ![c] = IdleFrame]
  BY DEF WriteLockCreate, Return, SetFrame, Goto, disk, records, aux
<1>4. IsSentence(content, i, b.start, b.end)
  <2>1. b = [start |-> b.start, end |-> b.end]
    BY DEF ss_get_sentence_bounds
  <2> QED BY <1>1, <1>2, <2>1, BoundsAreSentence
<1>5. /\ x.file = r /\ x.sentence_index = i
      /\ x.sentence_start = b.start /\ x.sentence_end = b.end
      /\ x.sentence_text = Span(content, b.start, b.end)
      /\ x.sentence_working = x.sentence_text
  BY DEF ss_create_session
<1>6. sessions'[c] = x /\ \A d \in Clients : d # c => sessions'[d] = sessions[d]
  BY <1>1, <1>2
<1> HIDE DEF x, r, i
<1>7. OwnSentence(c)'
  BY <1>3, <1>4, <1>5, <1>6 DEF OwnSentence
<1>8. ASSUME NEW d \in Clients, d # c, Live(d)'
      PROVE  /\ Live(d) /\ sessions'[d] = sessions[d]
             /\ OwnSentence(d) => OwnSentence(d)'
  <2>1. pc'[d] = pc[d] /\ sessions'[d] = sessions[d]
    BY <1>1, <1>3, <1>6, <1>8
  <2>2. frame'[NS] = frame[NS] /\ pc'[NS] = pc[NS]
    BY <1>1, <1>3, ConstantsAssumption DEF Threads
  <2> QED BY <1>3, <1>8, <2>1, <2>2 DEF Live, HasSession, OwnSentence, BeingDeleted
<1>9. OwnSentences'
  BY <1>3, <1>7, <1>8 DEF OwnSentences
<1>10. ASSUME NEW d \in Clients, d # c, Live(d)', Live(c)'
       PROVE  sessions'[d].sentence_index # sessions'[c].sentence_index
  <2>1. sessions[d] # NoSession /\ sessions[d].file \in listed
    BY <1>8, <1>10 DEF Live, HasSession
  <2>2. sessions[d].file = r
    BY <1>1, <1>3, <2>1, UsableIsListed DEF r
  <2>3. sessions[d].sentence_index # i
    BY <1>3, <2>1, <2>2 DEF FreeToLock, ss_find_session_by_sentence, HasSession, r, i
  <2> QED BY <1>5, <1>6, <1>10, <2>3
<1>11. SentenceLocked'
  <2> SUFFICES ASSUME ~staleCommit', NEW d \in Clients, NEW e \in Clients, d # e,
                      Live(d)', Live(e)'
               PROVE  sessions'[d].sentence_index # sessions'[e].sentence_index
    BY DEF SentenceLocked
  <2>1. CASE d # c /\ e # c
    BY <1>3, <1>8, <2>1 DEF SentenceLocked
  <2>2. CASE d = c \/ e = c
    BY <1>10, <2>2
  <2> QED BY <2>1, <2>2
<1>12. EndsKept'
  BY <1>5, <1>6 DEF EndsKept
<1> QED BY <1>9, <1>11, <1>12

-----------------------------------------------------------------------------
(* Every step *)

\* What the sessions hold, together.
Kept == OwnSentences /\ SentenceLocked /\ EndsKept

\* Every step of a handler keeps the sentence lock.
LEMMA SentencesStep ==
    ASSUME TypeInv, LocksHeld, WholeFileOpsExclusive, RecordsInv, FreeToLock, Kept, [Next]_vars
    PROVE  Kept'
<1>t. /\ pc \in [Threads -> Labels] /\ frame \in [Threads -> Frame]
      /\ sessions \in [Clients -> Session \cup {NoSession}]
      /\ Clients \subseteq Threads /\ NS \in Threads /\ NS \notin Clients
      /\ FramesFilled
  BY ConstantsAssumption DEF TypeInv, TypeOK, Threads
<1>k. OwnSentences /\ SentenceLocked /\ EndsKept
  BY DEF Kept
<1>1. ASSUME NEW t \in Threads, FindFile(t) PROVE Kept'
  <2>1. /\ \A d \in Clients : LeavesSession(d)
        /\ content' = content /\ listed' \subseteq listed /\ staleCommit' = staleCommit
        /\ \A d \in Clients : pc[d] = "detach" => pc'[d] = "detach" \/ sessions'[d] = NoSession
        /\ \A r \in listed' : BeingDeleted(r) => BeingDeleted(r)'
    BY <1>1, <1>t DEF FindFile, SetFrame, Goto, disk, records, locks, aux,
      LeavesSession, BeingDeleted
  <2> QED BY <1>k, <2>1, QuietStep DEF Kept
<1>2. ASSUME NEW t \in Threads, FindFails(t) PROVE Kept'
  <2>1. /\ \A d \in Clients : LeavesSession(d)
        /\ content' = content /\ listed' \subseteq listed /\ staleCommit' = staleCommit
        /\ \A d \in Clients : pc[d] = "detach" => pc'[d] = "detach" \/ sessions'[d] = NoSession
        /\ \A r \in listed' : BeingDeleted(r) => BeingDeleted(r)'
    BY <1>2, <1>t DEF FindFails, Return, SetFrame, Goto, disk, records, locks, aux,
      LeavesSession, BeingDeleted
  <2> QED BY <1>k, <2>1, QuietStep DEF Kept
<1>3. ASSUME NEW t \in Threads, EnterFile(t) PROVE Kept'
  <2>1. /\ \A d \in Clients : LeavesSession(d)
        /\ content' = content /\ listed' \subseteq listed /\ staleCommit' = staleCommit
        /\ \A d \in Clients : pc[d] = "detach" => pc'[d] = "detach" \/ sessions'[d] = NoSession
        /\ \A r \in listed' : BeingDeleted(r) => BeingDeleted(r)'
    BY <1>3, <1>t DEF EnterFile, Goto, disk, records, locks, aux, LeavesSession, BeingDeleted
  <2> QED BY <1>k, <2>1, QuietStep DEF Kept
<1>4. ASSUME NEW t \in Threads, WholeFileCheck(t) PROVE Kept'
  <2>1. /\ \A d \in Clients : LeavesSession(d)
        /\ content' = content /\ listed' \subseteq listed /\ staleCommit' = staleCommit
        /\ \A d \in Clients : pc[d] = "detach" => pc'[d] = "detach" \/ sessions'[d] = NoSession
        /\ \A r \in listed' : BeingDeleted(r) => BeingDeleted(r)'
    BY <1>4, <1>t DEF WholeFileCheck, SetFrame, Goto, disk, records, locks, aux,
      LeavesSession, BeingDeleted
  <2> QED BY <1>k, <2>1, QuietStep DEF Kept
<1>5. ASSUME NEW t \in Threads, WholeFileRefused(t) PROVE Kept'
  <2>1. /\ \A d \in Clients : LeavesSession(d)
        /\ content' = content /\ listed' \subseteq listed /\ staleCommit' = staleCommit
        /\ \A d \in Clients : pc[d] = "detach" => pc'[d] = "detach" \/ sessions'[d] = NoSession
        /\ \A r \in listed' : BeingDeleted(r) => BeingDeleted(r)'
    BY <1>5, <1>t DEF WholeFileRefused, LeaveWithError, Return, Unlock, SetFrame, Goto,
      disk, records, locks, aux, LeavesSession, BeingDeleted
  <2> QED BY <1>k, <2>1, QuietStep DEF Kept
<1>6. ASSUME NEW t \in Threads, TouchFreed(t) PROVE Kept'
  <2>1. /\ \A d \in Clients : LeavesSession(d)
        /\ content' = content /\ listed' \subseteq listed /\ staleCommit' = staleCommit
        /\ \A d \in Clients : pc[d] = "detach" => pc'[d] = "detach" \/ sessions'[d] = NoSession
        /\ \A r \in listed' : BeingDeleted(r) => BeingDeleted(r)'
    BY <1>6, <1>t DEF TouchFreed, disk, records, locks, aux, LeavesSession, BeingDeleted
  <2> QED BY <1>k, <2>1, QuietStep DEF Kept
<1>7. ASSUME NEW c \in Clients, NEW i \in 0..MaxIndex, WriteLockRequest(c, i) PROVE Kept'
  <2>1. /\ \A d \in Clients : LeavesSession(d)
        /\ content' = content /\ listed' \subseteq listed /\ staleCommit' = staleCommit
        /\ \A d \in Clients : pc[d] = "detach" => pc'[d] = "detach" \/ sessions'[d] = NoSession
        /\ \A r \in listed' : BeingDeleted(r) => BeingDeleted(r)'
    BY <1>7, <1>t DEF WriteLockRequest, SetFrame, Goto, ss_abort_session, disk,
      records, locks, aux, LeavesSession, BeingDeleted
  <2> QED BY <1>k, <2>1, QuietStep DEF Kept
<1>8. ASSUME NEW c \in Clients, WriteLockCheck(c) PROVE Kept'
  <2>1. /\ \A d \in Clients : LeavesSession(d)
        /\ content' = content /\ listed' \subseteq listed /\ staleCommit' = staleCommit
        /\ \A d \in Clients : pc[d] = "detach" => pc'[d] = "detach" \/ sessions'[d] = NoSession
        /\ \A r \in listed' : BeingDeleted(r) => BeingDeleted(r)'
    BY <1>8, <1>t DEF WriteLockCheck, LeaveWithError, Return, Unlock, SetFrame, Goto,
      disk, records, locks, aux, LeavesSession, BeingDeleted
  <2> QED BY <1>k, <2>1, QuietStep DEF Kept
<1>9. ASSUME NEW c \in Clients, WriteLockCreate(c) PROVE Kept'
  <2>1. CASE LeaveWithError(c)
    <3>1. /\ \A d \in Clients : LeavesSession(d)
          /\ content' = content /\ listed' \subseteq listed /\ staleCommit' = staleCommit
          /\ \A d \in Clients : pc[d] = "detach" => pc'[d] = "detach" \/ sessions'[d] = NoSession
          /\ \A r \in listed' : BeingDeleted(r) => BeingDeleted(r)'
      BY <1>9, <1>t, <2>1 DEF WriteLockCreate, LeaveWithError, Return, SetFrame, Goto, disk,
        records, aux, LeavesSession, BeingDeleted
    <3> QED BY <1>k, <3>1, QuietStep DEF Kept
  <2>2. CASE ~LeaveWithError(c)
    BY <1>9, <1>k, <2>2, CreateKeepsSentences DEF Kept
  <2> QED BY <2>1, <2>2
<1>10. ASSUME NEW c \in Clients, WriteData(c) PROVE Kept'
  <2> DEFINE s == sessions[c].sentence_working
  <2>1. sessions[c] \in Session /\ s \in Text
    BY <1>10, <1>t DEF WriteData, HasSession, Session
  <2>2. PICK p \in InsertPoints(s), words \in Edits :
            sessions' = [sessions EXCEPT ![c].sentence_working = ss_apply_word_edit(s, p, words)]
    BY <1>10 DEF WriteData
  <2>3. EndsWithDot(s) => EndsWithDot(ss_apply_word_edit(s, p, words))
    BY <2>1, EditKeepsEnd
  <2> DEFINE w == ss_apply_word_edit(s, p, words)
  <2>4. sessions' = [sessions EXCEPT ![c] = [sessions[c] EXCEPT !.sentence_working = w]]
    BY <1>t, <2>2
  <2> HIDE DEF w
  <2>5. LeavesSession(c)
    BY <1>t, <2>1, <2>3, <2>4, NoSessionAssumption DEF LeavesSession, Session, w
  <2>6. \A d \in Clients : d # c => LeavesSession(d)
    BY <1>t, <2>4 DEF LeavesSession
  <2>7. /\ content' = content /\ listed' = listed /\ staleCommit' = staleCommit
        /\ pc' = pc /\ frame' = frame
    BY <1>10 DEF WriteData, disk, records, aux
  <2>8. \A r \in listed' : BeingDeleted(r) => BeingDeleted(r)'
    BY <2>7 DEF BeingDeleted
  <2> QED BY <1>k, <2>5, <2>6, <2>7, <2>8, QuietStep DEF Kept
<1>11. ASSUME NEW c \in Clients, EtirwRequest(c) PROVE Kept'
  <2>1. /\ \A d \in Clients : LeavesSession(d)
        /\ content' = content /\ listed' \subseteq listed /\ staleCommit' = staleCommit
        /\ \A d \in Clients : pc[d] = "detach" => pc'[d] = "detach" \/ sessions'[d] = NoSession
        /\ \A r \in listed' : BeingDeleted(r) => BeingDeleted(r)'
    BY <1>11, <1>t DEF EtirwRequest, SetFrame, Goto, disk, records, locks, aux,
      LeavesSession, BeingDeleted
  <2> QED BY <1>k, <2>1, QuietStep DEF Kept
<1>12. ASSUME NEW c \in Clients, EtirwLock(c) PROVE Kept'
  <2>1. /\ \A d \in Clients : LeavesSession(d)
        /\ content' = content /\ listed' \subseteq listed /\ staleCommit' = staleCommit
        /\ \A d \in Clients : pc[d] = "detach" => pc'[d] = "detach" \/ sessions'[d] = NoSession
        /\ \A r \in listed' : BeingDeleted(r) => BeingDeleted(r)'
    BY <1>12, <1>t DEF EtirwLock, Goto, disk, records, locks, aux, LeavesSession, BeingDeleted
  <2> QED BY <1>k, <2>1, QuietStep DEF Kept
<1>13. ASSUME NEW c \in Clients, EtirwCommit(c) PROVE Kept'
  <2>1. CASE LeaveWithError(c)
    <3>1. /\ \A d \in Clients : LeavesSession(d)
          /\ content' = content /\ listed' \subseteq listed /\ staleCommit' = staleCommit
          /\ \A d \in Clients : pc[d] = "detach" => pc'[d] = "detach" \/ sessions'[d] = NoSession
          /\ \A r \in listed' : BeingDeleted(r) => BeingDeleted(r)'
      BY <1>13, <1>t, <2>1 DEF EtirwCommit, LeaveWithError, Return, SetFrame, Goto, disk,
        records, aux, LeavesSession, BeingDeleted
    <3> QED BY <1>k, <3>1, QuietStep DEF Kept
  <2>2. CASE ~LeaveWithError(c)
    BY <1>13, <1>k, <2>2, CommitKeepsSentences DEF Kept
  <2> QED BY <2>1, <2>2
<1>14. ASSUME NEW c \in Clients, EtirwDetach(c) PROVE Kept'
  <2>1. /\ \A d \in Clients : LeavesSession(d)
        /\ content' = content /\ listed' \subseteq listed /\ staleCommit' = staleCommit
        /\ \A d \in Clients : pc[d] = "detach" => pc'[d] = "detach" \/ sessions'[d] = NoSession
        /\ \A r \in listed' : BeingDeleted(r) => BeingDeleted(r)'
    BY <1>14, <1>t DEF EtirwDetach, Goto, ss_abort_session, disk, records, locks, aux,
      LeavesSession, BeingDeleted
  <2> QED BY <1>k, <2>1, QuietStep DEF Kept
<1>15. ASSUME NEW c \in Clients, ss_sync_metadata_to_ns(c) PROVE Kept'
  <2>1. /\ \A d \in Clients : LeavesSession(d)
        /\ content' = content /\ listed' \subseteq listed /\ staleCommit' = staleCommit
        /\ \A d \in Clients : pc[d] = "detach" => pc'[d] = "detach" \/ sessions'[d] = NoSession
        /\ \A r \in listed' : BeingDeleted(r) => BeingDeleted(r)'
    BY <1>15, <1>t DEF ss_sync_metadata_to_ns, Return, SetFrame, Goto, disk, records,
      locks, aux, LeavesSession, BeingDeleted
  <2> QED BY <1>k, <2>1, QuietStep DEF Kept
<1>16. ASSUME NEW c \in Clients, Disconnect(c) PROVE Kept'
  <2>1. /\ \A d \in Clients : LeavesSession(d)
        /\ content' = content /\ listed' \subseteq listed /\ staleCommit' = staleCommit
        /\ \A d \in Clients : pc[d] = "detach" => pc'[d] = "detach" \/ sessions'[d] = NoSession
        /\ \A r \in listed' : BeingDeleted(r) => BeingDeleted(r)'
    BY <1>16, <1>t DEF Disconnect, ss_abort_session, disk, records, locks, aux,
      LeavesSession, BeingDeleted
  <2> QED BY <1>k, <2>1, QuietStep DEF Kept
<1>17. ASSUME NEW c \in Clients, WholeFileRequest(c) PROVE Kept'
  <2>1. /\ \A d \in Clients : LeavesSession(d)
        /\ content' = content /\ listed' \subseteq listed /\ staleCommit' = staleCommit
        /\ \A d \in Clients : pc[d] = "detach" => pc'[d] = "detach" \/ sessions'[d] = NoSession
        /\ \A r \in listed' : BeingDeleted(r) => BeingDeleted(r)'
    BY <1>17, <1>t DEF WholeFileRequest, SetFrame, Goto, disk, records, locks, aux,
      LeavesSession, BeingDeleted
  <2> QED BY <1>k, <2>1, QuietStep DEF Kept
<1>18. ASSUME NEW c \in Clients, CheckpointCheck(c) PROVE Kept'
  <2>1. /\ \A d \in Clients : LeavesSession(d)
        /\ content' = content /\ listed' \subseteq listed /\ staleCommit' = staleCommit
        /\ \A d \in Clients : pc[d] = "detach" => pc'[d] = "detach" \/ sessions'[d] = NoSession
        /\ \A r \in listed' : BeingDeleted(r) => BeingDeleted(r)'
    BY <1>18, <1>t DEF CheckpointCheck, Goto, disk, records, locks, aux, LeavesSession, BeingDeleted
  <2> QED BY <1>k, <2>1, QuietStep DEF Kept
<1>19. ASSUME NEW c \in Clients, CheckpointSave(c) PROVE Kept'
  <2>1. /\ \A d \in Clients : LeavesSession(d)
        /\ content' = content /\ listed' \subseteq listed /\ staleCommit' = staleCommit
        /\ \A d \in Clients : pc[d] = "detach" => pc'[d] = "detach" \/ sessions'[d] = NoSession
        /\ \A r \in listed' : BeingDeleted(r) => BeingDeleted(r)'
    BY <1>19, <1>t DEF CheckpointSave, LeaveWithError, Return, Unlock, SetFrame, Goto,
      disk, records, locks, aux, LeavesSession, BeingDeleted
  <2> QED BY <1>k, <2>1, QuietStep DEF Kept
<1>20. ASSUME NEW c \in Clients, UndoWrite(c) PROVE Kept'
  <2>1. sessions' = sessions /\ listed' = listed
    BY <1>20 DEF UndoWrite
  <2>2. ASSUME NEW d \in Clients PROVE ~Live(d)'
    <3> SUFFICES ASSUME sessions[d] # NoSession, sessions[d].file \in listed PROVE FALSE
      BY <2>1 DEF Live, HasSession
    <3>1. frame[c].rec = sessions[d].file
      BY <1>20, <1>t, UsableIsListed DEF UndoWrite, FramesFilled
    <3> QED BY <1>20, <1>t, <3>1 DEF UndoWrite, WholeFileOpsExclusive, ss_file_has_active_writers, HasSession
  <2> QED BY <1>k, <2>1, <2>2, NobodyLive DEF Kept
<1>21. ASSUME NEW c \in Clients, RevertWrite(c) PROVE Kept'
  <2>1. sessions' = sessions /\ listed' = listed
    BY <1>21 DEF RevertWrite, LeaveWithError, records
  <2>2. ASSUME NEW d \in Clients PROVE ~Live(d)'
    <3> SUFFICES ASSUME sessions[d] # NoSession, sessions[d].file \in listed PROVE FALSE
      BY <2>1 DEF Live, HasSession
    <3>1. frame[c].rec = sessions[d].file
      BY <1>21, <1>t, UsableIsListed DEF RevertWrite, FramesFilled
    <3> QED BY <1>21, <1>t, <3>1 DEF RevertWrite, WholeFileOpsExclusive, ss_file_has_active_writers, HasSession
  <2> QED BY <1>k, <2>1, <2>2, NobodyLive DEF Kept
<1>22. ASSUME CopyRequest PROVE Kept'
  <2>1. /\ \A d \in Clients : LeavesSession(d)
        /\ content' = content /\ listed' \subseteq listed /\ staleCommit' = staleCommit
        /\ \A d \in Clients : pc[d] = "detach" => pc'[d] = "detach" \/ sessions'[d] = NoSession
        /\ \A r \in listed' : BeingDeleted(r) => BeingDeleted(r)'
    BY <1>22, <1>t DEF CopyRequest, SetFrame, Goto, disk, records, locks, aux,
      LeavesSession, BeingDeleted
  <2> QED BY <1>k, <2>1, QuietStep DEF Kept
<1>23. ASSUME CopyWrite PROVE Kept'
  <2>1. sessions' = sessions /\ listed' = listed
    BY <1>23 DEF CopyWrite, records
  <2>2. ASSUME NEW d \in Clients PROVE ~Live(d)'
    <3> SUFFICES ASSUME sessions[d] # NoSession, sessions[d].file \in listed PROVE FALSE
      BY <2>1 DEF Live, HasSession
    <3>1. frame[NS].rec = sessions[d].file
      BY <1>23, <1>t, UsableIsListed DEF CopyWrite, FramesFilled
    <3> QED BY <1>23, <1>t, <3>1 DEF CopyWrite, WholeFileOpsExclusive, ss_file_has_active_writers, HasSession
  <2> QED BY <1>k, <2>1, <2>2, NobodyLive DEF Kept
<1>24. ASSUME ss_create_file PROVE Kept'
  <2>1. sessions' = sessions /\ pc[NS] = "idle" /\ listed = {}
    BY <1>24 DEF ss_create_file
  <2>2. PICK r \in Recs \ freed : listed' = {r}
    BY <1>24 DEF ss_create_file
  <2>3. ASSUME NEW d \in Clients PROVE ~Live(d)'
    BY <2>1, <2>2 DEF Live, HasSession, RecordsInv, Gone
  <2> QED BY <1>k, <2>1, <2>3, NobodyLive DEF Kept
<1>25. ASSUME ss_delete_file PROVE Kept'
  <2>1. /\ \A d \in Clients : LeavesSession(d)
        /\ content' = content /\ listed' \subseteq listed /\ staleCommit' = staleCommit
        /\ \A d \in Clients : pc[d] = "detach" => pc'[d] = "detach" \/ sessions'[d] = NoSession
        /\ \A r \in listed' : BeingDeleted(r) => BeingDeleted(r)'
    BY <1>25, <1>t DEF ss_delete_file, SetFrame, Goto, disk, records, aux, LeavesSession,
      BeingDeleted
  <2> QED BY <1>k, <2>1, QuietStep DEF Kept
<1>27. ASSUME DeleteContent PROVE Kept'
  <2>1. /\ sessions' = sessions /\ listed' = listed /\ frame' = frame
        /\ pc' = [pc EXCEPT ![NS] = "delist"] /\ frame[NS].rec \in listed
    BY <1>27 DEF DeleteContent, Goto, records, RecordsInv
  <2>2. \A r \in listed : BeingDeleted(r)'
    BY <1>t, <2>1 DEF RecordsInv, BeingDeleted
  <2>3. ASSUME NEW d \in Clients PROVE ~Live(d)'
    BY <2>1, <2>2 DEF Live, HasSession, BeingDeleted
  <2> QED BY <1>k, <2>1, <2>3, NobodyLive DEF Kept
<1>28. ASSUME DeleteRecord PROVE Kept'
  <2>1. sessions' = sessions /\ listed' = {}
    BY <1>28 DEF DeleteRecord, RecordsInv
  <2>2. ASSUME NEW d \in Clients PROVE ~Live(d)'
    BY <2>1 DEF Live, HasSession
  <2> QED BY <1>k, <2>1, <2>2, NobodyLive DEF Kept
<1>26. ASSUME FreeRecord PROVE Kept'
  <2>1. /\ \A d \in Clients : LeavesSession(d)
        /\ content' = content /\ listed' \subseteq listed /\ staleCommit' = staleCommit
        /\ \A d \in Clients : pc[d] = "detach" => pc'[d] = "detach" \/ sessions'[d] = NoSession
        /\ \A r \in listed' : BeingDeleted(r) => BeingDeleted(r)'
    BY <1>26, <1>t DEF FreeRecord, Return, SetFrame, Goto, disk, records, locks, aux,
      LeavesSession, BeingDeleted
  <2> QED BY <1>k, <2>1, QuietStep DEF Kept
<1>u. CASE UNCHANGED vars
  <2>1. /\ \A d \in Clients : LeavesSession(d)
        /\ content' = content /\ listed' \subseteq listed /\ staleCommit' = staleCommit
        /\ \A d \in Clients : pc[d] = "detach" => pc'[d] = "detach" \/ sessions'[d] = NoSession
        /\ \A r \in listed' : BeingDeleted(r) => BeingDeleted(r)'
    BY <1>u DEF vars, disk, records, aux, LeavesSession, BeingDeleted
  <2> QED BY <1>k, <2>1, QuietStep DEF Kept
<1> QED BY <1>u, <1>1, <1>2, <1>3, <1>4, <1>5, <1>6, <1>7, <1>8, <1>9, <1>10, <1>11,
    <1>12, <1>13, <1>14, <1>15, <1>16, <1>17, <1>18, <1>19, <1>20, <1>21, <1>22,
    <1>23, <1>24, <1>25, <1>26, <1>27, <1>28 DEF Next, ClientStep, ThreadStep, NsStep, Crashed

-----------------------------------------------------------------------------

\* The inductive invariant of the sentence lock.
SentenceInv == ExclusionInv /\ RecordsInv /\ FreeToLock /\ Kept

\* The inductive invariant of the sentence lock holds in every state.
LEMMA SentenceInvariant == Spec => []SentenceInv
<1>1. Init => SentenceInv
  <2> SUFFICES ASSUME Init PROVE SentenceInv
    OBVIOUS
  <2>1. ExclusionInv
    BY ExclusionInit
  <2>2. RecordsInv
    <3>1. PICK r \in Recs : listed = {r}
      BY DEF Init
    <3>2. /\ freed = {} /\ NS \in Threads /\ pc[NS] = "idle"
          /\ \A t \in Threads : frame[t].rec = NoRec
          /\ \A c \in Clients : sessions[c] = NoSession
      BY DEF Init, IdleFrame, Threads
    <3> QED BY <3>1, <3>2, ConstantsAssumption DEF RecordsInv, Gone
  <2>3. FreeToLock /\ Kept
    BY DEF Init, FreeToLock, Kept, OwnSentences, SentenceLocked, EndsKept, Live, HasSession,
      Threads
  <2> QED BY <2>1, <2>2, <2>3 DEF SentenceInv
<1>2. SentenceInv /\ [Next]_vars => SentenceInv'
  BY ExclusionStep, RecordsStep, FreeToLockStep, SentencesStep DEF SentenceInv, ExclusionInv
<1> QED BY <1>1, <1>2, PTL DEF Spec

\* Whatever the other clients commit, each open session still names one sentence
\* of the file, for every number of clients and every text, as long as no ETIRW
\* commits at offsets it read too early and DELETE_FILE has not passed its test for
\* writers.
THEOREM SessionsNameSentences == Spec => []SpansAreSentences
<1>1. SentenceInv => SpansAreSentences
  <2> SUFFICES ASSUME SentenceInv, ~staleCommit, NEW c \in Clients, Live(c)
               PROVE  [start |-> sessions[c].sentence_start, end |-> sessions[c].sentence_end]
                         \in ss_get_sentence_bounds(content, sessions[c].sentence_index)
    BY DEF SpansAreSentences
  <2>1. content \in Text
    BY DEF SentenceInv, ExclusionInv, TypeInv, TypeOK
  <2> QED BY <2>1, BoundsAreSentence DEF SentenceInv, Kept, OwnSentences, OwnSentence
<1> QED BY <1>1, SentenceInvariant, PTL

\* No two open sessions name the same sentence, however the commits in between
\* renumbered them.
THEOREM SentencesAreLocked == Spec => []SentenceLocked
<1>1. SentenceInv => SentenceLocked
  BY DEF SentenceInv, Kept
<1> QED BY <1>1, SentenceInvariant, PTL

\* The text of a locked sentence is the one its client was given, under the same
\* two conditions.
THEOREM LockedTextStays == Spec => []LockedTextUnchanged
<1>1. SentenceInv => LockedTextUnchanged
  BY DEF SentenceInv, Kept, OwnSentences, OwnSentence, IsSentence, LockedTextUnchanged
<1> QED BY <1>1, SentenceInvariant, PTL

-----------------------------------------------------------------------------
(* UNDO *)

\* Of all the steps, only the writes of ETIRW and REVERT change the text of a
\* document that stays listed, UNDO, SS_COPY and DELETE_FILE apart.
LEMMA TextChangers ==
    ASSUME Next, content' # content, listed' = listed, ~CopyWrite,
           ~DeleteContent, ~\E c \in Clients : UndoWrite(c)
    PROVE  \E c \in Clients : (EtirwCommit(c) \/ RevertWrite(c)) /\ ~LeaveWithError(c)
<1>1. ASSUME NEW t \in Threads, ThreadStep(t) PROVE FALSE
  BY <1>1 DEF ThreadStep, FindFile, FindFails, EnterFile, WholeFileCheck, WholeFileRefused,
    TouchFreed, LeaveWithError, disk
<1>2. ASSUME NsStep PROVE FALSE
  <2>1. ~CopyRequest /\ ~FreeRecord
    BY DEF CopyRequest, FreeRecord, disk
  <2>2. ~ss_create_file
    BY DEF ss_create_file
  <2>3. ~ss_delete_file /\ ~DeleteRecord
    BY DEF ss_delete_file, DeleteRecord, disk
  <2> QED BY <1>2, <2>1, <2>2, <2>3 DEF NsStep
<1>3. ~Crashed
  BY DEF Crashed, vars, disk
<1>4. PICK c \in Clients : ClientStep(c)
  BY <1>1, <1>2, <1>3 DEF Next
<1>5. ~LeaveWithError(c)
  BY DEF LeaveWithError, disk
<1>6. ~\E i \in 0..MaxIndex : WriteLockRequest(c, i)
  BY DEF WriteLockRequest, disk
<1>7. ~WriteLockCheck(c) /\ ~WriteLockCreate(c) /\ ~WriteData(c)
  BY <1>5 DEF WriteLockCheck, WriteLockCreate, WriteData, disk
<1>8. ~EtirwRequest(c) /\ ~EtirwLock(c) /\ ~EtirwDetach(c) /\ ~ss_sync_metadata_to_ns(c)
  BY DEF EtirwRequest, EtirwLock, EtirwDetach, ss_sync_metadata_to_ns, disk
<1>9. ~Disconnect(c) /\ ~WholeFileRequest(c) /\ ~CheckpointCheck(c) /\ ~CheckpointSave(c)
  BY <1>5 DEF Disconnect, WholeFileRequest, CheckpointCheck, CheckpointSave, disk
<1> QED BY <1>4, <1>5, <1>6, <1>7, <1>8, <1>9 DEF ClientStep

\* The record they mark as undoable is the one the file is listed under.
LEMMA ChangeIsUndoable ==
    ASSUME SentenceInv, NEW c \in Clients, EtirwCommit(c) \/ RevertWrite(c), ~LeaveWithError(c)
    PROVE  undo' = content /\ \A r \in listed : undoAvail'[r]
<1>1. /\ undo' = content /\ undoAvail' = [undoAvail EXCEPT ![frame[c].rec] = TRUE]
      /\ Usable(c) /\ pc[c] \in {"commit", "replace"}
  BY DEF EtirwCommit, RevertWrite
<1>2. /\ RecordsInv /\ FramesFilled /\ c \in Threads
      /\ undoAvail \in [Recs -> BOOLEAN] /\ listed \subseteq Recs
  BY DEF SentenceInv, ExclusionInv, TypeInv, TypeOK, Threads
<1>3. frame[c].rec \in Recs
  BY <1>1, <1>2 DEF FramesFilled
<1>4. \A r \in listed : frame[c].rec = r
  BY <1>1, <1>2, <1>3, UsableIsListed
<1> QED BY <1>1, <1>2, <1>3, <1>4

\* What ETIRW and REVERT replace can be brought back by UNDO: the previous text
\* is the undo text, and the record that the next UNDO finds says that there is
\* one, although DELETE_FILE and CREATE_FILE may have exchanged the record.
THEOREM EveryChangeUndoable == Spec => ChangesAreUndoable
<1>1. SentenceInv /\ [Next]_vars =>
        [(content' # content /\ listed' = listed
              /\ ~CopyWrite /\ ~DeleteContent
              /\ ~\E c \in Clients : UndoWrite(c))
           => undo' = content /\ \A r \in listed : undoAvail'[r]]_vars
  <2> SUFFICES ASSUME SentenceInv, Next, content' # content, listed' = listed, ~CopyWrite,
                      ~DeleteContent, ~\E c \in Clients : UndoWrite(c)
               PROVE  undo' = content /\ \A r \in listed : undoAvail'[r]
    BY DEF vars, disk
  <2> QED BY TextChangers, ChangeIsUndoable
<1> QED BY <1>1, SentenceInvariant, PTL DEF Spec, ChangesAreUndoable

=============================================================================
