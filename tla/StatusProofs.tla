---------------------------- MODULE StatusProofs -----------------------------
(***************************************************************************)
(* Proofs about StatusFeed, for any number of senders and watchers and any *)
(* bounds: its types, and that no reply is dropped as stale.               *)
(***************************************************************************)
EXTENDS StatusFeed, TLAPS

\* The types hold in every reachable state.
THEOREM TypeCorrect == Spec => []TypeOK
<1>1. Init => TypeOK
  BY StatusAssumption DEF Init, TypeOK, Times, Frames, NoFrame, States
<1>2. TypeOK /\ [Next]_vars => TypeOK'
  <2> USE StatusAssumption
  <2> SUFFICES ASSUME TypeOK, [Next]_vars PROVE TypeOK'
    OBVIOUS
  <2>1. NoFrame \in Frames /\ 0 \in Times /\ \A state \in States, t \in Times :
          [state |-> state, time |-> t] \in Frames
    BY DEF NoFrame, Frames, Times, States
  <2>2. ASSUME NEW c \in Senders, NEW f \in Frames, Write(c, f)
        PROVE  written' \in [Senders -> Times] /\ view' \in [Senders -> States \cup {Unknown}]
    BY <2>2 DEF Write, wireVars, TypeOK, Frames
  <2>3. ASSUME NEW p \in Publishers, NEW state \in States, Change(p, state)
        PROVE  TypeOK'
    BY <2>3 DEF Change, TypeOK, pushVars, replyVars, wireVars
  <2>4. ASSUME NEW p \in Publishers, PublishRead(p) PROVE TypeOK'
    BY <2>1, <2>4 DEF PublishRead, TypeOK, pushVars, replyVars, wireVars
  <2>5. ASSUME NEW p \in Publishers, PublishStamp(p) PROVE TypeOK'
    <3>1. draft[p].state \in States
      BY DEF TypeOK, Frames
    <3> QED
      BY <2>1, <2>5, <3>1 DEF PublishStamp, TypeOK, pushVars, replyVars, wireVars
  <2>6. ASSUME NEW p \in Publishers, PublishSend(p) PROVE TypeOK'
    BY <2>1, <2>6 DEF PublishSend, TypeOK, pushVars, wireVars
  <2>7. CASE EndSilently
    BY <2>7 DEF EndSilently, TypeOK, States, feedVars, pushVars, replyVars, wireVars
  <2>8. CASE TimePasses
    BY <2>8 DEF TimePasses, TypeOK, Times, feedVars, pushVars, replyVars, wireVars
  <2>9. ASSUME NEW c \in Senders, Reply(c) PROVE TypeOK'
    <3>1. answer[c] \in Frames /\ answer[c].state \in States
      BY DEF TypeOK, Frames
    <3>2. CASE ReplyRead(c)
      BY <2>1, <3>2 DEF ReplyRead, TypeOK, feedVars, pushVars, wireVars
    <3>3. CASE ReplyStamp(c)
      BY <2>1, <3>1, <3>3 DEF ReplyStamp, TypeOK, feedVars, pushVars, wireVars
    <3>4. CASE ReplyWrite(c)
      <4>1. written' \in [Senders -> Times] /\ view' \in [Senders -> States \cup {Unknown}]
        BY <2>2, <3>1, <3>4 DEF ReplyWrite
      <4> QED
        BY <2>1, <3>4, <4>1 DEF ReplyWrite, TypeOK, feedVars, pushVars
    <3> QED
      BY <2>9, <3>2, <3>3, <3>4 DEF Reply
  <2>10. ASSUME NEW c \in Senders, Push(c) \/ PushTake(c) PROVE TypeOK'
    <3>1. frame[c] \in Frames /\ frame[c].state \in States /\ channel.state \in States
      BY DEF TypeOK, Frames
    <3>2. CASE Subscribe(c)
      BY <3>1, <3>2 DEF Subscribe, TypeOK, feedVars, replyVars, wireVars
    <3>3. CASE PushTake(c)
      BY <3>1, <3>3 DEF PushTake, TypeOK, feedVars, replyVars, wireVars
    <3>4. CASE PushTick(c)
      BY <2>1, <3>4 DEF PushTick, TypeOK, feedVars, replyVars, wireVars
    <3>5. CASE PushTickStamp(c)
      BY <2>1, <3>1, <3>5 DEF PushTickStamp, TypeOK, feedVars, replyVars, wireVars
    <3>6. CASE PushWrite(c)
      <4>1. written' \in [Senders -> Times] /\ view' \in [Senders -> States \cup {Unknown}]
        BY <2>2, <3>1, <3>6 DEF PushWrite
      <4>2. LastState(c) \in States
        BY <3>1 DEF LastState
      <4> QED
        BY <2>1, <3>6, <4>1, <4>2 DEF PushWrite, TypeOK, feedVars, replyVars
    <3> QED
      BY <2>10, <3>2, <3>3, <3>4, <3>5, <3>6 DEF Push
  <2>11. CASE UNCHANGED vars
    BY <2>11 DEF vars, TypeOK, feedVars, pushVars, replyVars, wireVars
  <2> QED
    BY <2>3, <2>4, <2>5, <2>6, <2>7, <2>8, <2>9, <2>10, <2>11 DEF Next, Publish
<1> QED
  BY <1>1, <1>2, PTL DEF Spec

-----------------------------------------------------------------------------
\* No frame, sent or in the making, is from the future: the clock only advances.
NoFutureFrames ==
  /\ \A p \in Publishers : draft[p].time <= now
  /\ channel.time <= now
  /\ \A c \in Senders :
       frame[c].time <= now /\ answer[c].time <= now /\ written[c] <= now

\* A frame written leaves the wire's times in the past.
LEMMA WritePast ==
  ASSUME TypeOK, NoFutureFrames, NEW c \in Senders, NEW f \in Frames, f.time <= now,
         Write(c, f)
  PROVE  \A d \in Senders : written'[d] <= now /\ (d # c => written'[d] = written[d])
BY DEF Write, wireVars, TypeOK, Frames, NoFutureFrames

\* A stamped reply waits with the writer held, so nothing newer than its stamp gets
\* written before it: every command's reply goes out (RepliesArrive).
THEOREM ReplyOnWire == Spec => []RepliesArrive
<1> DEFINE IInv == NoFutureFrames /\ RepliesArrive
<1>1. Init => IInv
  BY DEF Init, NoFutureFrames, RepliesArrive, NoFrame
<1>2. TypeOK /\ TypeOK' /\ IInv /\ [Next]_vars => IInv'
  <2> SUFFICES ASSUME TypeOK, TypeOK', NoFutureFrames, RepliesArrive, [Next]_vars
               PROVE  NoFutureFrames' /\ RepliesArrive'
    OBVIOUS
  <2>1. now \in Int /\ 0 <= now /\ NoFrame.time = 0
    BY DEF TypeOK, Times, NoFrame
  <2>2. ASSUME UNCHANGED <<reply, answer, written>> PROVE RepliesArrive'
    BY <2>2 DEF RepliesArrive, IsStale
  <2>3. ASSUME NEW p \in Publishers, Publish(p) \/ \E state \in States : Change(p, state)
        PROVE  NoFutureFrames' /\ RepliesArrive'
    <3>1. \/ draft' = draft
          \/ draft' = [draft EXCEPT ![p] = [state |-> screen, time |-> 0]]
          \/ draft' = [draft EXCEPT ![p] = [state |-> draft[p].state, time |-> now]]
          \/ draft' = [draft EXCEPT ![p] = NoFrame]
      BY <2>3 DEF Publish, Change, PublishRead, PublishStamp, PublishSend
    <3>2. \A q \in Publishers : draft'[q].time <= now
      <4>1. \A q \in Publishers : draft[q].time <= now
        BY DEF NoFutureFrames
      <4>2. \A q \in Publishers : q # p => draft'[q] = draft[q]
        BY <3>1 DEF TypeOK
      <4>3. draft'[p].time \in {draft[p].time, 0, now}
        BY <2>1, <3>1 DEF TypeOK
      <4> QED
        BY <2>1, <4>1, <4>2, <4>3
    <3>3. channel' = channel \/ channel' = draft[p]
      BY <2>3 DEF Publish, Change, PublishRead, PublishStamp, PublishSend
    <3>4. UNCHANGED <<now, frame, written, answer>>
      BY <2>3 DEF Publish, Change, PublishRead, PublishStamp, PublishSend,
                  pushVars, replyVars, wireVars
    <3>5. \A c \in Senders : reply'[c] = "stamped" => reply[c] = "stamped"
      BY <2>3 DEF Publish, Change, PublishRead, PublishStamp, PublishSend, replyVars, TypeOK
    <3> QED
      BY <3>2, <3>3, <3>4, <3>5 DEF NoFutureFrames, RepliesArrive, IsStale
  <2>4. CASE EndSilently
    BY <2>2, <2>4 DEF EndSilently, NoFutureFrames, feedVars, pushVars, replyVars, wireVars
  <2>5. CASE TimePasses
    <3>1. UNCHANGED <<draft, channel, frame, written, reply, answer>> /\ now' = now + 1
      BY <2>5 DEF TimePasses, feedVars, pushVars, replyVars, wireVars
    <3>2. /\ \A p \in Publishers : draft[p].time \in Int
          /\ channel.time \in Int
          /\ \A c \in Senders :
               frame[c].time \in Int /\ answer[c].time \in Int /\ written[c] \in Int
      BY DEF TypeOK, Frames, Times
    <3> QED
      BY <2>1, <2>2, <3>1, <3>2 DEF NoFutureFrames
  <2>6. ASSUME NEW c \in Senders, Reply(c) PROVE NoFutureFrames' /\ RepliesArrive'
    <3>1. UNCHANGED <<now, draft, channel, frame>>
      BY <2>6 DEF Reply, ReplyRead, ReplyStamp, ReplyWrite, feedVars, pushVars
    <3>2. ASSUME \A d \in Senders : answer'[d].time <= now /\ written'[d] <= now
          PROVE  NoFutureFrames'
      BY <3>1, <3>2 DEF NoFutureFrames
    <3>3. CASE ReplyRead(c)
      <4>1. \A d \in Senders : answer'[d].time <= now /\ written'[d] <= now
        BY <2>1, <3>3 DEF ReplyRead, NoFutureFrames, TypeOK, wireVars
      <4>2. RepliesArrive'
        BY <3>3 DEF ReplyRead, RepliesArrive, IsStale, TypeOK, wireVars
      <4> QED
        BY <3>2, <4>1, <4>2
    <3>4. CASE ReplyStamp(c)
      <4>1. \A d \in Senders : written[d] <= now /\ written[d] \in Int
        BY DEF NoFutureFrames, TypeOK, Times
      <4>2. \A d \in Senders : answer'[d].time <= now /\ written'[d] <= now
        BY <2>1, <3>4, <4>1 DEF ReplyStamp, NoFutureFrames, TypeOK, wireVars
      <4>3. answer'[c].time = now /\ written' = written
        BY <3>4 DEF ReplyStamp, TypeOK, wireVars
      <4>4. \A d \in Senders : d # c => answer'[d] = answer[d] /\ reply'[d] = reply[d]
        BY <3>4 DEF ReplyStamp, TypeOK
      <4>5. RepliesArrive'
        BY <2>1, <4>1, <4>3, <4>4 DEF RepliesArrive, IsStale
      <4> QED
        BY <3>2, <4>2, <4>5
    <3>5. CASE ReplyWrite(c)
      <4>1. answer[c] \in Frames /\ answer[c].time <= now
        BY DEF TypeOK, NoFutureFrames
      <4>2. \A d \in Senders : written'[d] <= now /\ (d # c => written'[d] = written[d])
        BY <3>5, <4>1, WritePast DEF ReplyWrite
      <4>3. /\ \A d \in Senders : answer'[d].time <= now
            /\ \A d \in Senders : d # c => answer'[d] = answer[d] /\ reply'[d] = reply[d]
            /\ reply'[c] = "none"
        BY <2>1, <3>5 DEF ReplyWrite, NoFutureFrames, TypeOK
      <4>4. RepliesArrive'
        BY <4>2, <4>3 DEF RepliesArrive, IsStale
      <4> QED
        BY <3>2, <4>2, <4>3, <4>4
    <3> QED
      BY <2>6, <3>3, <3>4, <3>5 DEF Reply
  <2>7. ASSUME NEW c \in Senders, Push(c) \/ PushTake(c)
        PROVE  NoFutureFrames' /\ RepliesArrive'
    <3>1. UNCHANGED <<now, draft, channel, reply, answer>>
      BY <2>7 DEF Push, Subscribe, PushTake, PushTick, PushTickStamp, PushWrite,
                  feedVars, replyVars
    <3>2. ASSUME UNCHANGED written, \A d \in Senders : frame'[d].time <= now
          PROVE  NoFutureFrames' /\ RepliesArrive'
      BY <2>2, <3>1, <3>2 DEF NoFutureFrames
    <3>3. CASE Subscribe(c)
      BY <3>2, <3>3 DEF Subscribe, wireVars, NoFutureFrames
    <3>4. CASE PushTake(c)
      BY <3>2, <3>4 DEF PushTake, wireVars, NoFutureFrames, TypeOK
    <3>5. CASE PushTick(c)
      BY <2>1, <3>2, <3>5 DEF PushTick, wireVars, NoFutureFrames, TypeOK
    <3>6. CASE PushTickStamp(c)
      BY <2>1, <3>2, <3>6 DEF PushTickStamp, wireVars, NoFutureFrames, TypeOK
    <3>7. CASE PushWrite(c)
      <4>1. frame[c] \in Frames /\ frame[c].time <= now
        BY DEF TypeOK, NoFutureFrames
      <4>2. \A d \in Senders : written'[d] <= now /\ (d # c => written'[d] = written[d])
        BY <3>7, <4>1, WritePast DEF PushWrite
      <4>3. reply[c] # "stamped"
        BY <3>7 DEF PushWrite, WriterHeld
      <4>4. NoFutureFrames'
        BY <2>1, <3>1, <3>7, <4>2 DEF PushWrite, NoFutureFrames, TypeOK
      <4> QED
        BY <3>1, <4>2, <4>3, <4>4 DEF RepliesArrive, IsStale
    <3> QED
      BY <2>7, <3>3, <3>4, <3>5, <3>6, <3>7 DEF Push
  <2>8. CASE UNCHANGED vars
    BY <2>2, <2>8 DEF vars, NoFutureFrames, feedVars, pushVars, replyVars, wireVars
  <2> QED
    BY <2>3, <2>4, <2>5, <2>6, <2>7, <2>8 DEF Next
<1> QED
  BY <1>1, <1>2, TypeCorrect, PTL DEF Spec
=============================================================================
