-------------------------- MODULE ConnectionProofs ---------------------------
(***************************************************************************)
(* Theorems about Connection, for any number of senders, stalled or not,   *)
(* any requests and any limits.                                            *)
(*                                                                         *)
(* The three invariants are inductive together with CauseIsLast: a push  *)
(* task that has ended for a frame out of bounds, or for an error too long *)
(* for one, belongs to a connection whose loop is over for good, so its    *)
(* cause cannot be forgotten, as a closed sender's cannot.                 *)
(***************************************************************************)
EXTENDS Connection, TLAPS

\* A frame out of bounds is the last one taken up, and an error too long for a frame the
\* last one to be sent.
CauseIsLast ==
  \A c \in Senders : /\ request[c] = "garbage" => loop[c] = "over"
                     /\ request[c] = "longError" => loop[c] \in {"reply", "over"}

IInv == TypeOK /\ RepliesInTurn /\ EndsForCause /\ CauseIsLast

LEMMA InitIInv == Init => IInv
  BY ConnectionAssumption DEF Init, IInv, TypeOK, RepliesInTurn, EndsForCause, MustEnd,
     CauseIsLast, None

-----------------------------------------------------------------------------
\* The steps, one connection's at a time

LEMMA SenderStep ==
  ASSUME IInv, NEW c \in Senders,
         (\E ask \in Asks : Send(c, ask)) \/ PeerReads(c) \/ PeerCloses(c)
  PROVE  IInv'
<1> USE ConnectionAssumption DEF IInv, TypeOK, RepliesInTurn, EndsForCause, MustEnd, CauseIsLast,
        None, queueVars, loopVars, wireVars, pushVars
<1>1. CASE \E ask \in Asks : Send(c, ask)
  BY <1>1 DEF Send
<1>2. CASE PeerReads(c)
  BY <1>2 DEF PeerReads
<1>3. CASE PeerCloses(c)
  BY <1>3 DEF PeerCloses
<1> QED  BY <1>1, <1>2, <1>3

LEMMA LoopStep ==
  ASSUME IInv, NEW c \in Senders, Loop(c)
  PROVE  IInv'
<1> USE ConnectionAssumption DEF IInv, TypeOK, RepliesInTurn, EndsForCause, MustEnd, CauseIsLast,
        None, queueVars, peerVars, loopVars, wireVars, pushVars
<1>1. CASE ReadFrame(c)
  <2>1. /\ inbox[c] \in Asks
        /\ loop[c] = "read"
        /\ inbox' = [inbox EXCEPT ![c] = None]
        /\ UNCHANGED <<items, version, requests, peer, unread, writer, written,
                       push, seen, tooLarge>>
    BY <1>1 DEF ReadFrame
  <2>2. CASE inbox[c] = "garbage"
    <3>1. /\ loop' = [loop EXCEPT ![c] = "over"]
          /\ request' = [request EXCEPT ![c] = "garbage"]
          /\ owed' = [owed EXCEPT ![c] = FALSE]
      BY <1>1, <2>2 DEF ReadFrame
    <3> QED  BY <2>1, <2>2, <3>1
  <2>3. CASE inbox[c] = "ignored"
    <3>1. /\ loop' = [loop EXCEPT ![c] = "read"]
          /\ request' = [request EXCEPT ![c] = None]
          /\ owed' = [owed EXCEPT ![c] = FALSE]
      BY <1>1, <2>3 DEF ReadFrame
    <3> QED  BY <2>1, <3>1
  <2>4. CASE inbox[c] \notin {"garbage", "ignored"}
    <3>1. /\ loop' = [loop EXCEPT ![c] = "reply"] \/ loop' = [loop EXCEPT ![c] = "run"]
          /\ request' = [request EXCEPT ![c] = inbox[c]]
          /\ owed' = [owed EXCEPT ![c] = TRUE]
      BY <1>1, <2>4 DEF ReadFrame
    <3>2. inbox[c] \notin {"error", "longError"}
      BY <2>1 DEF AllAsks
    <3> QED  BY <2>1, <2>4, <3>1, <3>2
  <2> QED  BY <2>2, <2>3, <2>4
<1>2. CASE ReadEnd(c)
  BY <1>2 DEF ReadEnd
<1>3. CASE Run(c)
  <2>1. /\ loop[c] = "run" /\ loop' = [loop EXCEPT ![c] = "reply"]
        /\ items' \in Nat /\ version' \in Nat /\ version <= version'
        /\ UNCHANGED <<requests, peer, inbox, unread, writer, written, push, seen, tooLarge, owed>>
    BY <1>3 DEF Run
  <2>2. \/ UNCHANGED request
        \/ request' = [request EXCEPT ![c] = "error"]
        \/ request' = [request EXCEPT ![c] = "longError"]
    BY <1>3 DEF Run, Outcome
  <2>3. request[c] \notin {"garbage", "longError"}
    BY <2>1
  <2> QED  BY <2>1, <2>2, <2>3
<1>4. CASE Reply(c)
  <2>1. /\ loop[c] = "reply" /\ writer[c] = "free"
        /\ written' \in [Senders -> 0..version]
        /\ UNCHANGED <<items, version, requests, peer, inbox, unread, push, seen,
                       tooLarge, owed>>
    BY <1>4 DEF Reply, WriterFree
  <2>2. CASE Refused(c)
    <3>1. \/ /\ request[c] = "longError"
             /\ loop' = [loop EXCEPT ![c] = "over"]
             /\ UNCHANGED <<writer, request>>
          \/ /\ request[c] # "longError"
             /\ loop' = [loop EXCEPT ![c] = "reply"]
             /\ request' = [request EXCEPT ![c] = "error"]
             /\ UNCHANGED writer
      BY <1>4, <2>2 DEF Reply, ReplyFails, Refused, WithQueue
    <3> QED  BY <2>1, <3>1
  <2>3. CASE ~Refused(c)
    <3>1. /\ loop' = [loop EXCEPT ![c] = "write"]
          /\ writer' = [writer EXCEPT ![c] = "loop"]
          /\ request[c] # "longError"
          /\ UNCHANGED request
      BY <1>4, <2>3 DEF Reply, Refused
    <3> QED  BY <2>1, <3>1
  <2> QED  BY <2>2, <2>3
<1>5. CASE ReplyWrite(c)
  <2>1. /\ loop[c] = "write"
        /\ writer' = [writer EXCEPT ![c] = "free"]
        /\ UNCHANGED <<items, version, requests, peer, inbox, written, push, seen,
                       tooLarge>>
    BY <1>5 DEF ReplyWrite
  <2>2. CASE /\ Delivered(c)
             /\ loop' = [loop EXCEPT ![c] = "read"]
             /\ request' = [request EXCEPT ![c] = None]
             /\ owed' = [owed EXCEPT ![c] = FALSE]
    BY <2>1, <2>2 DEF Delivered
  <2>3. CASE peer[c] = "closed" /\ ReplyFails(c) /\ UNCHANGED <<unread, owed>>
    <3>1. \/ loop' = [loop EXCEPT ![c] = "over"] /\ UNCHANGED request
          \/ /\ loop' = [loop EXCEPT ![c] = "reply"]
             /\ request' = [request EXCEPT ![c] = "error"]
      BY <2>3 DEF ReplyFails
    <3> QED  BY <2>1, <2>3, <3>1
  <2> QED  BY <1>5, <2>2, <2>3 DEF ReplyWrite
<1>6. CASE Abort(c)
  BY <1>6 DEF Abort
<1> QED  BY <1>1, <1>2, <1>3, <1>4, <1>5, <1>6 DEF Loop

LEMMA PushStep ==
  ASSUME IInv, NEW c \in Senders, Push(c)
  PROVE  IInv'
<1> USE ConnectionAssumption DEF IInv, TypeOK, RepliesInTurn, EndsForCause, MustEnd, CauseIsLast,
        None, queueVars, peerVars, loopVars, wireVars
<1>1. CASE Subscribe(c)
  BY <1>1 DEF Subscribe
<1>2. CASE PushTake(c)
  BY <1>2 DEF PushTake
<1>3. CASE PushLock(c)
  BY <1>3 DEF PushLock, WriterFree
<1>4. CASE PushWrite(c)
  BY <1>4 DEF PushWrite, Delivered
<1> QED  BY <1>1, <1>2, <1>3, <1>4 DEF Push

LEMMA StutterStep ==
  ASSUME IInv, UNCHANGED vars
  PROVE  IInv'
BY DEF IInv, TypeOK, RepliesInTurn, EndsForCause, MustEnd, CauseIsLast, vars, queueVars, peerVars,
       loopVars, wireVars, pushVars

LEMMA Invariance == Spec => []IInv
<1>1. IInv /\ [Next]_vars => IInv'
  BY SenderStep, LoopStep, PushStep, StutterStep DEF Next
<1> QED  BY InitIInv, <1>1, PTL DEF Spec

-----------------------------------------------------------------------------
\* Every reachable state is well typed, and the writer of each connection is held by
\* whoever is amid a frame (ConnectionWriter), for every number of senders.
THEOREM TypeCorrect == Spec => []TypeOK
  BY Invariance, PTL DEF IInv

\* The read loop takes up no frame with the last request unanswered: each gets its
\* reply or an error, also when the reply does not fit a frame (dispatch).
THEOREM InTurn == Spec => []RepliesInTurn
  BY Invariance, PTL DEF IInv

\* No failing command ends a connection unless the text of its error is too long for a
\* frame, and no push task ends with its connection open but for a queue too large
\* (handle_connection, push_updates).
THEOREM EndsOnlyForCause == Spec => []EndsForCause
  BY Invariance, PTL DEF IInv
=============================================================================
