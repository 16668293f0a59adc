----------------------------- MODULE Connection ------------------------------
(***************************************************************************)
(* The senders' connections (handle_connection, dispatch and push_updates  *)
(* of daemon/src/main.rs) over FCast's frames (daemon/src/fcast.rs).       *)
(*                                                                         *)
(* Each connection has a loop that reads a frame, carries it out and       *)
(* replies, and a push task; both write through one lock, to a socket that *)
(* takes only so much from a sender who does not read.  Of the broadcasts  *)
(* there is the queue's (StatusFeed has the other); a frame's stamp is the *)
(* number of changes it knows of, so that here time does not stand still   *)
(* between two changes.                                                    *)
(***************************************************************************)
EXTENDS Naturals

CONSTANTS
  Senders,      \* connections
  Stalled,      \* the senders that stop reading
  Asks,         \* requests explored, of AllAsks
  Buffer,       \* bound: frames a socket takes that its sender has not read
  MaxInFrame,   \* short queue items that fit a frame of MAX_PACKET_SIZE
  MaxRequests   \* bound: requests of all senders

\* What a sender may send, by what dispatch makes of it: Ping or Version; RequestQueue;
\* a Play that goes through, one with a long URL, one that fails or does not parse, one
\* that fails with a long URL, which the text of its error repeats; ClearQueue; an opcode
\* for receivers; a length of 0 or beyond MAX_PACKET_SIZE, or an unknown opcode.
AllAsks ==
  {"ping", "queue", "play", "long", "fails", "longFails", "clear", "ignored", "garbage"}

ASSUME ConnectionAssumption ==
  /\ Stalled \subseteq Senders
  /\ Asks \subseteq AllAsks
  /\ Buffer \in Nat \ {0}
  /\ MaxInFrame \in Nat
  /\ MaxRequests \in Nat

VARIABLES
  items,     \* the play queue's size, in short items
  version,   \* changes of the queue, all published
  requests,  \* requests sent so far
  peer,      \* by connection: whether the sender has it open
  inbox,     \* ... the request on its way, or None
  unread,    \* ... frames written that it has not read
  loop,      \* by connection: the read loop's step
  request,   \* ... the request it has in hand
  writer,    \* ... who holds the ConnectionWriter
  written,   \* ... and its last_queue_generation
  push,      \* by connection: the push task's step
  seen,      \* ... the last change it took from the broadcast, its frame's stamp
  tooLarge,  \* ... and whether that queue does not fit a frame
  owed       \* history, by connection: the request in hand has had no reply

queueVars == <<items, version>>
peerVars  == <<peer, inbox, unread>>
loopVars  == <<loop, request>>
wireVars  == <<writer, written>>
pushVars  == <<push, seen, tooLarge>>
vars == <<queueVars, requests, peerVars, loopVars, wireVars, pushVars, owed>>

None == "none"

TypeOK ==
  /\ items \in Nat
  /\ version \in Nat
  /\ requests \in 0..MaxRequests
  /\ peer \in [Senders -> {"open", "closed"}]
  /\ inbox \in [Senders -> Asks \cup {None}]
  /\ unread \in [Senders -> 0..Buffer]
  /\ loop \in [Senders -> {"read", "run", "reply", "write", "over"}]
  /\ request \in [Senders -> Asks \cup {None, "error", "longError"}]
  /\ writer \in [Senders -> {"free", "loop", "push"}]
  /\ written \in [Senders -> 0..version]
  /\ push \in [Senders -> {"off", "wait", "lock", "write", "over"}]
  /\ seen \in [Senders -> 0..version]
  /\ tooLarge \in [Senders -> BOOLEAN]
  /\ owed \in [Senders -> BOOLEAN]
  \* Who writes holds the lock, so that the bytes of two frames do not mix.
  /\ \A c \in Senders : /\ writer[c] = "loop" <=> loop[c] = "write"
                        /\ writer[c] = "push" <=> push[c] = "write"

\* Accepted connections; the push tasks are spawned and have not run.
Init ==
  /\ items = 0 /\ version = 0 /\ requests = 0
  /\ peer = [c \in Senders |-> "open"]
  /\ inbox = [c \in Senders |-> None]
  /\ unread = [c \in Senders |-> 0]
  /\ loop = [c \in Senders |-> "read"]
  /\ request = [c \in Senders |-> None]
  /\ writer = [c \in Senders |-> "free"]
  /\ written = [c \in Senders |-> 0]
  /\ push = [c \in Senders |-> "off"]
  /\ seen = [c \in Senders |-> 0]
  /\ tooLarge = [c \in Senders |-> FALSE]
  /\ owed = [c \in Senders |-> FALSE]

-----------------------------------------------------------------------------
\* The sender

\* The next request may be sent before the last is answered.
Send(c, ask) ==
  /\ requests < MaxRequests
  /\ requests' = requests + 1
  /\ peer[c] = "open" /\ loop[c] # "over" /\ inbox[c] = None
  /\ inbox' = [inbox EXCEPT ![c] = ask]
  /\ UNCHANGED <<queueVars, peer, unread, loopVars, wireVars, pushVars, owed>>

PeerReads(c) ==
  /\ peer[c] = "open" /\ unread[c] > 0
  /\ unread' = [unread EXCEPT ![c] = @ - 1]
  /\ UNCHANGED <<queueVars, requests, peer, inbox, loopVars, wireVars, pushVars, owed>>

\* It closes, at the end of a frame or amid one; what it sent before can be read.
PeerCloses(c) ==
  /\ peer[c] = "open"
  /\ peer' = [peer EXCEPT ![c] = "closed"]
  /\ unread' = [unread EXCEPT ![c] = 0]
  /\ UNCHANGED <<queueVars, requests, inbox, loopVars, wireVars, pushVars, owed>>

-----------------------------------------------------------------------------
\* The read loop

\* read_frame and the choice of dispatch. An error of read_frame, and the end of the
\* stream, end the loop; an opcode for receivers is ignored.
ReadFrame(c) ==
  /\ loop[c] = "read" /\ inbox[c] # None
  /\ inbox' = [inbox EXCEPT ![c] = None]
  /\ request' = [request EXCEPT ![c] = IF inbox[c] = "ignored" THEN None ELSE inbox[c]]
  /\ loop' = [loop EXCEPT ![c] =
       CASE inbox[c] = "garbage"           -> "over"
         [] inbox[c] = "ignored"           -> "read"
         [] inbox[c] \in {"ping", "queue"} -> "reply"
         [] OTHER                          -> "run"]
  /\ owed' = [owed EXCEPT ![c] = inbox[c] \notin {"garbage", "ignored"}]
  /\ UNCHANGED <<queueVars, requests, peer, unread, wireVars, pushVars>>

ReadEnd(c) ==
  /\ loop[c] = "read" /\ inbox[c] = None /\ peer[c] = "closed"
  /\ loop' = [loop EXCEPT ![c] = "over"]
  /\ UNCHANGED <<queueVars, requests, peerVars, request, wireVars, pushVars, owed>>

\* What is in hand once the command is carried out: itself, or its error.
Outcome(ask) ==
  CASE ask = "fails"     -> "error"
    [] ask = "longFails" -> "longError"
    [] OTHER             -> ask

\* The blocking thread carries the command out and publishes what it changed; it goes
\* on to its end also when the sender is gone. A Play that fails leaves its item in the
\* queue, unless it was refused at once.
Run(c) ==
  /\ loop[c] = "run"
  /\ loop' = [loop EXCEPT ![c] = "reply"]
  /\ request' = [request EXCEPT ![c] = Outcome(@)]
  /\ \/ request[c] \in {"fails", "longFails"} /\ UNCHANGED queueVars
     \/ /\ items' = CASE request[c] = "clear"                 -> 0
                      [] request[c] \in {"long", "longFails"} -> items + MaxInFrame + 1
                      [] OTHER                                -> items + 1
        /\ version' = version + 1
  /\ UNCHANGED <<requests, peerVars, wireVars, pushVars, owed>>

\* Play is answered with the status, ClearQueue and RequestQueue with the queue.
WithQueue(c) == request[c] \in {"queue", "clear"}

\* write_frame refuses the reply.
Refused(c) == request[c] = "longError" \/ (WithQueue(c) /\ items > MaxInFrame)

\* Mutant: who holds the writer is not asked.
WriterIgnored(c) == TRUE
\* Mutant: all connections write through one lock.
WriterShared(c) == \A d \in Senders : writer[d] = "free"
WriterFree(c) == writer[c] = "free"

\* Mutant: a frame that does not go out is only logged.
ReplyForgotten(c) ==
  /\ loop' = [loop EXCEPT ![c] = "read"]
  /\ request' = [request EXCEPT ![c] = None]

\* A frame does not go out: the loop answers with the error, which is short, or ends if
\* an error's was the frame.
ReplyFails(c) ==
  IF request[c] \in {"error", "longError"}
  THEN loop' = [loop EXCEPT ![c] = "over"] /\ UNCHANGED request
  ELSE /\ loop' = [loop EXCEPT ![c] = "reply"]
       /\ request' = [request EXCEPT ![c] = "error"]

\* Mutant: an error of the reply ends the connection, as those of read_frame do.
ReplyEnds(c) ==
  /\ loop[c] = "reply" /\ WriterFree(c)
  /\ written' = IF WithQueue(c) THEN [written EXCEPT ![c] = version] ELSE written
  /\ IF Refused(c)
     THEN loop' = [loop EXCEPT ![c] = "over"] /\ UNCHANGED <<writer, request>>
     ELSE /\ writer' = [writer EXCEPT ![c] = "loop"]
          /\ loop' = [loop EXCEPT ![c] = "write"]
          /\ UNCHANGED request
  /\ UNCHANGED <<queueVars, requests, peerVars, pushVars, owed>>

\* The writer is taken, and under it the snapshot: write_queue_state counts it as
\* written, and write_frame refuses it when it is too large.
Reply(c) ==
  /\ loop[c] = "reply" /\ WriterFree(c)
  /\ written' = IF WithQueue(c) THEN [written EXCEPT ![c] = version] ELSE written
  /\ IF Refused(c)
     THEN ReplyFails(c) /\ UNCHANGED writer
     ELSE /\ writer' = [writer EXCEPT ![c] = "loop"]
          /\ loop' = [loop EXCEPT ![c] = "write"]
          /\ UNCHANGED request
  /\ UNCHANGED <<queueVars, requests, peerVars, pushVars, owed>>

\* write_all, once there is room; to a closed socket it succeeds or fails.
Delivered(c) ==
  \/ peer[c] = "open" /\ unread[c] < Buffer /\ unread' = [unread EXCEPT ![c] = @ + 1]
  \/ peer[c] = "closed" /\ UNCHANGED unread

ReplyWrite(c) ==
  /\ loop[c] = "write"
  /\ \/ /\ Delivered(c)
        /\ loop' = [loop EXCEPT ![c] = "read"]
        /\ request' = [request EXCEPT ![c] = None]
        /\ owed' = [owed EXCEPT ![c] = FALSE]
     \/ /\ peer[c] = "closed"
        /\ ReplyFails(c)
        /\ UNCHANGED <<unread, owed>>
  /\ writer' = [writer EXCEPT ![c] = "free"]
  /\ UNCHANGED <<queueVars, requests, peer, inbox, written, pushVars>>

\* push_task.abort(): wherever the task waits, also amid a frame.
Abort(c) ==
  /\ loop[c] = "over" /\ push[c] # "over"
  /\ push' = [push EXCEPT ![c] = "over"]
  /\ writer' = [writer EXCEPT ![c] = "free"]
  /\ UNCHANGED <<queueVars, requests, peerVars, loopVars, written, seen, tooLarge, owed>>

Loop(c) == ReadFrame(c) \/ ReadEnd(c) \/ Run(c) \/ Reply(c) \/ ReplyWrite(c) \/ Abort(c)

-----------------------------------------------------------------------------
\* The push task

\* subscribe_queue: what is in the channel by now counts as seen.
Subscribe(c) ==
  /\ push[c] = "off"
  /\ push' = [push EXCEPT ![c] = "wait"]
  /\ seen' = [seen EXCEPT ![c] = version]
  /\ UNCHANGED <<queueVars, requests, peerVars, loopVars, wireVars, tooLarge, owed>>

\* queue_rx.changed(): the latest queue only.
PushTake(c) ==
  /\ push[c] = "wait" /\ seen[c] < version
  /\ push' = [push EXCEPT ![c] = "lock"]
  /\ seen' = [seen EXCEPT ![c] = version]
  /\ tooLarge' = [tooLarge EXCEPT ![c] = items > MaxInFrame]
  /\ UNCHANGED <<queueVars, requests, peerVars, loopVars, wireVars, owed>>

\* write_queue_state: a frame older than the last is dropped; one too large for a
\* frame is an error, which ends the task.
PushLock(c) ==
  /\ push[c] = "lock" /\ WriterFree(c)
  /\ IF seen[c] < written[c]
     THEN push' = [push EXCEPT ![c] = "wait"] /\ UNCHANGED wireVars
     ELSE /\ written' = [written EXCEPT ![c] = seen[c]]
          /\ IF tooLarge[c]
             THEN push' = [push EXCEPT ![c] = "over"] /\ UNCHANGED writer
             ELSE /\ push' = [push EXCEPT ![c] = "write"]
                  /\ writer' = [writer EXCEPT ![c] = "push"]
  /\ UNCHANGED <<queueVars, requests, peerVars, loopVars, seen, tooLarge, owed>>

PushWrite(c) ==
  /\ push[c] = "write"
  /\ \/ Delivered(c) /\ push' = [push EXCEPT ![c] = "wait"]
     \/ peer[c] = "closed" /\ push' = [push EXCEPT ![c] = "over"] /\ UNCHANGED unread
  /\ writer' = [writer EXCEPT ![c] = "free"]
  /\ UNCHANGED <<queueVars, requests, peer, inbox, loopVars, written, seen, tooLarge, owed>>

Push(c) == Subscribe(c) \/ PushTake(c) \/ PushLock(c) \/ PushWrite(c)

-----------------------------------------------------------------------------
Next ==
  \E c \in Senders :
    \/ \E ask \in Asks : Send(c, ask)
    \/ PeerReads(c) \/ PeerCloses(c)
    \/ Loop(c)
    \/ Push(c)

Spec == Init /\ [][Next]_vars

\* Tasks that can run do, and a sender that is not stalled reads what it is sent.
Fairness ==
  /\ \A c \in Senders : WF_vars(Loop(c)) /\ WF_vars(Push(c))
  /\ \A c \in Senders \ Stalled : WF_vars(PeerReads(c))

FairSpec == Spec /\ Fairness

-----------------------------------------------------------------------------
\* One reply to each request, before the next is read ("replies to its own commands",
\* handle_connection): whatever its push task writes meanwhile, and also when the reply
\* was refused as too large, a sender is not left waiting with the loop gone on.
RepliesInTurn ==
  \A c \in Senders : loop[c] = "read" => ~owed[c]

\* A command that fails, or whose reply does, ends no connection: that takes the sender,
\* a frame out of bounds, or an error whose own text does not fit a frame. And while a
\* connection lasts its push task does, unless a queue was too large for a frame.
MustEnd(c) == peer[c] = "closed" \/ request[c] \in {"garbage", "longError"}
EndsForCause ==
  \A c \in Senders : /\ loop[c] = "over" => MustEnd(c)
                     /\ push[c] = "over" => MustEnd(c) \/ tooLarge[c]

\* Splitting the socket lets replies and pushes be written "without one blocking on the
\* other's read" (handle_connection), nor does a connection wait for another: a sender
\* that reads gets its reply though others have stopped reading, and its request is
\* taken up.
ReadersAnswered ==
  \A c \in Senders \ Stalled :
    inbox[c] # None \/ owed[c] ~> (inbox[c] = None /\ ~owed[c]) \/ loop[c] = "over"

\* "Whenever the queue changes", every connected sender is sent it (QueueState): a
\* connection that is still open has its push task.
PushLives ==
  \A c \in Senders : peer[c] = "open" /\ loop[c] # "over" => push[c] # "over"
=============================================================================
