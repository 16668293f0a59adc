----------------------------- MODULE StatusFeed ------------------------------
(***************************************************************************)
(* How senders learn of the playback state: Player's status broadcast      *)
(* (daemon/src/player.rs) and the connections that pass it on              *)
(* (daemon/src/main.rs).                                                   *)
(*                                                                         *)
(* A thread that changes the state publishes it: it reads the state, takes *)
(* the time, and replaces the value of a watch channel, with nothing held  *)
(* from one step to the next.  Each connection has a push task that writes *)
(* the channel's value when it changes, and a fresh snapshot on a tick     *)
(* while it believes something plays; and it replies to its own sender's   *)
(* commands.  Both write through a ConnectionWriter, which drops a frame   *)
(* with an older time than one already written.                            *)
(***************************************************************************)
EXTENDS Integers

CONSTANTS
  Senders,     \* connections
  Commanding,  \* the senders that send commands, one at a time each
  Watchers,    \* the daemon's own threads that change the state and publish it
  Quiet,       \* of idle and paused, the states that are not playing, those explored
  MaxChanges,  \* bound: publications begun
  MaxTime      \* bound: the clock, in units of the code's milliseconds

ASSUME StatusAssumption ==
  /\ Senders \cap Watchers = {}
  /\ Commanding \subseteq Senders
  /\ "idle" \in Quiet /\ Quiet \subseteq {"idle", "paused"}
  /\ MaxChanges \in Nat
  /\ MaxTime \in Nat \ {0}

VARIABLES
  screen,   \* the playback state, as snapshot_status would find it
  now,      \* now_millis()
  changes,  \* publications begun
  pub,      \* by publisher: its step
  draft,    \* by publisher: the frame it is making
  channel,  \* the watch channel's value
  version,  \* ... and how often it was replaced
  push,     \* by connection: the push task's step
  frame,    \* ... the frame it is about to write
  seen,     \* ... the last version of the channel it took
  last,     \* ... and last_state, which arms its tick
  reply,    \* by connection: the step of the reply to a command
  answer,   \* ... and the frame to reply with
  written,  \* by connection: last_generation, the time of the last frame written
  view      \* history: ... and the state that frame told the sender

pushVars  == <<push, frame, seen, last>>
replyVars == <<reply, answer>>
wireVars  == <<written, view>>
feedVars  == <<pub, draft, channel, version>>
vars == <<screen, now, changes, feedVars, pushVars, replyVars, wireVars>>

Publishers == Commanding \cup Watchers
States     == Quiet \cup {"playing"}
Unknown    == "unknown"   \* what a sender knows before its first frame
Times      == 0..MaxTime
Frames     == [state : States, time : Times]
NoFrame    == [state |-> "idle", time |-> 0]

TypeOK ==
  /\ screen \in States
  /\ now \in Times
  /\ changes \in Nat
  /\ pub \in [Publishers -> {"done", "changed", "read", "stamped"}]
  /\ draft \in [Publishers -> Frames]
  /\ channel \in Frames
  /\ version \in Nat
  /\ push \in [Senders -> {"off", "wait", "read", "write"}]
  /\ frame \in [Senders -> Frames]
  /\ seen \in [Senders -> Nat]
  /\ last \in [Senders -> States]
  /\ reply \in [Senders -> {"none", "due", "read", "stamped"}]
  /\ answer \in [Senders -> Frames]
  /\ written \in [Senders -> Times]
  /\ view \in [Senders -> States \cup {Unknown}]

\* Player::build publishes the idle state; connections are accepted, their push
\* tasks not yet running (handle_connection).
Init ==
  /\ screen = "idle"
  /\ now = 1
  /\ changes = 0
  /\ pub = [p \in Publishers |-> "done"]
  /\ draft = [p \in Publishers |-> NoFrame]
  /\ channel = [state |-> "idle", time |-> 1]
  /\ version = 0
  /\ push = [c \in Senders |-> "off"]
  /\ frame = [c \in Senders |-> NoFrame]
  /\ seen = [c \in Senders |-> 0]
  /\ last = [c \in Senders |-> "idle"]
  /\ reply = [c \in Senders |-> "none"]
  /\ answer = [c \in Senders |-> NoFrame]
  /\ written = [c \in Senders |-> 0]
  /\ view = [c \in Senders |-> Unknown]

-----------------------------------------------------------------------------
\* Changing the state, and publishing it

\* A command, or an event of mpv, takes effect; a Play that is only queued, on the
\* state it finds. A sender's next command is read when the last has been answered.
Change(p, state) ==
  /\ changes < MaxChanges
  /\ pub[p] = "done"
  /\ p \in Commanding => reply[p] = "none"
  /\ screen' = state
  /\ changes' = changes + 1
  /\ pub' = [pub EXCEPT ![p] = "changed"]
  /\ UNCHANGED <<now, draft, channel, version, pushVars, replyVars, wireVars>>

\* snapshot_status reads mpv's properties and the page ...
PublishRead(p) ==
  /\ pub[p] = "changed"
  /\ pub' = [pub EXCEPT ![p] = "read"]
  /\ draft' = [draft EXCEPT ![p] = [state |-> screen, time |-> 0]]
  /\ UNCHANGED <<screen, now, changes, channel, version, pushVars, replyVars, wireVars>>

\* ... then takes the time ...
PublishStamp(p) ==
  /\ pub[p] = "read"
  /\ pub' = [pub EXCEPT ![p] = "stamped"]
  /\ draft' = [draft EXCEPT ![p] = [state |-> draft[p].state, time |-> now]]
  /\ UNCHANGED <<screen, now, changes, channel, version, pushVars, replyVars, wireVars>>

\* ... and send_replace follows. A command is answered next, unless it has more to
\* publish or is a jump, which is answered with the queue.
PublishSend(p) ==
  /\ pub[p] = "stamped"
  /\ pub' = [pub EXCEPT ![p] = "done"]
  /\ draft' = [draft EXCEPT ![p] = NoFrame]
  /\ channel' = draft[p]
  /\ version' = version + 1
  /\ \/ UNCHANGED reply
     \/ p \in Commanding /\ reply' = [reply EXCEPT ![p] = "due"]
  /\ UNCHANGED <<screen, now, changes, pushVars, answer, wireVars>>

\* Playback is over and nobody says so: the engine exits by itself, or mpv fails
\* with the overlay already down.
EndSilently ==
  /\ screen = "playing"
  /\ screen' = "idle"
  /\ UNCHANGED <<now, changes, feedVars, pushVars, replyVars, wireVars>>

TimePasses ==
  /\ now < MaxTime
  /\ now' = now + 1
  /\ UNCHANGED <<screen, changes, feedVars, pushVars, replyVars, wireVars>>

-----------------------------------------------------------------------------
\* A connection: the frames it writes

\* Mutant: a frame of the same millisecond counts as older.
IsNoNewer(c, f) == f.time <= written[c]
\* ConnectionWriter::write_playback_update.
IsStale(c, f) == f.time < written[c]
Write(c, f) ==
  IF IsStale(c, f) THEN UNCHANGED wireVars
  ELSE /\ written' = [written EXCEPT ![c] = f.time]
       /\ view' = [view EXCEPT ![c] = f.state]

\* Mutant: the snapshot is taken before the writer is locked.
WriterFree(c) == FALSE
\* send_status holds the writer from before its snapshot until it has written.
WriterHeld(c) == reply[c] \in {"read", "stamped"}

ReplyRead(c) ==
  /\ reply[c] = "due"
  /\ reply' = [reply EXCEPT ![c] = "read"]
  /\ answer' = [answer EXCEPT ![c] = [state |-> screen, time |-> 0]]
  /\ UNCHANGED <<screen, now, changes, feedVars, pushVars, wireVars>>

ReplyStamp(c) ==
  /\ reply[c] = "read"
  /\ reply' = [reply EXCEPT ![c] = "stamped"]
  /\ answer' = [answer EXCEPT ![c] = [state |-> answer[c].state, time |-> now]]
  /\ UNCHANGED <<screen, now, changes, feedVars, pushVars, wireVars>>

ReplyWrite(c) ==
  /\ reply[c] = "stamped"
  /\ Write(c, answer[c])
  /\ reply' = [reply EXCEPT ![c] = "none"]
  /\ answer' = [answer EXCEPT ![c] = NoFrame]
  /\ UNCHANGED <<screen, now, changes, feedVars, pushVars>>

\* Mutant: last_state starts with what the sender was told, which may be nothing.
SubscribeAsTold(c) ==
  /\ push[c] = "off"
  /\ push' = [push EXCEPT ![c] = "wait"]
  /\ seen' = [seen EXCEPT ![c] = version]
  /\ last' = [last EXCEPT ![c] = view[c]]
  /\ UNCHANGED <<screen, now, changes, feedVars, frame, replyVars, wireVars>>

\* push_updates starts: what is in the channel by now counts as seen.
Subscribe(c) ==
  /\ push[c] = "off"
  /\ push' = [push EXCEPT ![c] = "wait"]
  /\ seen' = [seen EXCEPT ![c] = version]
  /\ last' = [last EXCEPT ![c] = channel.state]
  /\ UNCHANGED <<screen, now, changes, feedVars, frame, replyVars, wireVars>>

\* rx.changed(): the latest value only, whatever came before it.
PushTake(c) ==
  /\ push[c] = "wait"
  /\ seen[c] < version
  /\ push' = [push EXCEPT ![c] = "write"]
  /\ frame' = [frame EXCEPT ![c] = channel]
  /\ seen' = [seen EXCEPT ![c] = version]
  /\ UNCHANGED <<screen, now, changes, feedVars, last, replyVars, wireVars>>

\* interval.tick(): a fresh snapshot, without the writer ...
PushTick(c) ==
  /\ push[c] = "wait"
  /\ last[c] = "playing"
  /\ push' = [push EXCEPT ![c] = "read"]
  /\ frame' = [frame EXCEPT ![c] = [state |-> screen, time |-> 0]]
  /\ UNCHANGED <<screen, now, changes, feedVars, seen, last, replyVars, wireVars>>

PushTickStamp(c) ==
  /\ push[c] = "read"
  /\ push' = [push EXCEPT ![c] = "write"]
  /\ frame' = [frame EXCEPT ![c] = [state |-> frame[c].state, time |-> now]]
  /\ UNCHANGED <<screen, now, changes, feedVars, seen, last, replyVars, wireVars>>

\* Mutant: a tick's own frame does not count.
LastPublished(c) == channel.state

\* ... and either frame is written, or dropped as older than what the sender has.
\* The tick is armed by the state written, or else by the latest one published.
LastState(c) == IF IsStale(c, frame[c]) THEN channel.state ELSE frame[c].state

PushWrite(c) ==
  /\ push[c] = "write"
  /\ ~WriterHeld(c)
  /\ Write(c, frame[c])
  /\ push' = [push EXCEPT ![c] = "wait"]
  /\ frame' = [frame EXCEPT ![c] = NoFrame]
  /\ last' = [last EXCEPT ![c] = LastState(c)]
  /\ UNCHANGED <<screen, now, changes, feedVars, seen, replyVars>>

-----------------------------------------------------------------------------
Publish(p) == PublishRead(p) \/ PublishStamp(p) \/ PublishSend(p)
Reply(c)   == ReplyRead(c) \/ ReplyStamp(c) \/ ReplyWrite(c)
Push(c)    == Subscribe(c) \/ PushTick(c) \/ PushTickStamp(c) \/ PushWrite(c)

Next ==
  \/ \E p \in Publishers : Publish(p) \/ \E state \in States : Change(p, state)
  \/ EndSilently
  \/ TimePasses
  \/ \E c \in Senders : Reply(c) \/ Push(c) \/ PushTake(c)

Spec == Init /\ [][Next]_vars

\* Threads and tasks that can run do. tokio's select! takes the ready branches in
\* random order, so a push task that keeps ticking still gets to the channel.
Fairness ==
  /\ \A p \in Publishers : WF_vars(Publish(p))
  /\ \A c \in Senders : WF_vars(Reply(c)) /\ WF_vars(Push(c)) /\ SF_vars(PushTake(c))

FairSpec == Spec /\ Fairness

-----------------------------------------------------------------------------
\* Every command gets its reply: the snapshot a sender is answered with is never
\* older than a frame already on its wire, and so is never dropped, whatever its
\* push task does meanwhile (send_status: "Snapshot under the writer lock").
RepliesArrive == \A c \in Senders : reply[c] = "stamped" => ~IsStale(c, answer[c])

\* No standing wake loop ("ticks ... only while the last known state is Playing",
\* README): once nothing plays, every connection's tick ends, also when nobody
\* published the end and when stale publications arrive late.
TickEnds == \A c \in Senders : <>[](screen # "playing") => <>[](last[c] # "playing")

\* A status published to a connection is written to its sender, unless another follows it
\* in the channel or a reply or tick stamped strictly later is on the wire by then: what is
\* published while a frame is being written is not missed, and a status is not dropped for
\* a snapshot of the same millisecond, which may have been read before it.  What is
\* stamped later may have been read before it as well (snapshot_status reads first): that
\* sender is left with the older state, and nothing here says otherwise.
PublishedReaches ==
  \A c \in Senders, v \in 1..MaxChanges :
    (push[c] # "off" /\ seen[c] < v /\ version = v)
      ~> \/ version > v
         \/ written[c] > channel.time
         \/ written[c] = channel.time /\ view[c] = channel.state
=============================================================================
