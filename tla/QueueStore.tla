----------------------------- MODULE QueueStore ------------------------------
(***************************************************************************)
(* The play queue as others see it: the file it is saved to, the QueueState *)
(* broadcast to senders, and the titles that background lookups add to it  *)
(* (daemon/src/player.rs, queue.rs, metadata.rs).                          *)
(*                                                                         *)
(* Commands and the two watchers change the queue under Player's           *)
(* `operation` lock, but save and publish it in steps of their own, taking *)
(* the queue's lock for each.  A lookup takes the queue's lock only, and   *)
(* does all of it at once.  The daemon may die between any two steps.      *)
(***************************************************************************)
EXTENDS PlayQueue

CONSTANTS
  MaxItems,    \* bound: items queued from an empty queue on, one fewer after each restart
  MaxCrashes,  \* bound: restarts
  FileMayFail  \* whether the file may fail to be written, or to be read and parsed

ASSUME StoreAssumption ==
  /\ MaxItems \in Nat
  /\ MaxCrashes \in Nat
  /\ FileMayFail \in BOOLEAN

VARIABLES
  queue,    \* Player.queue
  titles,   \* its entries' titles, each by the entry it was looked up for
  file,     \* queue.json
  feed,     \* the value of the queue's watch channel
  op,       \* what the holder of the operation lock has still to do
  copy,     \* ... and its snapshot of the queue, until it is sent
  lookups,  \* metadata lookups under way
  tracked,  \* the rollback of the load the routing tracks
  fileOk,   \* history: the last save, or load, of the file succeeded
  crashes   \* restarts so far

vars == <<queue, titles, file, feed, op, copy, lookups, tracked, fileOk, crashes>>

NoTitle    == 0
Copy       == [queue |-> queue, titles |-> titles]
Empty      == [queue |-> EmptyQueue, titles |-> <<>>]
Copies     == [queue : Queues, titles : Seq(Nat)]
Lookups    == [index : Nat, id : Nat]
Rollbacks  == [index : Nat, previous : Nat]
NoRollback == [index |-> NoPosition, previous |-> NoPosition]

\* An operation on the queue: whether an item is to be played once the queue is
\* published, which lookup is to be started, what to undo if the item does not play.
NoOp == [step |-> "none", play |-> FALSE, lookup |-> {}, rollback |-> NoRollback]
Operations ==
  [step : {"none", "changed", "advanced", "saved", "copied", "playing"},
   play : BOOLEAN, lookup : SUBSET Lookups, rollback : Rollbacks]

TypeOK ==
  /\ queue \in Queues
  /\ titles \in Seq(Nat)
  /\ file \in Copies
  /\ feed \in Copies
  /\ op \in Operations
  /\ copy \in Copies
  /\ lookups \in SUBSET Lookups
  /\ tracked \in Rollbacks
  /\ fileOk \in BOOLEAN
  /\ crashes \in Nat

\* Player::build, with no file to load.
Init ==
  /\ queue = EmptyQueue
  /\ titles = <<>>
  /\ file = Empty
  /\ feed = Empty
  /\ op = NoOp
  /\ copy = Empty
  /\ lookups = {}
  /\ tracked = NoRollback
  /\ fileOk = TRUE
  /\ crashes = 0

-----------------------------------------------------------------------------
\* Queue::save of what is to be in memory after the step. The rename puts the whole
\* file in place; a failure is logged and the old file stays.
Save(c) ==
  \/ file' = c /\ fileOk' = TRUE
  \/ FileMayFail /\ fileOk' = FALSE /\ UNCHANGED file

\* Mutant: senders are not told.
SaveOnly == Save(Copy') /\ UNCHANGED feed
\* Mutant: the file is forgotten.
SendOnly == feed' = Copy' /\ UNCHANGED <<file, fileOk>>

\* The queue's lock is held from the change until it has been saved and sent.
SaveAndSend == Save(Copy') /\ feed' = Copy'

others == <<file, feed, copy, lookups, tracked, fileOk, crashes>>

-----------------------------------------------------------------------------
\* Operations, under the operation lock: the change ...

\* Player::play; `now` if nothing else plays, `lookup` if it is a YouTube URL.
Play(target, now, lookup) ==
  /\ op.step = "none"
  /\ queue.nextId + crashes <= MaxItems
  /\ LET q     == Push(queue, target)
         index == Len(q.items)
     IN  /\ queue' = IF now THEN SetPosition(q, index) ELSE q
         /\ titles' = Append(titles, NoTitle)
         /\ op' = [step |-> "changed", play |-> now,
                   lookup |-> IF lookup THEN {[index |-> index, id |-> queue.nextId]} ELSE {},
                   rollback |-> [index |-> index, previous |-> queue.position]]
  /\ UNCHANGED others

\* play_jumped_item, from the jump on.
JumpTo(i) ==
  /\ queue' = SetPosition(queue, i)
  /\ op' = [step |-> "changed", play |-> TRUE, lookup |-> {},
            rollback |-> [index |-> i, previous |-> queue.position]]
  /\ UNCHANGED <<titles, others>>

QueueJumpForward == op.step = "none" /\ HasNext(queue) /\ JumpTo(queue.position + 1)

QueueJumpToIndex(i) == op.step = "none" /\ InQueue(queue, i) /\ JumpTo(i)

\* From a position behind the items the jump goes nowhere and saves nothing.
QueueJumpBackward ==
  /\ op.step = "none"
  /\ HasPrevious(queue)
  /\ IF InQueue(queue, queue.position - 1)
     THEN JumpTo(queue.position - 1)
     ELSE /\ queue' = SetPosition(queue, queue.position - 1)
          /\ UNCHANGED <<titles, op, others>>

\* Player::queue_clear, once stop_locked has succeeded.
QueueClear ==
  /\ op.step = "none"
  /\ queue' = Clear(queue)
  /\ titles' = <<>>
  /\ op' = [NoOp EXCEPT !.step = "changed"]
  /\ UNCHANGED others

\* auto_advance_queue saves and sends under the queue's lock.
AutoAdvance ==
  /\ op.step = "none"
  /\ HasNext(queue)
  /\ queue' = SetPosition(queue, queue.position + 1)
  /\ op' = [step |-> "advanced", play |-> TRUE, lookup |-> {},
            rollback |-> [index |-> queue.position + 1, previous |-> queue.position]]
  /\ UNCHANGED <<titles, others>>

AutoAdvanced ==
  /\ op.step = "advanced"
  /\ op' = [op EXCEPT !.step = "playing"]
  /\ UNCHANGED <<queue, titles, copy, lookups, tracked, crashes>>
  /\ SaveAndSend

-----------------------------------------------------------------------------
\* ... then persist_queue, publish_queue_state in its two steps, and the lookup ...

PersistQueue ==
  /\ op.step = "changed"
  /\ Save(Copy)
  /\ op' = [op EXCEPT !.step = "saved"]
  /\ UNCHANGED <<queue, titles, feed, copy, lookups, tracked, crashes>>

PublishCopy ==
  /\ op.step = "saved"
  /\ copy' = Copy
  /\ op' = [op EXCEPT !.step = "copied"]
  /\ UNCHANGED <<queue, titles, file, feed, lookups, tracked, fileOk, crashes>>

PublishSend ==
  /\ op.step = "copied"
  /\ feed' = copy
  /\ copy' = Empty
  /\ lookups' = lookups \cup op.lookup
  /\ op' = IF op.play THEN [op EXCEPT !.step = "playing", !.lookup = {}] ELSE NoOp
  /\ UNCHANGED <<queue, titles, file, tracked, fileOk, crashes>>

\* ... and execute_play. A media load is tracked with its rollback, a page is not.
Played ==
  /\ op.step = "playing"
  /\ op' = NoOp
  /\ tracked' \in {tracked, op.rollback}
  /\ UNCHANGED <<queue, titles, file, feed, copy, lookups, fileOk, crashes>>

\* revert_queue_position.
RevertPosition(rollback) ==
  /\ queue' = Revert(queue, rollback)
  /\ IF queue.position = rollback.index
     THEN SaveAndSend
     ELSE UNCHANGED <<file, feed, fileOk>>

\* execute_play fails, before or after it submitted the load.
PlayFailed ==
  /\ op.step = "playing"
  /\ UNCHANGED <<titles, copy, lookups, crashes>>
  /\ RevertPosition(op.rollback)
  /\ op' = NoOp
  /\ tracked' \in {tracked, op.rollback}

\* The async event watcher, on the end of the tracked load; an error undoes the move.
LoadEnded ==
  /\ op.step = "none"
  /\ tracked # NoRollback
  /\ tracked' = NoRollback
  /\ UNCHANGED <<queue, titles, file, feed, op, copy, lookups, fileOk, crashes>>

LoadFailed ==
  /\ op.step = "none"
  /\ tracked # NoRollback
  /\ UNCHANGED <<titles, op, copy, lookups, crashes>>
  /\ RevertPosition(tracked)
  /\ tracked' = NoRollback

-----------------------------------------------------------------------------
\* Lookups, in threads of their own

\* Mutant: the index alone decides.
SetTitleAt(lookup) ==
  IF InQueue(queue, lookup.index) THEN [titles EXCEPT ![lookup.index] = lookup.id] ELSE titles

\* Queue::set_metadata: only on the entry the lookup was started for.
SetMetadata(lookup) ==
  IF InQueue(queue, lookup.index) /\ queue.items[lookup.index].id = lookup.id
  THEN [titles EXCEPT ![lookup.index] = lookup.id] ELSE titles

\* run_metadata_lookup has its answer: all under the queue's lock.
LookupDone(lookup) ==
  /\ lookups' = lookups \ {lookup}
  /\ titles' = SetMetadata(lookup)
  /\ UNCHANGED <<queue, op, copy, tracked, crashes>>
  /\ SaveAndSend

\* yt-dlp has no answer.
LookupFailed(lookup) ==
  /\ lookups' = lookups \ {lookup}
  /\ UNCHANGED <<queue, titles, file, feed, op, copy, tracked, fileOk, crashes>>

\* Queue::load: a file that cannot be read or does not parse counts as an empty queue,
\* and stays where it is.
Load(c) ==
  \/ c = file /\ fileOk' = TRUE
  \/ FileMayFail /\ c = Empty /\ fileOk' = FALSE

\* The daemon dies and is started again: Player::build starts from the file.
Restart ==
  /\ crashes < MaxCrashes
  /\ crashes' = crashes + 1
  /\ \E c \in {file, Empty} :
       Load(c) /\ queue' = c.queue /\ titles' = c.titles /\ feed' = c
  /\ op' = NoOp
  /\ copy' = Empty
  /\ lookups' = {}
  /\ tracked' = NoRollback
  /\ UNCHANGED file

-----------------------------------------------------------------------------
Next ==
  \/ \E target \in Targets, now, lookup \in BOOLEAN : Play(target, now, lookup)
  \/ QueueJumpForward
  \/ QueueJumpBackward
  \/ \E i \in 1..MaxItems : QueueJumpToIndex(i)
  \/ QueueClear
  \/ AutoAdvance \/ AutoAdvanced
  \/ PersistQueue \/ PublishCopy \/ PublishSend
  \/ Played \/ PlayFailed
  \/ LoadEnded \/ LoadFailed
  \/ \E lookup \in lookups : LookupDone(lookup) \/ LookupFailed(lookup)
  \/ Restart

Spec == Init /\ [][Next]_vars

-----------------------------------------------------------------------------
\* A title is shown on the entry it was looked up for and on no other, in memory, on
\* file and on the wire, although entries are addressed by indices that a clear
\* frees and ids are handed out again after a crash that lost them (set_metadata).
TitlesAreOwn(c) ==
  /\ Len(c.titles) = Len(c.queue.items)
  /\ \A i \in 1..Len(c.titles) : c.titles[i] \in {NoTitle, c.queue.items[i].id}
TitlesBelong == \A c \in {Copy, file, feed} : TitlesAreOwn(c)

\* A position outside the queue, which Player's bookkeeping by index can end at, is moved
\* back by a jump that saves and sends nothing.
PositionKnown == queue.position = NoPosition \/ InQueue(queue, queue.position)

\* What a restart reads is the queue as it was, titles and all: whoever saved last did
\* not save an older queue over a newer one, and every change has been saved except one
\* whose operation is about to ("every mutation in player.rs is followed by a `save`
\* call", queue.rs).  After a save that failed, or a start that could not make sense of
\* the file, that is so again from the next save that succeeds.
FileIsCurrent ==
  fileOk /\ op.step \notin {"changed", "advanced"} /\ PositionKnown => file = Copy

\* Between operations, what senders were last told of the items and the position is
\* what they are, although publishing takes two steps that a lookup's own publication
\* may get between, and although failed loads move the position back.
FeedHasItems == op.step = "none" /\ PositionKnown => feed.queue = queue
=============================================================================
