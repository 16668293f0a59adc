----------------------------- MODULE QueueProofs ------------------------------
(***************************************************************************)
(* Theorems about QueueStore, for any number of items and restarts, lookups*)
(* of any duration, and a file that fails to be saved or read at any time. *)
(*                                                                         *)
(* Whatever is saved or sent is either the queue in memory (Copy) or the   *)
(* snapshot of publish_queue_state (copy).  The snapshot may be behind in  *)
(* titles, which lookups add beside the operation, never in items and      *)
(* position, which only the operation changes: that is SnapshotFresh.      *)
(***************************************************************************)
EXTENDS QueueStore, TLAPS

\* Whoever is in execute_play, or at rest, has sent what there is.
FeedFresh ==
  op.step \in {"none", "playing"} /\ PositionKnown => feed.queue = queue
SnapshotFresh == op.step = "copied" => copy.queue = queue
TitlesEverywhere == TitlesBelong /\ TitlesAreOwn(copy)

IInv == TypeOK /\ TitlesEverywhere /\ FileIsCurrent /\ FeedFresh /\ SnapshotFresh

-----------------------------------------------------------------------------
\* The queue's operators keep its type.

LEMMA PushType ==
  ASSUME NEW q \in Queues, NEW target \in Targets
  PROVE  /\ Push(q, target) \in Queues
         /\ Len(Push(q, target).items) = Len(q.items) + 1
         /\ \A i \in 1..Len(q.items) : Push(q, target).items[i] = q.items[i]
  BY DEF Push, Queues, Items

LEMMA PositionType ==
  ASSUME NEW q \in Queues, NEW i \in Nat
  PROVE  /\ SetPosition(q, i) \in Queues
         /\ SetPosition(q, i).items = q.items
         /\ SetPosition(q, i).position = i
  BY DEF SetPosition, Queues

LEMMA RevertType ==
  ASSUME NEW q \in Queues, NEW rollback \in Rollbacks
  PROVE  /\ Revert(q, rollback) \in Queues
         /\ Revert(q, rollback).items = q.items
         /\ q.position # rollback.index => Revert(q, rollback) = q
  BY PositionType DEF Revert, Rollbacks

LEMMA ClearType ==
  ASSUME NEW q \in Queues
  PROVE  Clear(q) \in Queues /\ Clear(q).items = <<>>
  BY DEF Clear, Queues, NoPosition

\* A copy of what is in memory is a copy.
LEMMA CopyType ==
  ASSUME queue \in Queues, titles \in Seq(Nat)
  PROVE  Copy \in Copies
  BY DEF Copy, Copies

LEMMA InitIInv == Init => IInv
<1>1. EmptyQueue \in Queues /\ EmptyQueue.items = <<>>
  BY DEF EmptyQueue, Queues, NoPosition
<1>2. Empty \in Copies /\ TitlesAreOwn(Empty)
  BY <1>1 DEF Empty, Copies, TitlesAreOwn
<1>3. Init => TypeOK
  BY <1>1, <1>2 DEF Init, TypeOK, NoOp, Operations, Rollbacks, NoRollback, NoPosition
<1>4. Init => TitlesEverywhere
  BY <1>2 DEF Init, TitlesEverywhere, TitlesBelong, Copy, Empty
<1>5. Init => FileIsCurrent /\ FeedFresh /\ SnapshotFresh
  BY DEF Init, FileIsCurrent, FeedFresh, SnapshotFresh, Copy, Empty, NoOp
<1> QED  BY <1>3, <1>4, <1>5 DEF IInv

-----------------------------------------------------------------------------
\* The steps that leave the file and the feed alone and bring an operation's change: of
\* the queue, and of the titles with it.
LEMMA ChangeKeeps ==
  ASSUME IInv,
         queue' \in Queues, titles' \in Seq(Nat), TitlesAreOwn(Copy'),
         op' \in Operations, op'.step \in {"changed", "advanced"},
         UNCHANGED others
  PROVE  IInv'
<1>1. TypeOK'
  BY DEF IInv, TypeOK, others
<1>2. TitlesEverywhere'
  BY DEF IInv, TitlesEverywhere, TitlesBelong, others, TitlesAreOwn
<1>3. FileIsCurrent' /\ FeedFresh' /\ SnapshotFresh'
  BY DEF FileIsCurrent, FeedFresh, SnapshotFresh
<1> QED  BY <1>1, <1>2, <1>3 DEF IInv

LEMMA JumpStep ==
  ASSUME IInv, NEW i \in Nat, JumpTo(i)
  PROVE  IInv'
<1>1. queue \in Queues /\ queue.position \in Nat /\ titles \in Seq(Nat) /\ TitlesAreOwn(Copy)
  BY DEF IInv, TypeOK, Queues, TitlesEverywhere, TitlesBelong
<1>2. queue' \in Queues /\ queue'.items = queue.items /\ titles' = titles
  BY <1>1, PositionType DEF JumpTo
<1>3. TitlesAreOwn(Copy')
  BY <1>1, <1>2 DEF TitlesAreOwn, Copy
<1>4. op' \in Operations /\ op'.step = "changed"
  BY <1>1 DEF JumpTo, Operations, Rollbacks
<1>5. UNCHANGED others
  BY DEF JumpTo
<1> QED  BY <1>1, <1>2, <1>3, <1>4, <1>5, ChangeKeeps

LEMMA ChangeStep ==
  ASSUME IInv,
         \/ \E target \in Targets, now, lookup \in BOOLEAN : Play(target, now, lookup)
         \/ QueueJumpForward
         \/ \E i \in 1..MaxItems : QueueJumpToIndex(i)
         \/ QueueClear \/ AutoAdvance
  PROVE  IInv'
<1>1. queue \in Queues /\ titles \in Seq(Nat) /\ queue.position \in Nat /\ queue.nextId \in Nat
      /\ queue.items \in Seq(Items) /\ TitlesAreOwn(Copy)
  BY DEF IInv, TypeOK, Queues, TitlesEverywhere, TitlesBelong
<1>2. ASSUME NEW target \in Targets, NEW now \in BOOLEAN, NEW lookup \in BOOLEAN,
             Play(target, now, lookup)
      PROVE  IInv'
  <2> DEFINE q == Push(queue, target)
             index == Len(q.items)
  <2>1. /\ q \in Queues
        /\ index = Len(queue.items) + 1
        /\ \A i \in 1..Len(queue.items) : q.items[i] = queue.items[i]
        /\ index \in Nat
    BY <1>1, PushType
  <2>2. queue' \in Queues /\ queue'.items = q.items
    BY <1>2, <2>1, PositionType DEF Play
  <2>3. titles' \in Seq(Nat) /\ titles' = Append(titles, NoTitle)
    BY <1>1, <1>2 DEF Play, NoTitle
  <2>4. TitlesAreOwn(Copy')
    <3>1. Len(titles) = Len(queue.items)
          /\ \A i \in 1..Len(titles) : titles[i] \in {NoTitle, queue.items[i].id}
      BY <1>1 DEF TitlesAreOwn, Copy
    <3>2. Len(titles') = Len(queue'.items)
      BY <1>1, <2>1, <2>2, <2>3, <3>1
    <3>3. ASSUME NEW i \in 1..Len(titles')
          PROVE  titles'[i] \in {NoTitle, queue'.items[i].id}
      <4>1. CASE i \in 1..Len(titles)
        <5>1. titles'[i] = titles[i]
          BY <1>1, <2>3, <4>1
        <5>2. queue'.items[i] = queue.items[i]
          BY <2>1, <2>2, <3>1, <4>1
        <5> QED  BY <3>1, <4>1, <5>1, <5>2
      <4>2. CASE i = Len(titles) + 1
        BY <1>1, <2>3, <4>2
      <4> QED  BY <1>1, <2>3, <4>1, <4>2
    <3> QED  BY <3>2, <3>3 DEF TitlesAreOwn, Copy
  <2>5. op' \in Operations /\ op'.step = "changed"
    <3>1. op' = [step |-> "changed", play |-> now,
                 lookup |-> IF lookup THEN {[index |-> index, id |-> queue.nextId]} ELSE {},
                 rollback |-> [index |-> index, previous |-> queue.position]]
      BY <1>2 DEF Play
    <3>2. [index |-> index, id |-> queue.nextId] \in Lookups
          /\ [index |-> index, previous |-> queue.position] \in Rollbacks
      BY <1>1, <2>1 DEF Lookups, Rollbacks
    <3> HIDE DEF index
    <3> QED  BY <3>1, <3>2 DEF Operations
  <2>6. UNCHANGED others
    BY <1>2 DEF Play
  <2> QED  BY <2>2, <2>3, <2>4, <2>5, <2>6, ChangeKeeps
<1>4. CASE QueueJumpForward
  <2>1. queue.position + 1 \in Nat
    BY <1>1
  <2> QED  BY <1>4, <2>1, JumpStep DEF QueueJumpForward
<1>5. CASE \E i \in 1..MaxItems : QueueJumpToIndex(i)
  BY <1>5, JumpStep DEF QueueJumpToIndex
<1>6. CASE QueueClear
  <2>1. queue' \in Queues /\ queue'.items = <<>> /\ titles' = <<>>
    BY <1>1, <1>6, ClearType DEF QueueClear
  <2>2. titles' \in Seq(Nat) /\ TitlesAreOwn(Copy')
    BY <2>1 DEF TitlesAreOwn, Copy
  <2>3. op' \in Operations /\ op'.step = "changed"
    BY <1>6 DEF QueueClear, Operations, NoOp, Rollbacks, NoRollback, NoPosition
  <2>4. UNCHANGED others
    BY <1>6 DEF QueueClear
  <2> QED  BY <2>1, <2>2, <2>3, <2>4, ChangeKeeps
<1>7. CASE AutoAdvance
  <2> DEFINE next == queue.position + 1
  <2>1. queue' \in Queues /\ queue'.items = queue.items /\ titles' = titles
    <3>1. next \in Nat /\ queue' = SetPosition(queue, next) /\ titles' = titles
      BY <1>1, <1>7 DEF AutoAdvance
    <3> HIDE DEF next
    <3> QED  BY <1>1, <3>1, PositionType
  <2>2. TitlesAreOwn(Copy')
    BY <1>1, <2>1 DEF TitlesAreOwn, Copy
  <2>3. op' \in Operations /\ op'.step = "advanced"
    BY <1>1, <1>7 DEF AutoAdvance, Operations, Rollbacks
  <2>4. UNCHANGED others
    BY <1>7 DEF AutoAdvance
  <2> QED  BY <1>1, <2>1, <2>2, <2>3, <2>4, ChangeKeeps
<1> QED  BY <1>2, <1>4, <1>5, <1>6, <1>7

\* A jump from a position outside the queue may end at another one.
LEMMA JumpBackwardStep ==
  ASSUME IInv, QueueJumpBackward
  PROVE  IInv'
<1>1. queue \in Queues /\ queue.position \in Nat /\ queue.items \in Seq(Items)
      /\ TitlesAreOwn(Copy) /\ op.step = "none"
  BY DEF IInv, TypeOK, Queues, TitlesEverywhere, TitlesBelong, QueueJumpBackward
<1>2. queue.position - 1 \in Nat /\ queue.position - 1 # 0
  BY <1>1 DEF QueueJumpBackward, HasPrevious
<1>3. queue' = SetPosition(queue, queue.position - 1)
  BY DEF QueueJumpBackward, JumpTo
<1>4. queue' \in Queues /\ queue'.items = queue.items
      /\ queue'.position = queue.position - 1
  BY <1>1, <1>2, <1>3, PositionType
<1>5. titles' = titles /\ UNCHANGED others
  BY DEF QueueJumpBackward, JumpTo
<1>6. TitlesAreOwn(Copy')
  BY <1>1, <1>4, <1>5 DEF TitlesAreOwn, Copy
<1>7. CASE InQueue(queue, queue.position - 1)
  BY <1>2, <1>7, JumpStep DEF QueueJumpBackward
<1>8. CASE ~InQueue(queue, queue.position - 1)
  <2>1. UNCHANGED op
    BY <1>8 DEF QueueJumpBackward
  <2>2. ~PositionKnown'
    BY <1>2, <1>4, <1>8 DEF PositionKnown, InQueue, NoPosition
  <2>3. TypeOK'
    BY <1>4, <1>5, <2>1 DEF IInv, TypeOK, others
  <2>4. TitlesEverywhere'
    BY <1>5, <1>6 DEF IInv, TitlesEverywhere, TitlesBelong, others, TitlesAreOwn
  <2>5. FileIsCurrent' /\ FeedFresh' /\ SnapshotFresh'
    BY <1>1, <2>1, <2>2 DEF FileIsCurrent, FeedFresh, SnapshotFresh
  <2> QED  BY <2>3, <2>4, <2>5 DEF IInv
<1> QED  BY <1>7, <1>8

-----------------------------------------------------------------------------
\* The steps that save and send under the queue's lock.
LEMMA SaveAndSendKeeps ==
  ASSUME IInv, SaveAndSend,
         queue' \in Queues, titles' \in Seq(Nat), TitlesAreOwn(Copy'),
         op' \in Operations, op'.step = "copied" => copy.queue = queue',
         lookups' \in SUBSET Lookups, tracked' \in Rollbacks, UNCHANGED <<copy, crashes>>
  PROVE  IInv'
<1>1. Copy' \in Copies /\ Copy'.queue = queue'
  BY DEF Copy, Copies
<1>2. /\ feed' = Copy'
      /\ \/ file' = Copy' /\ fileOk' = TRUE
         \/ file' = file /\ fileOk' = FALSE
  BY DEF SaveAndSend, Save, Copy
<1>3. TypeOK'
  BY <1>1, <1>2 DEF IInv, TypeOK
<1>4. TitlesEverywhere'
  <2>1. TitlesAreOwn(copy) /\ TitlesAreOwn(file)
    BY DEF IInv, TitlesEverywhere, TitlesBelong
  <2>2. TitlesAreOwn(copy')
    BY <2>1
  <2>3. TitlesAreOwn(feed')
    BY <1>2
  <2>4. TitlesAreOwn(file')
    BY <1>2, <2>1
  <2> QED  BY <2>2, <2>3, <2>4 DEF TitlesEverywhere, TitlesBelong
<1>5. FileIsCurrent' /\ FeedFresh' /\ SnapshotFresh'
  BY <1>1, <1>2 DEF FileIsCurrent, FeedFresh, SnapshotFresh
<1> QED  BY <1>3, <1>4, <1>5 DEF IInv

LEMMA AutoAdvancedStep ==
  ASSUME IInv, AutoAdvanced
  PROVE  IInv'
<1>1. SaveAndSend /\ UNCHANGED <<queue, titles, copy, lookups, tracked, crashes>>
  BY DEF AutoAdvanced
<1>2. op' \in Operations /\ op'.step = "playing"
  BY DEF AutoAdvanced, IInv, TypeOK, Operations
<1>3. queue' \in Queues /\ titles' \in Seq(Nat) /\ TitlesAreOwn(Copy')
  BY <1>1 DEF IInv, TypeOK, TitlesEverywhere, TitlesBelong, TitlesAreOwn, Copy
<1>4. lookups' \in SUBSET Lookups /\ tracked' \in Rollbacks
  BY <1>1 DEF IInv, TypeOK
<1> QED  BY <1>1, <1>2, <1>3, <1>4, SaveAndSendKeeps

\* A move undone, or nothing to undo.
LEMMA RevertKeeps ==
  ASSUME IInv, NEW rollback \in Rollbacks, RevertPosition(rollback),
         op.step \in {"none", "playing"}, op' \in Operations, op'.step = "none",
         tracked' \in Rollbacks, UNCHANGED <<titles, copy, lookups, crashes>>
  PROVE  IInv'
<1>1. queue \in Queues
  BY DEF IInv, TypeOK
<1>2. queue' \in Queues /\ queue'.items = queue.items
      /\ (queue.position # rollback.index => queue' = queue)
  BY <1>1, RevertType DEF RevertPosition
<1>3. titles' \in Seq(Nat) /\ TitlesAreOwn(Copy') /\ lookups' \in SUBSET Lookups
  BY <1>2 DEF IInv, TypeOK, TitlesEverywhere, TitlesBelong, TitlesAreOwn, Copy
<1>4. CASE queue.position = rollback.index
  <2>1. SaveAndSend
    BY <1>4 DEF RevertPosition
  <2> QED  BY <1>2, <1>3, <2>1, SaveAndSendKeeps
<1>5. CASE queue.position # rollback.index
  <2>1. UNCHANGED <<queue, titles, file, feed, fileOk>>
    BY <1>2, <1>5 DEF RevertPosition
  <2>2. TypeOK'
    BY <2>1 DEF IInv, TypeOK
  <2>3. TitlesEverywhere'
    BY <1>3, <2>1 DEF IInv, TitlesEverywhere, TitlesBelong, TitlesAreOwn
  <2>4. FileIsCurrent' /\ FeedFresh' /\ SnapshotFresh'
    BY <2>1 DEF IInv, FileIsCurrent, FeedFresh, SnapshotFresh, PositionKnown, Copy
  <2> QED  BY <2>2, <2>3, <2>4 DEF IInv
<1> QED  BY <1>4, <1>5

LEMMA RevertStep ==
  ASSUME IInv, PlayFailed \/ LoadFailed
  PROVE  IInv'
<1>1. op \in Operations /\ op.rollback \in Rollbacks /\ tracked \in Rollbacks
      /\ NoRollback \in Rollbacks /\ NoOp \in Operations /\ NoOp.step = "none"
  BY DEF IInv, TypeOK, Operations, Rollbacks, NoRollback, NoOp, NoPosition
<1>2. CASE PlayFailed
  <2>1. RevertPosition(op.rollback) /\ op.step = "playing" /\ op' = NoOp
        /\ tracked' \in Rollbacks /\ UNCHANGED <<titles, copy, lookups, crashes>>
    BY <1>1, <1>2 DEF PlayFailed
  <2> QED  BY <1>1, <2>1, RevertKeeps
<1>3. CASE LoadFailed
  <2>1. RevertPosition(tracked) /\ op.step = "none" /\ op' = op
        /\ tracked' \in Rollbacks /\ UNCHANGED <<titles, copy, lookups, crashes>>
    BY <1>1, <1>3 DEF LoadFailed
  <2> QED  BY <1>1, <2>1, RevertKeeps
<1> QED  BY <1>2, <1>3

\* A title is set where its entry is, and saved with whatever the queue is by then.
LEMMA LookupStep ==
  ASSUME IInv, NEW lookup \in lookups, LookupDone(lookup)
  PROVE  IInv'
<1>1. lookup \in Lookups /\ titles \in Seq(Nat) /\ queue \in Queues /\ TitlesAreOwn(Copy)
      /\ lookups \in SUBSET Lookups
  BY DEF IInv, TypeOK, TitlesEverywhere, TitlesBelong
<1>2. titles' = SetMetadata(lookup) /\ SaveAndSend /\ UNCHANGED <<queue, op, copy, tracked, crashes>>
      /\ lookups' = lookups \ {lookup}
  BY DEF LookupDone
<1>3. Len(titles) = Len(queue.items)
      /\ \A i \in 1..Len(titles) : titles[i] \in {NoTitle, queue.items[i].id}
  BY <1>1 DEF TitlesAreOwn, Copy
<1>4. titles' \in Seq(Nat) /\ Len(titles') = Len(titles)
      /\ \A i \in 1..Len(titles) : titles'[i] \in {titles[i], queue.items[i].id}
  <2>1. CASE InQueue(queue, lookup.index) /\ queue.items[lookup.index].id = lookup.id
    <3>1. titles' = [titles EXCEPT ![lookup.index] = lookup.id] /\ lookup.id \in Nat
          /\ lookup.index \in 1..Len(titles)
      BY <1>1, <1>2, <1>3, <2>1 DEF SetMetadata, InQueue, Lookups
    <3> QED  BY <1>1, <2>1, <3>1
  <2>2. CASE ~(InQueue(queue, lookup.index) /\ queue.items[lookup.index].id = lookup.id)
    BY <1>1, <1>2, <2>2 DEF SetMetadata
  <2> QED  BY <2>1, <2>2
<1>5. TitlesAreOwn(Copy')
  BY <1>2, <1>3, <1>4 DEF TitlesAreOwn, Copy
<1>6. op' \in Operations /\ (op'.step = "copied" => copy.queue = queue')
      /\ tracked' \in Rollbacks /\ lookups' \in SUBSET Lookups /\ queue' \in Queues
  BY <1>1, <1>2 DEF IInv, TypeOK, SnapshotFresh
<1> QED  BY <1>2, <1>4, <1>5, <1>6, SaveAndSendKeeps

-----------------------------------------------------------------------------
\* The other steps of an operation, which change neither queue nor titles.

LEMMA OperationStep ==
  ASSUME IInv,
         \/ PersistQueue \/ PublishCopy \/ PublishSend \/ Played \/ LoadEnded
         \/ \E lookup \in lookups : LookupFailed(lookup)
         \/ UNCHANGED vars
  PROVE  IInv'
<1>1. UNCHANGED <<queue, titles, crashes>>
  BY DEF PersistQueue, PublishCopy, PublishSend, Played, LoadEnded, LookupFailed, vars
<1>2. Copy' = Copy /\ Copy \in Copies /\ Copy.queue = queue /\ (PositionKnown' <=> PositionKnown)
  BY <1>1 DEF IInv, TypeOK, Copy, Copies, PositionKnown
<1>3. CASE PersistQueue
  <2>1. op.step = "changed" /\ op' \in Operations /\ op'.step = "saved"
        /\ UNCHANGED <<feed, copy, lookups, tracked>>
        /\ \/ file' = Copy /\ fileOk' = TRUE
           \/ file' = file /\ fileOk' = FALSE
    BY <1>3 DEF PersistQueue, Save, IInv, TypeOK, Operations
  <2>2. TypeOK'
    BY <1>1, <1>2, <2>1 DEF IInv, TypeOK
  <2>3. TitlesEverywhere'
    BY <1>2, <2>1 DEF IInv, TitlesEverywhere, TitlesBelong, TitlesAreOwn
  <2>4. FileIsCurrent' /\ FeedFresh' /\ SnapshotFresh'
    BY <1>2, <2>1 DEF FileIsCurrent, FeedFresh, SnapshotFresh
  <2> QED  BY <2>2, <2>3, <2>4 DEF IInv
<1>4. CASE PublishCopy
  <2>1. op.step = "saved" /\ op' \in Operations /\ op'.step = "copied" /\ copy' = Copy
        /\ UNCHANGED <<file, feed, lookups, tracked, fileOk>>
    BY <1>4 DEF PublishCopy, IInv, TypeOK, Operations
  <2>2. TypeOK'
    BY <1>1, <1>2, <2>1 DEF IInv, TypeOK
  <2>3. TitlesEverywhere'
    BY <1>2, <2>1 DEF IInv, TitlesEverywhere, TitlesBelong, TitlesAreOwn
  <2>4. FileIsCurrent' /\ FeedFresh' /\ SnapshotFresh'
    BY <1>1, <1>2, <2>1 DEF IInv, FileIsCurrent, FeedFresh, SnapshotFresh
  <2> QED  BY <2>2, <2>3, <2>4 DEF IInv
<1>5. CASE PublishSend
  <2>1. op.step = "copied" /\ feed' = copy /\ copy' = Empty /\ UNCHANGED <<file, tracked, fileOk>>
    BY <1>5 DEF PublishSend
  <2>2. op' \in Operations /\ op'.step \in {"playing", "none"}
    BY <1>5 DEF PublishSend, IInv, TypeOK, Operations, NoOp, Rollbacks, NoRollback, NoPosition
  <2>3. lookups' \in SUBSET Lookups
    BY <1>5 DEF PublishSend, IInv, TypeOK, Operations
  <2>4. Empty \in Copies /\ TitlesAreOwn(Empty)
    BY DEF Empty, Copies, TitlesAreOwn, EmptyQueue, Queues, NoPosition
  <2>5. TypeOK'
    BY <1>1, <2>1, <2>2, <2>3, <2>4 DEF IInv, TypeOK
  <2>6. TitlesEverywhere'
    BY <1>2, <2>1, <2>4 DEF IInv, TitlesEverywhere, TitlesBelong, TitlesAreOwn
  <2>7. FileIsCurrent' /\ FeedFresh' /\ SnapshotFresh'
    BY <1>1, <1>2, <2>1, <2>2 DEF IInv, FileIsCurrent, FeedFresh, SnapshotFresh
  <2> QED  BY <2>5, <2>6, <2>7 DEF IInv
<1>6. CASE \/ Played \/ LoadEnded \/ (\E lookup \in lookups : LookupFailed(lookup))
           \/ UNCHANGED vars
  <2>1. UNCHANGED <<file, feed, copy, fileOk>>
    BY <1>6 DEF Played, LoadEnded, LookupFailed, vars
  <2>2. op' = op \/ (op.step = "playing" /\ op' = NoOp)
    BY <1>6 DEF Played, LoadEnded, LookupFailed, vars
  <2>3. op' \in Operations /\ tracked' \in Rollbacks /\ lookups' \in SUBSET Lookups
    <3>1. /\ op \in Operations /\ op.rollback \in Rollbacks /\ tracked \in Rollbacks
          /\ lookups \in SUBSET Lookups
      BY DEF IInv, TypeOK, Operations
    <3>2. NoOp \in Operations /\ NoRollback \in Rollbacks
      BY DEF NoOp, Operations, Rollbacks, NoRollback, NoPosition
    <3>3. tracked' \in {tracked, op.rollback, NoRollback}
      BY <1>6 DEF Played, LoadEnded, LookupFailed, vars
    <3>4. lookups' \subseteq lookups
      BY <1>6 DEF Played, LoadEnded, LookupFailed, vars
    <3> QED  BY <2>2, <3>1, <3>2, <3>3, <3>4
  <2>4. TypeOK'
    BY <1>1, <2>1, <2>3 DEF IInv, TypeOK
  <2>5. TitlesEverywhere'
    BY <1>2, <2>1 DEF IInv, TitlesEverywhere, TitlesBelong, TitlesAreOwn
  <2>6. FileIsCurrent' /\ FeedFresh' /\ SnapshotFresh'
    BY <1>1, <1>2, <2>1, <2>2 DEF IInv, FileIsCurrent, FeedFresh, SnapshotFresh, NoOp
  <2> QED  BY <2>4, <2>5, <2>6 DEF IInv
<1> QED  BY <1>3, <1>4, <1>5, <1>6

\* A restart: the file is what there is, or could not be read.
LEMMA RestartStep ==
  ASSUME IInv, Restart
  PROVE  IInv'
<1>1. Empty \in Copies /\ TitlesAreOwn(Empty) /\ NoRollback \in Rollbacks /\ NoOp \in Operations
  BY DEF Empty, Copies, TitlesAreOwn, EmptyQueue, Queues, NoPosition, NoRollback, Rollbacks,
     NoOp, Operations
<1>2. PICK c \in {file, Empty} :
        Load(c) /\ queue' = c.queue /\ titles' = c.titles /\ feed' = c
  BY DEF Restart
<1>3. /\ file' = file /\ op' = NoOp /\ copy' = Empty /\ lookups' = {} /\ tracked' = NoRollback
      /\ crashes' = crashes + 1
  BY DEF Restart
<1>4. fileOk' \in BOOLEAN /\ (fileOk' => c = file)
  BY <1>2 DEF Load
<1>5. file \in Copies /\ TitlesAreOwn(file) /\ c \in Copies /\ TitlesAreOwn(c)
  BY <1>1, <1>2 DEF IInv, TypeOK, TitlesEverywhere, TitlesBelong
<1>6. Copy' = c
  BY <1>2, <1>5 DEF Copy, Copies
<1>7. TypeOK'
  BY <1>1, <1>2, <1>3, <1>4, <1>5 DEF IInv, TypeOK, Copies
<1>8. TitlesEverywhere'
  BY <1>1, <1>2, <1>3, <1>5, <1>6 DEF TitlesEverywhere, TitlesBelong, TitlesAreOwn
<1>9. FileIsCurrent' /\ FeedFresh' /\ SnapshotFresh'
  BY <1>2, <1>3, <1>4, <1>6 DEF FileIsCurrent, FeedFresh, SnapshotFresh, NoOp
<1> QED  BY <1>7, <1>8, <1>9 DEF IInv

LEMMA Invariance == Spec => []IInv
<1>1. IInv /\ [Next]_vars => IInv'
  BY ChangeStep, JumpBackwardStep, AutoAdvancedStep, RevertStep, LookupStep, OperationStep,
     RestartStep DEF Next
<1> QED  BY InitIInv, <1>1, PTL DEF Spec

-----------------------------------------------------------------------------
\* Every reachable state is well typed, for any number of items and restarts.
THEOREM TypeCorrect == Spec => []TypeOK
  BY Invariance, PTL DEF IInv

\* No lookup, however late, titles an entry it was not started for (set_metadata), in
\* memory, on file or on the wire.
THEOREM TitlesRight == Spec => []TitlesBelong
<1>1. IInv => TitlesBelong
  BY DEF IInv, TitlesEverywhere
<1> QED  BY Invariance, <1>1, PTL

\* The file has the queue, except between a change and its save, after a save that
\* failed (persist_queue, revert_queue_position, run_metadata_lookup), and after a start
\* that could not read the file, which is left as it was (Queue::load).
THEOREM FileCurrent == Spec => []FileIsCurrent
  BY Invariance, PTL DEF IInv

\* What was sent last has the queue's items and position whenever no operation is under
\* way (publish_queue_state and the senders beside it).
THEOREM FeedCurrent == Spec => []FeedHasItems
<1>1. IInv => FeedHasItems
  BY DEF IInv, FeedFresh, FeedHasItems
<1> QED  BY Invariance, <1>1, PTL
=============================================================================
