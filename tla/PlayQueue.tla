------------------------------ MODULE PlayQueue ------------------------------
(***************************************************************************)
(* The play queue of daemon/src/queue.rs as operators on a record          *)
(*   [items, position, nextId].                                            *)
(* Positions are one up on the source's vector indices, so that 0 stands   *)
(* for its `None`; item ids are one up as well, so that 0 names no item.   *)
(* Titles and the state file are added by QueueStore.                      *)
(***************************************************************************)
EXTENDS Naturals, Sequences

CONSTANT Targets  \* what a sender may say a URL is: "probe" (it did not say), "media", "page"

NoPosition == 0

Items  == [id : Nat, target : Targets]
Queues == [items : Seq(Items), position : Nat, nextId : Nat]

EmptyQueue == [items |-> <<>>, position |-> NoPosition, nextId |-> 1]

InQueue(q, i) == i \in 1..Len(q.items)

\* Queue::push: the item goes last and takes the next id.
Push(q, target) ==
  [items    |-> Append(q.items, [id |-> q.nextId, target |-> target]),
   position |-> q.position,
   nextId   |-> q.nextId + 1]

\* Queue::set_position.
SetPosition(q, i) == [q EXCEPT !.position = i]

\* Queue::jump_forward finds an item only behind a current one that is not last.
HasNext(q) == q.position # NoPosition /\ InQueue(q, q.position + 1)

\* Mutant: the subtraction is unchecked.
UncheckedPrevious(q) == TRUE

\* Queue::jump_backward moves whenever there is an index below the current one,
\* before it looks whether an item is there.
HasPrevious(q) == q.position > 1

\* Mutant: the position survives the items.
ClearItemsOnly(q) == [q EXCEPT !.items = <<>>]

\* Queue::clear keeps the id counter.
Clear(q) == [items |-> <<>>, position |-> NoPosition, nextId |-> q.nextId]

\* Mutant: a failed load is never undone.
NeverRevert(q, rollback) == q

\* revert_queue_position: undo the move to `index` unless the queue has moved on.
Revert(q, rollback) ==
  IF q.position = rollback.index THEN SetPosition(q, rollback.previous) ELSE q
=============================================================================
