---------------------------- MODULE CastingProofs ----------------------------
(***************************************************************************)
(* Proofs about Casting, for every choice of activities, faults and bounds.*)
(* The invariants that carry them are at the head of each section.         *)
(***************************************************************************)
EXTENDS Casting, TLAPS

-----------------------------------------------------------------------------
\* The queue and the routing table

\* Queue::push keeps a queue a queue, and its last item is the new one.
LEMMA PushType ==
  ASSUME NEW q \in Queues, NEW target \in Targets
  PROVE  /\ Push(q, target) \in Queues
         /\ Len(Push(q, target).items) \in 1..Len(Push(q, target).items)
<1> DEFINE item == [id |-> q.nextId, target |-> target]
<1>1. q.items \in Seq(Items) /\ q.position \in Nat /\ q.nextId \in Nat
  BY DEF Queues
<1>2. item \in Items
  BY <1>1 DEF Items
<1>3. /\ Append(q.items, item) \in Seq(Items)
      /\ Len(Append(q.items, item)) = Len(q.items) + 1
      /\ Len(q.items) \in Nat
  BY <1>1, <1>2
<1> QED
  BY <1>1, <1>3 DEF Push, Queues

\* Moving the position keeps a queue a queue.
LEMMA SetPositionType ==
  ASSUME NEW q \in Queues, NEW i \in Nat
  PROVE  SetPosition(q, i) \in Queues /\ SetPosition(q, i).items = q.items
BY DEF SetPosition, Queues

\* So does undoing a failed load's move.
LEMMA RevertType ==
  ASSUME NEW q \in Queues, NEW rollback \in Rollbacks
  PROVE  Revert(q, rollback) \in Queues
BY SetPositionType DEF Revert, Rollbacks

\* Every operation of Routing keeps its type.
LEMMA RoutingType ==
  ASSUME NEW r \in Routings, NEW entry \in Nat, NEW item \in Nat,
         NEW probing \in BOOLEAN, NEW rollback \in Rollbacks
  PROVE  /\ Submit(r, entry, item, probing, rollback) \in Routings
         /\ StartFile(r, entry) \in Routings
         /\ FileLoaded(r) \in Routings
         /\ Resolve(r, entry) \in Routings
         /\ Cancel(r) \in Routings
<1>1. Submit(r, entry, item, probing, rollback) \in Routings
  <2> DEFINE l == [entry |-> entry, item |-> item, probing |-> probing,
                   loaded |-> FALSE, rollback |-> rollback]
  <2>1. l \in Loads
    BY DEF Loads
  <2>2. {l} \in SUBSET Loads
    BY <2>1
  <2> HIDE DEF l
  <2>3. [r EXCEPT !.current = {l}] \in Routings
    BY <2>2 DEF Routings
  <2> QED
    BY <2>3 DEF l, Submit
<1>2. StartFile(r, entry) \in Routings
  BY DEF StartFile, Routings
<1>3. FileLoaded(r) \in Routings
  <2>1. \A l \in Loads : [l EXCEPT !.loaded = @ \/ l.entry = r.lastStarted] \in Loads
    BY DEF Loads
  <2>2. {[l EXCEPT !.loaded = @ \/ l.entry = r.lastStarted] : l \in r.current}
          \in SUBSET Loads
    BY <2>1 DEF Routings
  <2> QED
    BY <2>2 DEF FileLoaded, Routings
<1>4. Resolve(r, entry) \in Routings
  BY DEF Resolve, Tracked, Routings
<1>5. Cancel(r) \in Routings
  <2>1. \A l \in Loads : [l EXCEPT !.probing = FALSE] \in Loads
    BY DEF Loads
  <2>2. {[l EXCEPT !.probing = FALSE] : l \in r.current} \in SUBSET Loads
    BY <2>1 DEF Routings
  <2> QED
    BY <2>2 DEF Cancel, Routings
<1> QED
  BY <1>1, <1>2, <1>3, <1>4, <1>5

-----------------------------------------------------------------------------
\* Type correctness

\* What mpv may be on.
Mpvs == [entry : Nat, item : Nat, phase : Phases, more : Nat]

LEMMA MpvType ==
  ASSUME TypeOK
  PROVE  /\ mpv \in Mpvs
         /\ mpv.entry \in Nat /\ mpv.item \in Nat /\ mpv.phase \in Phases /\ mpv.more \in Nat
         /\ MpvIdle \in Mpvs
<1>1. mpv \in Mpvs
  BY DEF TypeOK, Mpvs
<1>2. "idle" \in Phases /\ Nothing \in Nat
  BY DEF Phases, Nothing
<1> QED
  BY <1>1, <1>2 DEF Mpvs, MpvIdle

\* Every event mpv sends, and the drop of its entry, is an event.
LEMMA EventType ==
  ASSUME TypeOK, NEW q \in Seq(Events)
  PROVE  /\ DroppedBy(q) \in Seq(Events)
         /\ \A kind \in {"start", "loaded", "ok", "error"} :
              Append(q, [kind |-> kind, entry |-> mpv.entry]) \in Seq(Events)
<1>1. mpv.entry \in Nat
  BY DEF TypeOK
<1>2. ASSUME NEW kind \in {"start", "loaded", "ok", "error"}
      PROVE  Append(q, [kind |-> kind, entry |-> mpv.entry]) \in Seq(Events)
  <2> DEFINE e == [kind |-> kind, entry |-> mpv.entry]
  <2>1. e \in Events
    BY <1>1 DEF Events
  <2> HIDE DEF e
  <2>2. Append(q, e) \in Seq(Events)
    BY <2>1
  <2> QED
    BY <2>2 DEF e
<1> QED
  BY <1>2 DEF DroppedBy

\* Stopping mpv and loading an item.
LEMMA MpvCallType ==
  ASSUME TypeOK
  PROVE  /\ \A q \in Seq(Events) :
              MpvStop(q) => /\ mpv' \in Mpvs
                            /\ asyncQ' \in Seq(Events)
         /\ \A item \in Nat :
              MpvLoad(item) => /\ mpv' \in Mpvs
                               /\ asyncQ' \in Seq(Events)
                               /\ entries' \in Nat
<1>1. asyncQ \in Seq(Events) /\ entries \in Nat
  BY DEF TypeOK
<1>2. \A item \in Nat : [entry |-> entries + 1, item |-> item, phase |-> "queued",
                          more |-> 0] \in Mpvs
  BY <1>1 DEF Phases, Loading, Mpvs
<1> QED
  BY <1>1, <1>2, MpvType, EventType DEF MpvStop, MpvLoad

\* The records the screen's own parts are put in.
LEMMA ScreenType ==
  ASSUME TypeOK
  PROVE  /\ {ClockShown, ClockHidden} \subseteq [clock : BOOLEAN, wallpaper : BOOLEAN]
         /\ {OverlayLoading, OverlayCleared}
              \subseteq [active : BOOLEAN, restarted : BOOLEAN, revealing : BOOLEAN]
BY DEF TypeOK, ClockShown, ClockHidden, OverlayLoading, OverlayCleared

\* The part of the state that execute_play writes.
CastTypeOK ==
  /\ queue \in Queues
  /\ routing \in Routings
  /\ idle \in [clock : BOOLEAN, wallpaper : BOOLEAN]
  /\ overlay \in [active : BOOLEAN, restarted : BOOLEAN, revealing : BOOLEAN]
  /\ page \in Nat
  /\ mpv \in Mpvs
  /\ entries \in Nat
  /\ asyncQ \in Seq(Events)
  /\ opened \in SUBSET Nat
  /\ wanted \in Nat
  /\ overtaken \in BOOLEAN

\* execute_play keeps the types, whichever way it ends.
LEMMA PlayAtType ==
  ASSUME TypeOK, NEW q \in Queues, NEW i \in 1..Len(q.items), NEW f, PlayAt(q, i, f)
  PROVE  CastTypeOK'
<1> DEFINE rollback == [index |-> i, previous |-> queue.position]
           moved    == SetPosition(q, i)
           item     == q.items[i]
<1>1. i \in Nat /\ rollback \in Rollbacks
  BY DEF TypeOK, Queues, Rollbacks
<1>2. moved \in Queues /\ moved.items = q.items /\ moved.position = i
  BY <1>1, SetPositionType DEF SetPosition, Queues
<1>3. item \in Items /\ item.id \in Nat
  <2>1. q.items \in Seq(Items)
    BY DEF Queues
  <2>2. item \in Items
    BY <2>1
  <2> QED
    BY <2>2 DEF Items
<1>4. Revert(moved, rollback) \in Queues
  BY <1>1, <1>2, RevertType
<1> HIDE DEF rollback, moved
<1>5. CASE item.target = "page"
  <2>1. PlayWebpage(moved, rollback, f)
    BY <1>5 DEF PlayAt, moved, rollback
  <2>2. queue' \in Queues /\ wanted' \in Nat /\ page' \in Nat
    BY <2>1, <1>2, <1>3, <1>4 DEF PlayWebpage, ShowPage, TypeOK, Nothing
  <2>3. /\ mpv' \in Mpvs
        /\ asyncQ' \in Seq(Events)
    BY <2>1, MpvCallType, MpvType DEF PlayWebpage, TypeOK
  <2>4. /\ idle' \in [clock : BOOLEAN, wallpaper : BOOLEAN]
        /\ overlay' \in [active : BOOLEAN, restarted : BOOLEAN, revealing : BOOLEAN]
    BY <2>1, ScreenType DEF PlayWebpage, BackToClock, TypeOK
  <2>5. routing' \in Routings
    <3>1. [index |-> 0, previous |-> 0] \in Rollbacks
      BY DEF Rollbacks
    <3> QED
      BY <2>1, <3>1, RoutingType DEF PlayWebpage, TypeOK
  <2>6. UNCHANGED <<entries, opened, overtaken>>
    BY <2>1 DEF PlayWebpage
  <2> QED
    BY <2>2, <2>3, <2>4, <2>5, <2>6 DEF CastTypeOK, TypeOK
<1>6. CASE item.target # "page"
  <2>1. PlayMedia(moved, rollback, f)
    BY <1>6 DEF PlayAt, moved, rollback
  <2>2. queue' \in Queues /\ page' \in Nat
    BY <2>1, <1>2, <1>4 DEF PlayMedia, PageHidden, Nothing
  <2>3. wanted' \in Nat /\ opened' \in SUBSET Nat /\ overtaken' \in BOOLEAN
    BY <2>1, <1>2, <1>3 DEF PlayMedia, PageHidden, history, TypeOK
  <2>4. /\ mpv' \in Mpvs
        /\ asyncQ' \in Seq(Events)
        /\ entries' \in Nat
    BY <2>1, <1>2, <1>3, MpvCallType, MpvType DEF PlayMedia, PageHidden, TypeOK
  <2>5. /\ idle' \in [clock : BOOLEAN, wallpaper : BOOLEAN]
        /\ overlay' \in [active : BOOLEAN, restarted : BOOLEAN, revealing : BOOLEAN]
    BY <2>1, ScreenType DEF PlayMedia, PageHidden, BackToClock, TypeOK
  <2>6. routing' \in Routings
    <3>1. (IF f = "entryId" THEN 0 ELSE entries + 1) \in Nat
      BY DEF TypeOK
    <3>2. (item.target = "probe") \in BOOLEAN
      OBVIOUS
    <3>3. Submit(routing, IF f = "entryId" THEN 0 ELSE entries + 1, item.id,
                 item.target = "probe", rollback) \in Routings
      BY <1>1, <1>3, <3>1, <3>2, RoutingType DEF TypeOK
    <3> QED
      BY <2>1, <1>2, <3>3 DEF PlayMedia, PageHidden, TypeOK
  <2> QED
    BY <2>2, <2>3, <2>4, <2>5, <2>6 DEF CastTypeOK
<1> QED
  BY <1>5, <1>6

\* A command leaves the watchers' own state alone, or moves it within its type.
LEMMA CastStepType ==
  ASSUME TypeOK, CastTypeOK', lifeQ' = lifeQ, life' = life,
         eof' \in {"wait", "noticed", "showing"}
  PROVE  TypeOK'
BY DEF TypeOK, CastTypeOK, Mpvs

\* Every command, timer and rotation keeps the types.
LEMMA CommandType ==
  ASSUME TypeOK, Command \/ RotateWallpaper
  PROVE  TypeOK'
<1>1. queue \in Queues /\ queue.position \in Nat /\ queue.items \in Seq(Items)
  BY DEF TypeOK, Queues
<1>2. CastTypeOK
  BY DEF TypeOK, CastTypeOK, Mpvs
<1>3. eof \in {"wait", "noticed", "showing"}
  BY DEF TypeOK
<1>4. ASSUME NEW target \in Targets, NEW f, Play(target, f)
      PROVE  TypeOK'
  <2> DEFINE q == Push(queue, target)
  <2>1. q \in Queues /\ Len(q.items) \in 1..Len(q.items)
    BY <1>1, PushType
  <2>2. lifeQ' = lifeQ /\ life' = life /\ eof' = eof
    BY <1>4 DEF Play, watcherVars
  <2> HIDE DEF q
  <2>3. CASE PlayAt(q, Len(q.items), f)
    BY <1>3, <2>1, <2>2, <2>3, PlayAtType, CastStepType
  <2>4. CASE /\ queue' = q
             /\ UNCHANGED <<routing, idle, overlay, page, mpv, entries, asyncQ, history>>
    BY <1>2, <1>3, <2>1, <2>2, <2>4, CastStepType DEF CastTypeOK, history
  <2> QED
    BY <1>4, <2>3, <2>4 DEF Play, q
<1>5. ASSUME NEW i \in 1..Len(queue.items), NEW f, PlayAt(queue, i, f),
             UNCHANGED <<watcherVars, eof>>
      PROVE  TypeOK'
  BY <1>1, <1>3, <1>5, PlayAtType, CastStepType DEF watcherVars
<1>6. ASSUME NEW f, QueueJumpForward(f)
      PROVE  TypeOK'
  BY <1>5, <1>6 DEF QueueJumpForward, HasNext, InQueue
<1>7. ASSUME NEW f, QueueJumpBackward(f)
      PROVE  TypeOK'
  <2>1. CASE InQueue(queue, queue.position - 1)
    BY <1>5, <1>7, <2>1 DEF QueueJumpBackward, InQueue
  <2>2. CASE ~InQueue(queue, queue.position - 1)
    <3>1. queue.position - 1 \in Nat
      BY <1>1, <1>7 DEF QueueJumpBackward, HasPrevious
    <3>2. queue' \in Queues
      BY <1>1, <1>7, <2>2, <3>1, SetPositionType DEF QueueJumpBackward
    <3>3. UNCHANGED <<routing, idle, overlay, page, mpv, entries, asyncQ, history,
                      watcherVars, eof>>
      BY <1>7, <2>2 DEF QueueJumpBackward
    <3> QED
      BY <1>2, <1>3, <3>2, <3>3, CastStepType DEF CastTypeOK, history, watcherVars
  <2> QED
    BY <2>1, <2>2
<1>8. ASSUME NEW i, NEW f, QueueJumpToIndex(i, f)
      PROVE  TypeOK'
  BY <1>5, <1>8 DEF QueueJumpToIndex, InQueue
<1>9. ASSUME NEW f, StopLocked(f), queue' \in Queues
      PROVE  TypeOK'
  <2>1. routing' \in Routings
    <3>1. [index |-> 0, previous |-> 0] \in Rollbacks
      BY DEF Rollbacks
    <3> QED
      BY <1>9, <3>1, RoutingType DEF StopLocked, PageHidden, TypeOK
  <2>2. /\ mpv' \in Mpvs
        /\ asyncQ' \in Seq(Events)
    BY <1>9, MpvCallType, MpvType DEF StopLocked, PageHidden, TypeOK
  <2>3. /\ idle' \in [clock : BOOLEAN, wallpaper : BOOLEAN]
        /\ overlay' \in [active : BOOLEAN, restarted : BOOLEAN, revealing : BOOLEAN]
    BY <1>9, ScreenType DEF StopLocked, PageHidden, BackToClock
  <2>4. /\ page' \in Nat /\ wanted' \in Nat
        /\ UNCHANGED <<entries, opened, overtaken, watcherVars, eof>>
    BY <1>9 DEF StopLocked, PageHidden, Nothing
  <2> QED
    BY <1>2, <1>3, <1>9, <2>1, <2>2, <2>3, <2>4, CastStepType DEF CastTypeOK, watcherVars
<1>10. ASSUME NEW f, Stop(f)
       PROVE  TypeOK'
  BY <1>1, <1>9, <1>10 DEF Stop
<1>11. ASSUME NEW f, QueueClear(f)
       PROVE  TypeOK'
  <2>1. Clear(queue) \in Queues
    BY <1>1 DEF Clear, Queues, NoPosition
  <2> QED
    BY <1>1, <1>9, <1>11, <2>1 DEF QueueClear
<1>12. ASSUME RotateWallpaper
       PROVE  TypeOK'
  <2>1. /\ mpv' \in Mpvs
        /\ asyncQ' \in Seq(Events)
        /\ entries' \in Nat
    BY <1>12, MpvCallType DEF RotateWallpaper, Nothing
  <2>2. idle' \in [clock : BOOLEAN, wallpaper : BOOLEAN]
    BY <1>2, <1>12 DEF RotateWallpaper, CastTypeOK
  <2>3. UNCHANGED <<queue, routing, overlay, page, history, watcherVars, eof>>
    BY <1>12 DEF RotateWallpaper
  <2> QED
    BY <1>2, <1>3, <2>1, <2>2, <2>3, CastStepType DEF CastTypeOK, history, watcherVars
<1> QED
  BY <1>4, <1>6, <1>7, <1>8, <1>10, <1>11, <1>12 DEF Command

\* So does every step of the async event watcher.
LEMMA AsyncType ==
  ASSUME TypeOK, AsyncWatcher
  PROVE  TypeOK'
<1>1. asyncQ \in Seq(Events) /\ routing \in Routings /\ queue \in Queues
  BY DEF TypeOK
<1>2. asyncQ # <<>> => /\ Tail(asyncQ) \in Seq(Events)
                       /\ Head(asyncQ).entry \in Nat
  <2>1. asyncQ # <<>> => Tail(asyncQ) \in Seq(Events) /\ Head(asyncQ) \in Events
    BY <1>1
  <2> QED
    BY <2>1 DEF Events
<1>3. /\ StartFile(routing, Head(asyncQ).entry) \in Routings \/ asyncQ = <<>>
      /\ FileLoaded(routing) \in Routings
      /\ Resolve(routing, Head(asyncQ).entry) \in Routings \/ asyncQ = <<>>
  <2>1. [index |-> 0, previous |-> 0] \in Rollbacks
    BY DEF Rollbacks
  <2> QED
    BY <1>1, <1>2, <2>1, RoutingType
<1>4. ASSUME NEW l \in Tracked(routing, Head(asyncQ).entry)
      PROVE  l.item \in Nat /\ Revert(queue, l.rollback) \in Queues
  <2>1. l \in Loads
    BY <1>1 DEF Tracked, Routings
  <2>2. l.item \in Nat /\ l.rollback \in Rollbacks
    BY <2>1 DEF Loads
  <2> QED
    BY <1>1, <2>2, RevertType
<1>5. CASE AsyncStart
  BY <1>2, <1>3, <1>5 DEF AsyncStart, OnAsync, TypeOK, history, watcherVars
<1>6. CASE AsyncLoaded
  BY <1>2, <1>3, <1>6 DEF AsyncLoaded, OnAsync, TypeOK, history, watcherVars
<1>7. CASE AsyncEnd
  BY <1>2, <1>3, <1>7 DEF AsyncEnd, OnAsync, TypeOK, history, watcherVars
<1>8. CASE AsyncForeignError
  BY <1>2, <1>8 DEF AsyncForeignError, OnAsync, TypeOK, history, watcherVars
<1>9. CASE AsyncPlaybackError
  <2>1. asyncQ # <<>>
    BY <1>9 DEF AsyncPlaybackError, OnAsync
  <2>2. queue' \in Queues
    BY <1>4, <1>9 DEF AsyncPlaybackError
  <2> QED
    BY <1>2, <1>3, <1>9, <2>1, <2>2 DEF AsyncPlaybackError, TypeOK, history, watcherVars
<1>10. ASSUME NEW f, AsyncFallBack(f)
       PROVE  TypeOK'
  <2>1. asyncQ # <<>>
    BY <1>10 DEF AsyncFallBack, OnAsync
  <2>2. queue' \in Queues /\ page' \in Nat
    BY <1>1, <1>4, <1>10 DEF AsyncFallBack, ShowPage, TypeOK, Nothing
  <2>3. /\ mpv' \in Mpvs
        /\ asyncQ' \in Seq(Events)
    BY <1>2, <1>10, <2>1, MpvCallType, MpvType DEF AsyncFallBack, TypeOK
  <2>4. routing' \in Routings /\ idle' \in [clock : BOOLEAN, wallpaper : BOOLEAN]
    BY <1>3, <1>10, <2>1, ScreenType DEF AsyncFallBack
  <2>5. UNCHANGED <<overlay, entries, history, watcherVars, eof>>
    BY <1>10 DEF AsyncFallBack
  <2> QED
    BY <2>2, <2>3, <2>4, <2>5 DEF TypeOK, Mpvs, history, watcherVars
<1> QED
  BY <1>5, <1>6, <1>7, <1>8, <1>9, <1>10 DEF AsyncWatcher

\* ... of the lifecycle watcher ...
LEMMA LifeType ==
  ASSUME TypeOK, LifeWatcher
  PROVE  TypeOK'
<1> DEFINE Overlays == [active : BOOLEAN, restarted : BOOLEAN, revealing : BOOLEAN]
<1>1. lifeQ # <<>> => Tail(lifeQ) \in Seq({"restart", "error", "eof"})
  BY DEF TypeOK
<1>2. /\ overlay \in Overlays /\ OverlayCleared \in Overlays
      /\ [overlay EXCEPT !.restarted = TRUE] \in Overlays
      /\ [overlay EXCEPT !.revealing = FALSE] \in Overlays
      /\ [overlay EXCEPT !.revealing = overlay.active] \in Overlays
  BY ScreenType DEF TypeOK
<1>3. ASSUME shownByOthers' = shownByOthers, overlay' \in Overlays,
             idle' \in [clock : BOOLEAN, wallpaper : BOOLEAN],
             lifeQ' \in Seq({"restart", "error", "eof"}),
             life' \in {"wait", "marked", "revealing", "restoring", "showing"}
      PROVE  TypeOK'
  BY <1>3 DEF shownByOthers, history, TypeOK
<1>4. CASE LifeRestarted
  BY <1>1, <1>2, <1>3, <1>4 DEF LifeRestarted, OnLife, TypeOK
<1>5. CASE LifeReveal
  BY <1>2, <1>3, <1>5 DEF LifeReveal, TypeOK
<1>6. CASE LifeRevealed
  BY <1>2, <1>3, <1>6 DEF LifeRevealed, TypeOK
<1>7. CASE LifeEnded
  BY <1>1, <1>2, <1>3, <1>7 DEF LifeEnded, OnLife, TypeOK
<1>8. CASE LifeClear
  BY <1>2, <1>3, <1>8 DEF LifeClear, TypeOK
<1>9. CASE LifeShowClock
  BY <1>2, <1>3, <1>9, ScreenType DEF LifeShowClock, TypeOK
<1> QED
  BY <1>4, <1>5, <1>6, <1>7, <1>8, <1>9 DEF LifeWatcher

\* ... and of the end-of-file watcher.
LEMMA EofType ==
  ASSUME TypeOK, EofWatcher
  PROVE  TypeOK'
<1>1. CASE EofNotice
  <2>1. mpv' \in Mpvs
    BY <1>1, MpvType DEF EofNotice, Mpvs, Phases, Rendering
  <2> QED
    BY <1>1, <2>1 DEF EofNotice, TypeOK, Mpvs, history, watcherVars
<1>2. ASSUME NEW f, EofAdvance(f)
      PROVE  TypeOK'
  <2>1. /\ queue \in Queues
        /\ queue.position + 1 \in 1..Len(queue.items)
        /\ PlayAt(queue, queue.position + 1, f)
    BY <1>2 DEF EofAdvance, HasNext, InQueue, TypeOK
  <2>2. lifeQ' = lifeQ /\ life' = life /\ eof' \in {"wait", "noticed", "showing"}
    BY <1>2 DEF EofAdvance, watcherVars
  <2> QED
    BY <2>1, <2>2, PlayAtType, CastStepType
<1>3. CASE EofNoNext
  BY <1>3 DEF EofNoNext, TypeOK, history, watcherVars
<1>4. CASE EofShowClock
  BY <1>4, ScreenType DEF EofShowClock, TypeOK, history, watcherVars
<1> QED
  BY <1>1, <1>2, <1>3, <1>4 DEF EofWatcher

\* What mpv and the engine do keeps the types.
LEMMA EnvironmentType ==
  ASSUME TypeOK, Environment
  PROVE  TypeOK'
<1>1. \A phase \in Phases : [mpv EXCEPT !.phase = phase] \in Mpvs
  BY MpvType DEF Mpvs
<1>2. {"starting", "opened", "queued", "playing", "eof"} \subseteq Phases
  BY DEF Phases, Loading, Rendering
<1>3. /\ \A kind \in {"start", "loaded", "ok", "error"} :
           Tell(kind) => asyncQ' \in Seq(Events)
      /\ \A kind \in {"restart", "error", "eof"} :
           Append(lifeQ, kind) \in Seq({"restart", "error", "eof"})
  <2>1. asyncQ \in Seq(Events) /\ lifeQ \in Seq({"restart", "error", "eof"})
    BY DEF TypeOK
  <2>2. \A kind \in {"start", "loaded", "ok", "error"} :
           Tell(kind) => asyncQ' \in Seq(Events)
    BY <2>1, EventType DEF Tell
  <2>3. \A kind \in {"restart", "error", "eof"} :
           Append(lifeQ, kind) \in Seq({"restart", "error", "eof"})
    BY <2>1
  <2> QED
    BY <2>2, <2>3
<1>4. ASSUME mpv' \in Mpvs, entries' \in Nat, asyncQ' \in Seq(Events),
             lifeQ' \in Seq({"restart", "error", "eof"}), opened' \in SUBSET Nat,
             overtaken' \in BOOLEAN, UNCHANGED daemonVars
      PROVE  TypeOK'
  BY <1>4 DEF TypeOK, Mpvs, daemonVars
<1>5. /\ entries \in Nat /\ asyncQ \in Seq(Events) /\ opened \in SUBSET Nat
      /\ lifeQ \in Seq({"restart", "error", "eof"}) /\ overtaken \in BOOLEAN
  BY DEF TypeOK
<1>6. CASE MpvStart
  BY <1>1, <1>2, <1>3, <1>4, <1>5, <1>6 DEF MpvStart
<1>7. CASE MpvOpen
  <2>1. opened' \in SUBSET Nat
    BY <1>5, <1>7, MpvType DEF MpvOpen
  <2> QED
    BY <1>1, <1>2, <1>3, <1>4, <1>5, <1>7, <2>1 DEF MpvOpen
<1>8. CASE MpvRestart
  BY <1>1, <1>2, <1>3, <1>4, <1>5, <1>8 DEF MpvRestart
<1>9. ASSUME MpvGoesOn
      PROVE  mpv' \in Mpvs /\ entries' \in Nat
  <2>1. CASE mpv.more = 0
    BY <1>5, <1>9, <2>1, MpvType DEF MpvGoesOn
  <2>2. CASE mpv.more # 0
    <3>1. /\ entries' = entries + 1
          /\ mpv' = [mpv EXCEPT !.entry = entries + 1, !.phase = "queued", !.more = @ - 1]
      BY <1>9, <2>2 DEF MpvGoesOn
    <3>2. entries + 1 \in Nat /\ mpv.more - 1 \in Nat
      BY <1>5, <2>2, MpvType
    <3> QED
      BY <1>2, <3>1, <3>2, MpvType DEF Mpvs
  <2> QED
    BY <2>1, <2>2
<1>10. Overtake => overtaken' \in BOOLEAN
  BY DEF Overtake
<1>11. ASSUME NEW fault, NEW phase, MpvFail(fault, phase)
       PROVE  TypeOK'
  BY <1>3, <1>4, <1>5, <1>9, <1>10, <1>11 DEF MpvFail
<1>12. CASE MpvEndEarly
  BY <1>3, <1>4, <1>5, <1>9, <1>10, <1>12 DEF MpvEndEarly
<1>13. CASE MpvRedirect
  <2>1. PICK more \in 0..MaxMore :
          mpv' = [mpv EXCEPT !.entry = entries + 1, !.phase = "queued", !.more = @ + more]
    BY <1>13 DEF MpvRedirect
  <2>2. mpv' \in Mpvs
    <3>1. entries + 1 \in Nat /\ mpv.more + more \in Nat
      BY <1>5, MpvType
    <3> QED
      BY <1>2, <2>1, <3>1, MpvType DEF Mpvs
  <2>3. entries' \in Nat /\ UNCHANGED <<lifeQ, opened, overtaken, daemonVars>> /\ Tell("ok")
    BY <1>5, <1>13 DEF MpvRedirect
  <2> QED
    BY <1>3, <1>4, <1>5, <2>2, <2>3
<1>14. CASE MpvEof
  BY <1>1, <1>2, <1>4, <1>5, <1>14 DEF MpvEof
<1>15. CASE MpvNextFile
  BY <1>3, <1>4, <1>5, <1>9, <1>15 DEF MpvNextFile
<1>16. CASE EngineExits
  BY <1>16 DEF EngineExits, TypeOK, Nothing, history, watcherVars
<1> QED
  BY <1>6, <1>7, <1>8, <1>11, <1>12, <1>13, <1>14, <1>15, <1>16
     DEF Environment, MpvResolvesLoad

\* Types hold throughout, for every set of commands and faults and every bound.
THEOREM TypeCorrect == Spec => []TypeOK
<1>1. ASSUME Init PROVE TypeOK
  <2>1. MpvIdle \in [entry : Nat, item : Nat, phase : Phases, more : Nat]
    BY DEF MpvIdle, Phases, Nothing
  <2>2. EmptyQueue \in Queues /\ NoRouting \in Routings
    BY DEF EmptyQueue, Queues, NoPosition, NoRouting, Routings
  <2>3. /\ idle \in [clock : BOOLEAN, wallpaper : BOOLEAN]
        /\ overlay \in [active : BOOLEAN, restarted : BOOLEAN, revealing : BOOLEAN]
    BY <1>1 DEF Init
  <2>4. /\ mpv \in [entry : Nat, item : Nat, phase : Phases, more : Nat]
        /\ queue \in Queues /\ routing \in Routings
    BY <1>1, <2>1, <2>2 DEF Init
  <2>5. /\ asyncQ \in Seq(Events) /\ lifeQ \in Seq({"restart", "error", "eof"})
        /\ page \in Nat /\ entries \in Nat /\ opened \in SUBSET Nat /\ wanted \in Nat
    BY <1>1 DEF Init, Nothing
  <2>6. life = "wait" /\ eof = "wait" /\ overtaken = FALSE
    BY <1>1 DEF Init
  <2> QED
    BY <2>3, <2>4, <2>5, <2>6 DEF TypeOK
<1>2. TypeOK /\ [Next]_vars => TypeOK'
  <2> SUFFICES ASSUME TypeOK, [Next]_vars PROVE TypeOK'
    OBVIOUS
  <2>1. CASE UNCHANGED vars
    BY <2>1 DEF vars, TypeOK
  <2> QED
    BY <2>1, CommandType, AsyncType, LifeType, EofType, EnvironmentType DEF Next
<1> QED
  BY <1>1, <1>2, PTL DEF Spec

-----------------------------------------------------------------------------
\* One engine at a time

\* Whoever casts, either the page goes or mpv does.
LEMMA PlayAtExcludes ==
  ASSUME PageExcludesMedia, "mpvStop" \notin Faults,
         NEW q, NEW i, NEW f, Outcome(f), PlayAt(q, i, f)
  PROVE  PageExcludesMedia'
<1>1. CASE page' = Nothing
  BY <1>1 DEF PageExcludesMedia
<1>2. CASE mpv' = MpvIdle
  BY <1>2 DEF PageExcludesMedia, OnCast, MpvIdle
<1>3. CASE page' = page /\ mpv' = mpv
  BY <1>3 DEF PageExcludesMedia, OnCast
<1>4. f # "mpvStop"
  BY DEF Outcome
<1> QED
  BY <1>1, <1>2, <1>3, <1>4 DEF PlayAt, PlayMedia, PageHidden, PlayWebpage, ShowPage, MpvStop

\* So it is for every step, provided mpv obeys `stop`.
LEMMA StepExcludes ==
  ASSUME TypeOK, PageExcludesMedia, "mpvStop" \notin Faults, Next
  PROVE  PageExcludesMedia'
<1>1. ASSUME page' = Nothing \/ page' = page, mpv' = mpv \/ ~OnCast'
      PROVE  PageExcludesMedia'
  BY <1>1 DEF PageExcludesMedia, OnCast
<1>2. ASSUME page' = page, OnCast' => OnCast
      PROVE  PageExcludesMedia'
  BY <1>2 DEF PageExcludesMedia
<1>3. ASSUME NEW f, StopLocked(f)
      PROVE  PageExcludesMedia'
  BY <1>3 DEF StopLocked, PageHidden, PageExcludesMedia
<1>4. CASE Command
  BY <1>1, <1>3, <1>4, PlayAtExcludes
     DEF Command, Play, QueueJumpForward, QueueJumpBackward, QueueJumpToIndex, Stop,
         QueueClear
<1>5. CASE RotateWallpaper
  BY <1>1, <1>5 DEF RotateWallpaper, MpvLoad, OnCast
<1>6. CASE AsyncWatcher
  <2>1. ASSUME NEW f, AsyncFallBack(f)
        PROVE  PageExcludesMedia'
    BY <2>1 DEF AsyncFallBack, Outcome, MpvStop, MpvIdle, PageExcludesMedia, OnCast
  <2> QED
    BY <1>1, <1>6, <2>1
       DEF AsyncWatcher, AsyncStart, AsyncLoaded, AsyncEnd, AsyncForeignError,
           AsyncPlaybackError
<1>7. CASE LifeWatcher
  BY <1>1, <1>7
     DEF LifeWatcher, LifeRestarted, LifeReveal, LifeRevealed, LifeEnded, LifeClear,
         LifeShowClock, shownByOthers
<1>8. CASE EofWatcher
  <2>1. CASE EofNotice
    BY <1>2, <2>1 DEF EofNotice, OnCast
  <2>2. ASSUME NEW f, EofAdvance(f)
        PROVE  PageExcludesMedia'
    BY <2>2, PlayAtExcludes DEF EofAdvance
  <2> QED
    BY <1>1, <1>8, <2>1, <2>2 DEF EofWatcher, EofNoNext, EofShowClock
<1>9. CASE Environment
  <2>1. CASE MpvStart \/ MpvOpen \/ MpvRestart \/ MpvRedirect \/ MpvEof
    <3>1. page' = page
      BY <2>1 DEF MpvStart, MpvOpen, MpvRestart, MpvRedirect, MpvEof, daemonVars
    <3>2. mpv.phase # "idle" /\ mpv'.item = mpv.item
      BY <2>1 DEF MpvStart, MpvOpen, MpvRestart, MpvRedirect, MpvEof, TypeOK
    <3> QED
      BY <1>2, <3>1, <3>2 DEF OnCast
  <2>2. CASE MpvEndEarly \/ MpvNextFile
             \/ \E fault : \E phase \in {"starting", "opened", "playing"} : MpvFail(fault, phase)
    <3>1. page' = page
      BY <2>2 DEF MpvEndEarly, MpvNextFile, MpvFail, daemonVars
    <3>2. mpv.phase # "idle" /\ MpvGoesOn
      BY <2>2 DEF MpvEndEarly, MpvNextFile, MpvFail
    <3>3. mpv' = MpvIdle \/ mpv'.item = mpv.item
      BY <3>2 DEF MpvGoesOn, TypeOK
    <3> QED
      BY <1>2, <3>1, <3>2, <3>3 DEF OnCast, MpvIdle
  <2>3. CASE EngineExits
    BY <1>1, <2>3 DEF EngineExits
  <2> QED
    BY <1>9, <2>1, <2>2, <2>3 DEF Environment, MpvResolvesLoad
<1> QED
  BY <1>4, <1>5, <1>6, <1>7, <1>8, <1>9 DEF Next

\* The screen belongs to one engine at a time, under every interleaving, as long as
\* mpv obeys its `stop` command: play_webpage brings the page up before it asks.
THEOREM OneEngine ==
  ASSUME "mpvStop" \notin Faults
  PROVE  Spec => []PageExcludesMedia
<1>1. Init => PageExcludesMedia
  BY DEF Init, PageExcludesMedia
<1>2. TypeOK /\ PageExcludesMedia /\ [Next]_vars => PageExcludesMedia'
  <2> SUFFICES ASSUME TypeOK, PageExcludesMedia, [Next]_vars PROVE PageExcludesMedia'
    OBVIOUS
  <2>1. CASE UNCHANGED vars
    BY <2>1 DEF vars, PageExcludesMedia, OnCast
  <2> QED
    BY <2>1, StepExcludes
<1> QED
  BY <1>1, <1>2, TypeCorrect, PTL DEF Spec

-----------------------------------------------------------------------------
\* The kinds of step there are, as far as the attribution of mpv's events goes:
\* what they do to routing, mpv, entries, asyncQ, opened, page and wanted.

\* play_media refused before mpv took the load; or the engine has exited.
PageGoes ==
  page' = Nothing /\ UNCHANGED <<routing, mpv, entries, asyncQ, opened, wanted>>

\* play_media with a new load.
Submits(item, entry, probing, rollback) ==
  /\ page' = Nothing
  /\ MpvLoad(item)
  /\ entry \in {0, entries + 1}
  /\ routing' = Submit(routing, entry, item, probing, rollback)
  /\ opened' = {} /\ wanted' = item

\* play_webpage or stop_locked.
Cancels ==
  /\ routing' = Cancel(routing)
  /\ UNCHANGED <<entries, opened>>
  /\ MpvStop(asyncQ) \/ UNCHANGED <<mpv, asyncQ>>
  /\ page' = Nothing \/ page' = wanted' \/ UNCHANGED <<page, wanted>>

\* maybe_rotate_wallpaper.
Rotates == MpvLoad(Nothing) /\ UNCHANGED <<routing, opened, page, wanted>>

\* The async event watcher, other than a fallback.
Attributes ==
  /\ asyncQ # <<>>
  /\ asyncQ' = Tail(asyncQ)
  /\ \/ OnAsync("start")  /\ routing' = StartFile(routing, Head(asyncQ).entry)
     \/ OnAsync("loaded") /\ routing' = FileLoaded(routing)
     \/ /\ OnAsync("ok") \/ OnAsync("error")
        /\ routing' = Resolve(routing, Head(asyncQ).entry) \/ routing' = routing
  /\ UNCHANGED <<mpv, entries, opened, page, wanted>>

\* mpv gets on with its entry, and tells the async watcher of it up to its opening.
Progresses(kind) ==
  /\ mpv.phase # "idle"
  /\ mpv'.entry = mpv.entry /\ mpv'.item = mpv.item /\ mpv'.more = mpv.more
  /\ \/ kind = "start" /\ Tell("start")
        /\ mpv'.phase = "starting" /\ opened' = opened
     \/ kind = "loaded" /\ Tell("loaded")
        /\ mpv.phase = "starting" /\ mpv'.phase = "opened"
        /\ opened' = opened \cup {mpv.entry}
     \/ kind = "none" /\ UNCHANGED <<asyncQ, opened>> /\ mpv'.phase \in Rendering
  /\ UNCHANGED <<routing, entries, page, wanted>>

\* mpv is done with its entry.
Finishes(kind) ==
  /\ mpv.phase # "idle"
  /\ mpv' = MpvIdle
  /\ Tell(kind)
  /\ UNCHANGED <<routing, entries, opened, page, wanted>>

\* mpv puts another entry in place of its entry: the first a playlist expands to, or
\* the next one.
GoesOn(kind) ==
  /\ mpv.phase # "idle"
  /\ entries' = entries + 1 /\ mpv'.entry = entries' /\ mpv'.phase = "queued"
  /\ mpv'.item = mpv.item
  /\ Tell(kind)
  /\ kind = "error" => mpv.more > 0
  /\ UNCHANGED <<routing, opened, page, wanted>>

\* execute_play is of one of these kinds.
LEMMA PlayAtKinds ==
  ASSUME TypeOK, NEW q, NEW i, NEW f, PlayAt(q, i, f)
  PROVE  \/ PageGoes
         \/ \E item, entry, probing, rollback : Submits(item, entry, probing, rollback)
         \/ Cancels
<1> DEFINE rollback == [index |-> i, previous |-> queue.position]
           moved    == SetPosition(q, i)
           item     == moved.items[moved.position]
<1>1. CASE PlayWebpage(moved, rollback, f)
  BY <1>1 DEF PlayWebpage, ShowPage, Cancels
<1>2. CASE PlayMedia(moved, rollback, f)
  <2>1. CASE f = "loadfile"
    BY <1>2, <2>1 DEF PlayMedia, PageHidden, PageGoes, history
  <2>2. CASE f # "loadfile"
    <3> DEFINE entry == IF f = "entryId" THEN 0 ELSE entries + 1
    <3>1. entry \in {0, entries + 1}
      OBVIOUS
    <3>2. Submits(item.id, entry, item.target = "probe", rollback)
      BY <1>2, <2>2, <3>1 DEF PlayMedia, PageHidden, Submits
    <3> QED
      BY <3>2
  <2> QED
    BY <2>1, <2>2
<1> QED
  BY <1>1, <1>2 DEF PlayAt

\* stop_locked is.
LEMMA StopKinds ==
  ASSUME NEW f, StopLocked(f)
  PROVE  Cancels
BY DEF StopLocked, PageHidden, Cancels

\* The async event watcher's steps are, but for the fallback.
LEMMA AsyncKinds ==
  ASSUME AsyncWatcher
  PROVE  Attributes \/ \E f \in AllFaults \cup {"none"} : AsyncFallBack(f)
BY DEF AsyncWatcher, AsyncStart, AsyncLoaded, AsyncEnd, AsyncForeignError,
       AsyncPlaybackError, OnAsync, Attributes, history

\* The steps of mpv and of the engine are.
LEMMA EnvironmentKinds ==
  ASSUME TypeOK, Environment
  PROVE  \/ PageGoes
         \/ \E kind \in {"start", "loaded", "none"} : Progresses(kind)
         \/ \E kind \in {"ok", "error"} : Finishes(kind) \/ GoesOn(kind)
<1>1. CASE MpvStart
  BY <1>1 DEF MpvStart, Progresses, TypeOK, daemonVars
<1>2. CASE MpvOpen
  BY <1>2 DEF MpvOpen, Progresses, TypeOK, daemonVars
<1>3. CASE MpvRestart \/ MpvEof
  BY <1>3 DEF MpvRestart, MpvEof, Progresses, Rendering, TypeOK, daemonVars
<1>4. ASSUME NEW kind, MpvGoesOn, Tell(kind), mpv.phase # "idle",
             UNCHANGED <<opened, daemonVars>>
      PROVE  Finishes(kind) \/ GoesOn(kind)
  <2>1. CASE mpv.more = 0
    BY <1>4, <2>1 DEF MpvGoesOn, Finishes, daemonVars
  <2>2. CASE mpv.more # 0
    <3>1. /\ entries' = entries + 1
          /\ mpv' = [mpv EXCEPT !.entry = entries + 1, !.phase = "queued", !.more = @ - 1]
      BY <1>4, <2>2 DEF MpvGoesOn
    <3>2. mpv'.entry = entries' /\ mpv'.phase = "queued" /\ mpv'.item = mpv.item
      BY <3>1 DEF TypeOK
    <3>3. mpv.more > 0
      BY <2>2 DEF TypeOK
    <3> QED
      BY <1>4, <3>1, <3>2, <3>3 DEF GoesOn, daemonVars
  <2> QED
    BY <2>1, <2>2
<1>5. ASSUME NEW fault, NEW phase \in {"starting", "opened", "playing"},
             MpvFail(fault, phase)
      PROVE  Finishes("error") \/ GoesOn("error")
  BY <1>4, <1>5 DEF MpvFail
<1>6. CASE MpvEndEarly \/ MpvNextFile
  BY <1>4, <1>6 DEF MpvEndEarly, MpvNextFile
<1>7. CASE MpvRedirect
  <2>1. PICK more \in 0..MaxMore :
          mpv' = [mpv EXCEPT !.entry = entries + 1, !.phase = "queued", !.more = @ + more]
    BY <1>7 DEF MpvRedirect
  <2>2. mpv'.entry = entries + 1 /\ mpv'.phase = "queued" /\ mpv'.item = mpv.item
    BY <2>1 DEF TypeOK
  <2> QED
    BY <1>7, <2>2 DEF MpvRedirect, GoesOn, daemonVars
<1>8. CASE EngineExits
  BY <1>8 DEF EngineExits, PageGoes, history
<1> QED
  BY <1>1, <1>2, <1>3, <1>5, <1>6, <1>7, <1>8 DEF Environment, MpvResolvesLoad

\* And so is every step.
LEMMA StepKinds ==
  ASSUME TypeOK, Next
  PROVE  \/ UNCHANGED <<routing, mpv, entries, asyncQ, opened, page, wanted>>
         \/ PageGoes
         \/ \E item, entry, probing, rollback : Submits(item, entry, probing, rollback)
         \/ Cancels
         \/ Rotates
         \/ Attributes
         \/ \E f : AsyncFallBack(f)
         \/ \E kind \in {"start", "loaded", "none"} : Progresses(kind)
         \/ \E kind \in {"ok", "error"} : Finishes(kind) \/ GoesOn(kind)
<1>1. CASE Command
  BY <1>1, StopKinds, PlayAtKinds
     DEF Command, Play, QueueJumpForward, QueueJumpBackward, QueueJumpToIndex, Stop,
         QueueClear, history
<1>2. CASE RotateWallpaper
  BY <1>2 DEF RotateWallpaper, Rotates, history
<1>3. CASE LifeWatcher
  BY <1>3
     DEF LifeWatcher, LifeRestarted, LifeReveal, LifeRevealed, LifeEnded, LifeClear,
         LifeShowClock, shownByOthers, history
<1>4. CASE EofWatcher
  <2>1. CASE EofNotice
    BY <2>1 DEF EofNotice, Progresses, Rendering, TypeOK, history
  <2>2. ASSUME NEW f, EofAdvance(f)
        PROVE  PlayAt(queue, queue.position + 1, f)
    BY <2>2 DEF EofAdvance
  <2> QED
    BY <1>4, <2>1, <2>2, PlayAtKinds DEF EofWatcher, EofNoNext, EofShowClock, history
<1> QED
  BY <1>1, <1>2, <1>3, <1>4, AsyncKinds, EnvironmentKinds DEF Next

-----------------------------------------------------------------------------
\* Attribution: whose error an END_FILE is, and what may be done about it

\* The events of a queue.
InFlight(q) == {q[k] : k \in 1..Len(q)}

\* Every event, and what mpv is on, has an id mpv has handed out.
EntriesKnown ==
  /\ \A e \in InFlight(asyncQ) : e.entry \in 1..entries
  /\ mpv.phase # "idle" => mpv.entry \in 1..entries

\* The daemon tracks one load, its newest.
OneLoad == \A a, b \in routing.current : a = b

\* While the daemon may still hand a URL to the browser, nobody has asked for
\* anything since, and no page is up.
ProbeIsWanted == \A l \in routing.current : l.probing => l.item = wanted /\ page = Nothing

\* The daemon tracks an entry mpv has handed out, and none that has others behind it:
\* not the entries a playlist expanded to.
TrackedKnown == \A l \in routing.current : l.entry <= entries
ExpandedUntracked == mpv.more > 0 => \A l \in routing.current : l.entry # mpv.entry

\* The tracked load's error means that mpv is on nothing else of a sender's.
FailureLeftMpv ==
  \A l \in routing.current, e \in InFlight(asyncQ) :
    e.kind = "error" /\ e.entry = l.entry => ~OnCast

\* The inductive invariant behind PageIsWanted and FallbackInterruptsNothing.
AttributionInv ==
  /\ EntriesKnown /\ TrackedKnown /\ ExpandedUntracked
  /\ OneLoad /\ ProbeIsWanted /\ FailureLeftMpv /\ PageIsWanted

\* Taking an event off a queue, and putting one on.
LEMMA InFlightSteps ==
  ASSUME NEW q \in Seq(Events)
  PROVE  /\ q # <<>> => /\ Head(q) \in InFlight(q)
                        /\ InFlight(Tail(q)) \subseteq InFlight(q)
         /\ \A e \in Events : InFlight(Append(q, e)) \subseteq InFlight(q) \cup {e}
<1>1. ASSUME q # <<>>
      PROVE  Head(q) \in InFlight(q) /\ InFlight(Tail(q)) \subseteq InFlight(q)
  <2>1. Len(q) \in Nat /\ Len(q) >= 1 /\ Head(q) = q[1]
    BY <1>1
  <2>2. Len(Tail(q)) = Len(q) - 1
    BY <1>1
  <2>3. \A k \in 1..Len(Tail(q)) : k + 1 \in 1..Len(q) /\ Tail(q)[k] = q[k + 1]
    BY <1>1, <2>1, <2>2
  <2>4. Head(q) \in InFlight(q)
    BY <2>1 DEF InFlight
  <2>5. InFlight(Tail(q)) \subseteq InFlight(q)
    BY <2>3 DEF InFlight
  <2> QED
    BY <2>4, <2>5
<1>2. ASSUME NEW e \in Events
      PROVE  InFlight(Append(q, e)) \subseteq InFlight(q) \cup {e}
  <2>1. \A k \in 1..Len(Append(q, e)) :
          (k \in 1..Len(q) /\ Append(q, e)[k] = q[k]) \/ Append(q, e)[k] = e
    OBVIOUS
  <2> QED
    BY <2>1 DEF InFlight
<1> QED
  BY <1>1, <1>2

\* What mpv tells concerns its own entry; a drop is no error.
LEMMA InFlightTold ==
  ASSUME TypeOK
  PROVE  /\ \A kind \in {"start", "loaded", "ok", "error"} : Tell(kind) =>
              \A e \in InFlight(asyncQ') :
                e \in InFlight(asyncQ) \/ (e.kind = kind /\ e.entry = mpv.entry)
         /\ \A q \in Seq(Events) : \A e \in InFlight(DroppedBy(q)) :
              \/ e \in InFlight(q)
              \/ mpv.phase # "idle" /\ e.kind = "ok" /\ e.entry = mpv.entry
<1>1. asyncQ \in Seq(Events) /\ mpv.entry \in Nat
  BY DEF TypeOK
<1>2. ASSUME NEW q \in Seq(Events), NEW kind \in {"start", "loaded", "ok", "error"},
             NEW e \in InFlight(Append(q, [kind |-> kind, entry |-> mpv.entry]))
      PROVE  e \in InFlight(q) \/ (e.kind = kind /\ e.entry = mpv.entry)
  <2> DEFINE told == [kind |-> kind, entry |-> mpv.entry]
  <2>1. told \in Events
    BY <1>1 DEF Events
  <2>2. InFlight(Append(q, told)) \subseteq InFlight(q) \cup {told}
    BY <2>1, InFlightSteps
  <2> QED
    BY <2>2
<1>3. ASSUME NEW kind \in {"start", "loaded", "ok", "error"}, Tell(kind),
             NEW e \in InFlight(asyncQ')
      PROVE  e \in InFlight(asyncQ) \/ (e.kind = kind /\ e.entry = mpv.entry)
  BY <1>1, <1>2, <1>3 DEF Tell
<1>4. ASSUME NEW q \in Seq(Events), NEW e \in InFlight(DroppedBy(q))
      PROVE  \/ e \in InFlight(q)
             \/ mpv.phase # "idle" /\ e.kind = "ok" /\ e.entry = mpv.entry
  BY <1>2, <1>4 DEF DroppedBy
<1> QED
  BY <1>3, <1>4

\* The loads tracked in `s` are those of `r`, no more of them eligible for the browser.
Keeps(r, s) ==
  /\ \A m \in s.current : \E l \in r.current :
       /\ m.entry = l.entry /\ m.item = l.item /\ m.rollback = l.rollback
       /\ m.probing => l.probing
  /\ (\A a, b \in r.current : a = b) => (\A a, b \in s.current : a = b)

\* Nothing but a submission brings in a load.
LEMMA RoutingKeeps ==
  ASSUME NEW r \in Routings, NEW entry
  PROVE  /\ Keeps(r, StartFile(r, entry))
         /\ Keeps(r, FileLoaded(r))
         /\ Keeps(r, Resolve(r, entry))
         /\ Keeps(r, Cancel(r))
         /\ \A m \in Cancel(r).current : ~m.probing
<1>1. r.current \subseteq Loads
  BY DEF Routings
<1>2. StartFile(r, entry).current = r.current
  BY DEF StartFile, Routings
<1>3. FileLoaded(r).current = {[l EXCEPT !.loaded = @ \/ l.entry = r.lastStarted] :
                               l \in r.current}
  BY DEF FileLoaded, Routings
<1>4. Resolve(r, entry).current \subseteq r.current
  BY DEF Resolve, Routings
<1>5. Cancel(r).current = {[l EXCEPT !.probing = FALSE] : l \in r.current}
  BY DEF Cancel, Routings
<1>6. \A l \in Loads :
        LET m == [l EXCEPT !.loaded = @ \/ l.entry = r.lastStarted]
        IN  /\ m.entry = l.entry /\ m.item = l.item /\ m.rollback = l.rollback
            /\ m.probing = l.probing
  BY DEF Loads
<1>7. \A l \in Loads :
        LET m == [l EXCEPT !.probing = FALSE]
        IN  /\ m.entry = l.entry /\ m.item = l.item /\ m.rollback = l.rollback
            /\ m.probing = FALSE
  BY DEF Loads
<1>8. Keeps(r, StartFile(r, entry))
  BY <1>2 DEF Keeps
<1>9. Keeps(r, FileLoaded(r))
  <2>1. ASSUME NEW m \in FileLoaded(r).current
        PROVE  \E l \in r.current :
                 /\ m = [l EXCEPT !.loaded = @ \/ l.entry = r.lastStarted]
                 /\ m.entry = l.entry /\ m.item = l.item /\ m.rollback = l.rollback
                 /\ m.probing = l.probing
    <3>1. PICK l \in r.current : m = [l EXCEPT !.loaded = @ \/ l.entry = r.lastStarted]
      BY <1>3, <2>1
    <3>2. /\ m.entry = l.entry /\ m.item = l.item /\ m.rollback = l.rollback
          /\ m.probing = l.probing
      BY <1>1, <1>6, <3>1
    <3> QED
      BY <3>1, <3>2
  <2>2. (\A a, b \in r.current : a = b) => \A a, b \in FileLoaded(r).current : a = b
    BY <2>1
  <2> QED
    BY <2>1, <2>2 DEF Keeps
<1>10. Keeps(r, Resolve(r, entry))
  BY <1>4 DEF Keeps
<1>11. Keeps(r, Cancel(r)) /\ \A m \in Cancel(r).current : ~m.probing
  BY <1>1, <1>5, <1>7 DEF Keeps
<1> QED
  BY <1>8, <1>9, <1>10, <1>11

\* A load replaces what mpv was on; no event in flight is about it.
LEMMA LoadKeepsEntries ==
  ASSUME TypeOK, EntriesKnown, NEW item, MpvLoad(item)
  PROVE  /\ EntriesKnown'
         /\ \A e \in InFlight(asyncQ') : e.entry \in 1..entries
         /\ \A e \in InFlight(asyncQ') : e.kind = "error" => e \in InFlight(asyncQ)
<1>1. asyncQ \in Seq(Events) /\ entries \in Nat
  BY DEF TypeOK
<1>2. \A e \in InFlight(asyncQ') :
        \/ e \in InFlight(asyncQ)
        \/ mpv.phase # "idle" /\ e.kind = "ok" /\ e.entry = mpv.entry
  BY <1>1, InFlightTold DEF MpvLoad
<1>3. entries' = entries + 1 /\ mpv'.entry = entries + 1
  BY DEF MpvLoad
<1>4. \A e \in InFlight(asyncQ') : e.entry \in 1..entries
  BY <1>2 DEF EntriesKnown
<1> QED
  BY <1>1, <1>2, <1>3, <1>4 DEF EntriesKnown

\* A stop leaves no entry, and no error that was not there.
LEMMA StopKeepsEntries ==
  ASSUME TypeOK, EntriesKnown, entries' = entries, NEW q \in Seq(Events),
         InFlight(q) \subseteq InFlight(asyncQ), MpvStop(q)
  PROVE  /\ EntriesKnown'
         /\ ~OnCast'
         /\ \A e \in InFlight(asyncQ') : e.kind = "error" => e \in InFlight(asyncQ)
<1>1. \A e \in InFlight(asyncQ') :
        \/ e \in InFlight(asyncQ)
        \/ mpv.phase # "idle" /\ e.kind = "ok" /\ e.entry = mpv.entry
  BY InFlightTold DEF MpvStop
<1>2. mpv'.phase = "idle"
  BY DEF MpvStop, MpvIdle
<1> QED
  BY <1>1, <1>2 DEF EntriesKnown, OnCast

\* The event at the head of the queue is taken off it.
LEMMA TakingKeepsEntries ==
  ASSUME TypeOK, asyncQ # <<>>
  PROVE  /\ Tail(asyncQ) \in Seq(Events)
         /\ InFlight(Tail(asyncQ)) \subseteq InFlight(asyncQ)
         /\ Head(asyncQ) \in InFlight(asyncQ)
<1>1. asyncQ \in Seq(Events)
  BY DEF TypeOK
<1> QED
  BY <1>1, InFlightSteps

\* No step but a submission has the daemon track an entry.
LEMMA KeepsTracked ==
  ASSUME TypeOK, TrackedKnown, ExpandedUntracked, Keeps(routing, routing'),
         entries' \in {entries, entries + 1},
         \/ mpv'.more = 0
         \/ mpv'.entry = mpv.entry /\ mpv'.more = mpv.more
         \/ mpv'.entry = entries + 1
  PROVE  TrackedKnown' /\ ExpandedUntracked'
<1>1. entries \in Nat /\ routing.current \subseteq Loads
  BY DEF TypeOK, Routings
<1>2. \A m \in routing'.current : \E l \in routing.current : m.entry = l.entry
  BY DEF Keeps
<1>3. \A l \in routing.current : l.entry \in Nat /\ l.entry <= entries
  BY <1>1 DEF TrackedKnown, Loads
<1>4. \A m \in routing'.current : m.entry \in Nat /\ m.entry <= entries
  BY <1>2, <1>3
<1>5. TrackedKnown'
  BY <1>1, <1>4 DEF TrackedKnown
<1>6. ExpandedUntracked'
  <2>1. CASE mpv'.more = 0
    BY <2>1 DEF ExpandedUntracked
  <2>2. CASE mpv'.entry = mpv.entry /\ mpv'.more = mpv.more
    BY <1>2, <2>2 DEF ExpandedUntracked
  <2>3. CASE mpv'.entry = entries + 1
    BY <1>1, <1>4, <2>3 DEF ExpandedUntracked
  <2> QED
    BY <2>1, <2>2, <2>3
<1> QED
  BY <1>5, <1>6

\* Steps that bring in no load, no page and no wish.
LEMMA KeepsAttribution ==
  ASSUME AttributionInv, EntriesKnown', TrackedKnown', ExpandedUntracked',
         Keeps(routing, routing'), UNCHANGED <<page, wanted>>, OnCast' => OnCast,
         \A e \in InFlight(asyncQ') : e.kind = "error" =>
           e \in InFlight(asyncQ) \/ \A l \in routing.current : l.entry # e.entry
  PROVE  AttributionInv'
<1>1. OneLoad'
  BY DEF AttributionInv, OneLoad, Keeps
<1>2. ProbeIsWanted' /\ PageIsWanted'
  BY DEF AttributionInv, ProbeIsWanted, PageIsWanted, Keeps
<1>3. FailureLeftMpv'
  BY DEF AttributionInv, FailureLeftMpv, Keeps
<1> QED
  BY <1>1, <1>2, <1>3 DEF AttributionInv

\* The invariant is inductive.
LEMMA AttributionStep ==
  ASSUME TypeOK, AttributionInv, Next
  PROVE  AttributionInv'
<1>1. routing \in Routings /\ asyncQ \in Seq(Events) /\ entries \in Nat
  BY DEF TypeOK
<1>2. Keeps(routing, routing)
  BY DEF Keeps
<1>3. CASE UNCHANGED <<routing, mpv, entries, asyncQ, opened, page, wanted>>
  BY <1>3 DEF AttributionInv, EntriesKnown, TrackedKnown, ExpandedUntracked, OneLoad,
              ProbeIsWanted, FailureLeftMpv, PageIsWanted, OnCast
<1>4. CASE PageGoes
  BY <1>4 DEF PageGoes, AttributionInv, EntriesKnown, TrackedKnown, ExpandedUntracked,
              OneLoad, ProbeIsWanted, FailureLeftMpv, PageIsWanted, OnCast
<1>5. ASSUME NEW item, NEW entry, NEW probing, NEW rollback,
             Submits(item, entry, probing, rollback)
      PROVE  AttributionInv'
  <2>1. /\ EntriesKnown'
        /\ \A e \in InFlight(asyncQ') : e.entry \in 1..entries
    BY <1>5, LoadKeepsEntries DEF Submits, AttributionInv
  <2>2. \A l \in routing'.current : l.entry = entry /\ l.item = item
    BY <1>1, <1>5 DEF Submits, Submit, Routings
  <2>3. OneLoad'
    BY <1>1, <1>5 DEF Submits, Submit, Routings, OneLoad
  <2>4. ProbeIsWanted' /\ PageIsWanted'
    BY <1>5, <2>2 DEF Submits, ProbeIsWanted, PageIsWanted
  <2>5. \A e \in InFlight(asyncQ') : e.entry # entry
    BY <1>1, <1>5, <2>1 DEF Submits
  <2>6. FailureLeftMpv'
    BY <2>2, <2>5 DEF FailureLeftMpv
  <2>7. TrackedKnown' /\ ExpandedUntracked'
    <3>1. entries' = entries + 1 /\ mpv'.more = 0 /\ entry \in {0, entries + 1}
      BY <1>5 DEF Submits, MpvLoad
    <3> QED
      BY <1>1, <2>2, <3>1 DEF TrackedKnown, ExpandedUntracked
  <2> QED
    BY <2>1, <2>3, <2>4, <2>6, <2>7 DEF AttributionInv
<1>6. CASE Cancels
  <2>1. Keeps(routing, routing') /\ \A l \in routing'.current : ~l.probing
    BY <1>1, <1>6, RoutingKeeps DEF Cancels
  <2>2. /\ EntriesKnown'
        /\ OnCast' => OnCast
        /\ mpv' = mpv \/ mpv'.more = 0
        /\ \A e \in InFlight(asyncQ') : e.kind = "error" => e \in InFlight(asyncQ)
    <3>1. CASE MpvStop(asyncQ)
      <4>1. mpv'.more = 0
        BY <3>1 DEF MpvStop, MpvIdle
      <4> QED
        BY <1>1, <1>6, <3>1, <4>1, StopKeepsEntries DEF Cancels, AttributionInv
    <3>2. CASE UNCHANGED <<mpv, asyncQ>>
      BY <1>6, <3>2 DEF Cancels, AttributionInv, EntriesKnown, OnCast
    <3> QED
      BY <1>6, <3>1, <3>2 DEF Cancels
  <2>3. OneLoad' /\ ProbeIsWanted'
    BY <2>1 DEF AttributionInv, OneLoad, ProbeIsWanted, Keeps
  <2>4. PageIsWanted'
    BY <1>6 DEF Cancels, AttributionInv, PageIsWanted
  <2>5. FailureLeftMpv'
    BY <2>1, <2>2 DEF AttributionInv, FailureLeftMpv, Keeps
  <2>6. TrackedKnown' /\ ExpandedUntracked'
    BY <1>6, <2>1, <2>2, KeepsTracked DEF Cancels, AttributionInv
  <2> QED
    BY <2>2, <2>3, <2>4, <2>5, <2>6 DEF AttributionInv
<1>7. CASE Rotates
  <2>1. /\ EntriesKnown'
        /\ \A e \in InFlight(asyncQ') : e.kind = "error" => e \in InFlight(asyncQ)
    BY <1>7, LoadKeepsEntries DEF Rotates, AttributionInv
  <2>2. ~OnCast' /\ mpv'.more = 0 /\ entries' = entries + 1 /\ UNCHANGED routing
    BY <1>7 DEF Rotates, MpvLoad, OnCast
  <2>3. TrackedKnown' /\ ExpandedUntracked'
    BY <1>2, <2>2, KeepsTracked DEF AttributionInv
  <2> QED
    BY <1>2, <1>7, <2>1, <2>2, <2>3, KeepsAttribution DEF Rotates
<1>8. CASE Attributes
  <2>1. Keeps(routing, routing')
    BY <1>1, <1>2, <1>8, RoutingKeeps DEF Attributes
  <2>2. InFlight(asyncQ') \subseteq InFlight(asyncQ)
    BY <1>8, TakingKeepsEntries DEF Attributes
  <2>3. EntriesKnown' /\ (OnCast' => OnCast) /\ UNCHANGED <<page, wanted>>
    BY <1>8, <2>2 DEF Attributes, AttributionInv, EntriesKnown, OnCast
  <2>4. TrackedKnown' /\ ExpandedUntracked'
    BY <1>8, <2>1, KeepsTracked DEF Attributes, AttributionInv
  <2> QED
    BY <2>1, <2>2, <2>3, <2>4, KeepsAttribution
<1>9. ASSUME NEW f, AsyncFallBack(f)
      PROVE  AttributionInv'
  <2>1. PICK l \in Tracked(routing, Head(asyncQ).entry) :
          FallsBack(l) /\ ShowPage(l.item, f)
    BY <1>9 DEF AsyncFallBack
  <2>2. EntriesKnown'
    <3>1. CASE MpvStop(Tail(asyncQ))
      BY <1>9, <3>1, TakingKeepsEntries, StopKeepsEntries
         DEF AsyncFallBack, OnAsync, AttributionInv
    <3>2. CASE asyncQ' = Tail(asyncQ) /\ UNCHANGED mpv
      BY <1>9, <3>2, TakingKeepsEntries
         DEF AsyncFallBack, OnAsync, AttributionInv, EntriesKnown
    <3> QED
      BY <1>9, <3>1, <3>2 DEF AsyncFallBack
  <2>3. l.item = wanted /\ page = Nothing
    BY <2>1 DEF Tracked, FallsBack, AttributionInv, ProbeIsWanted
  <2>4. routing'.current = {}
    BY <1>1, <1>9, <2>1
       DEF AsyncFallBack, Resolve, Routings, Tracked, AttributionInv, OneLoad
  <2>5. PageIsWanted'
    BY <1>9, <2>1, <2>3 DEF AsyncFallBack, ShowPage, PageIsWanted, history
  <2> QED
    BY <2>2, <2>4, <2>5
       DEF AttributionInv, TrackedKnown, ExpandedUntracked, OneLoad, ProbeIsWanted,
           FailureLeftMpv
<1>10. ASSUME NEW kind \in {"start", "loaded", "none"}, Progresses(kind)
       PROVE  AttributionInv'
  <2>1. \A e \in InFlight(asyncQ') :
          e \in InFlight(asyncQ) \/ (e.kind = kind /\ e.entry = mpv.entry)
    BY <1>10, InFlightTold DEF Progresses
  <2>2. EntriesKnown' /\ (OnCast' => OnCast) /\ UNCHANGED <<routing, page, wanted>>
    BY <1>10, <2>1 DEF Progresses, AttributionInv, EntriesKnown, OnCast
  <2>3. TrackedKnown' /\ ExpandedUntracked'
    BY <1>2, <1>10, KeepsTracked DEF Progresses, AttributionInv
  <2> QED
    BY <1>2, <2>1, <2>2, <2>3, KeepsAttribution
<1>11. ASSUME NEW kind \in {"ok", "error"}, Finishes(kind)
       PROVE  AttributionInv'
  <2>1. \A e \in InFlight(asyncQ') :
          e \in InFlight(asyncQ) \/ (e.kind = kind /\ e.entry = mpv.entry)
    BY <1>11, InFlightTold DEF Finishes
  <2>2. ~OnCast' /\ mpv'.phase = "idle" /\ mpv'.more = 0
    BY <1>11 DEF Finishes, MpvIdle, OnCast
  <2>3. EntriesKnown' /\ UNCHANGED <<routing, page, wanted>>
    BY <1>11, <2>1, <2>2 DEF Finishes, AttributionInv, EntriesKnown
  <2>4. TrackedKnown' /\ ExpandedUntracked'
    BY <1>2, <1>11, <2>2, KeepsTracked DEF Finishes, AttributionInv
  <2> QED
    BY <2>2, <2>3, <2>4
       DEF AttributionInv, OneLoad, ProbeIsWanted, PageIsWanted, FailureLeftMpv
<1>12. ASSUME NEW kind \in {"ok", "error"}, GoesOn(kind)
       PROVE  AttributionInv'
  <2>1. \A e \in InFlight(asyncQ') :
          e \in InFlight(asyncQ) \/ (e.kind = kind /\ e.entry = mpv.entry)
    BY <1>12, InFlightTold DEF GoesOn
  <2>2. EntriesKnown' /\ (OnCast' => OnCast) /\ UNCHANGED <<routing, page, wanted>>
    BY <1>1, <1>12, <2>1 DEF GoesOn, AttributionInv, EntriesKnown, OnCast
  <2>3. TrackedKnown' /\ ExpandedUntracked'
    BY <1>2, <1>12, KeepsTracked DEF GoesOn, AttributionInv
  <2>4. \A e \in InFlight(asyncQ') : e.kind = "error" =>
          e \in InFlight(asyncQ) \/ \A l \in routing.current : l.entry # e.entry
    BY <1>12, <2>1 DEF GoesOn, AttributionInv, ExpandedUntracked
  <2> QED
    BY <1>2, <2>2, <2>3, <2>4, KeepsAttribution
<1> QED
  BY <1>3, <1>4, <1>5, <1>6, <1>7, <1>8, <1>9, <1>10, <1>11, <1>12, StepKinds

\* It holds throughout, together with the types it leans on.
LEMMA Attribution == Spec => [](TypeOK /\ AttributionInv)
<1>1. Init => AttributionInv
  BY DEF Init, AttributionInv, EntriesKnown, TrackedKnown, ExpandedUntracked, OneLoad,
         ProbeIsWanted, FailureLeftMpv, PageIsWanted, InFlight, NoRouting, MpvIdle, Nothing
<1>2. TypeOK /\ AttributionInv /\ [Next]_vars => AttributionInv'
  <2> SUFFICES ASSUME TypeOK, AttributionInv, [Next]_vars PROVE AttributionInv'
    OBVIOUS
  <2>1. CASE UNCHANGED vars
    BY <2>1 DEF vars, AttributionInv, EntriesKnown, TrackedKnown, ExpandedUntracked,
                OneLoad, ProbeIsWanted, FailureLeftMpv, PageIsWanted, OnCast
  <2> QED
    BY <2>1, AttributionStep
<1> QED
  BY <1>1, <1>2, TypeCorrect, PTL DEF Spec

\* The page on screen is always of the item asked for last, whatever raced: no late
\* fallback shows the page of a Play that was superseded, stopped or cleared.
THEOREM PageWanted == Spec => []PageIsWanted
<1>1. AttributionInv => PageIsWanted
  BY DEF AttributionInv
<1> QED
  BY <1>1, Attribution, PTL

\* What a fallback finds on the screen.
LEMMA FallbackOnNothing ==
  ASSUME TypeOK, AttributionInv, NEW f, AsyncFallBack(f)
  PROVE  page = Nothing /\ ~OnCast
<1>1. PICK l \in Tracked(routing, Head(asyncQ).entry) : FallsBack(l)
  BY DEF AsyncFallBack
<1>2. l \in routing.current /\ l.probing /\ Head(asyncQ).entry = l.entry
  BY <1>1 DEF Tracked, FallsBack
<1>3. Head(asyncQ) \in InFlight(asyncQ) /\ Head(asyncQ).kind = "error"
  BY TakingKeepsEntries DEF AsyncFallBack, OnAsync
<1> QED
  BY <1>2, <1>3 DEF AttributionInv, ProbeIsWanted, FailureLeftMpv

\* A fallback to the browser takes the screen from nobody.
THEOREM FallbackHarmless == Spec => FallbackInterruptsNothing
<1>1. TypeOK /\ AttributionInv =>
        [(\E f \in AllFaults \cup {"none"} : AsyncFallBack(f)) =>
           page = Nothing /\ ~OnCast]_vars
  BY FallbackOnNothing
<1> QED
  BY <1>1, Attribution, PTL DEF FallbackInterruptsNothing

-----------------------------------------------------------------------------
\* The spinner, and what it turns for

\* The lifecycle watcher is about to take the spinner down by itself.
Settling == life \in {"marked", "restoring"} \/ (life = "revealing" /\ overlay.revealing)

\* The tracked load's error is on its way.
FailureInFlight ==
  \E l \in routing.current, e \in InFlight(asyncQ) : e.kind = "error" /\ e.entry = l.entry

\* The inductive invariant behind SpinnerHasCause: an overlay nobody is about to take
\* down has mpv loading, and no fallback may stop mpv unseen by the lifecycle watcher.
SpinnerInv ==
  overlay.active /\ ~Settling /\ lifeQ = <<>> => mpv.phase \in Loading /\ ~FailureInFlight

\* Steps that leave the overlay and the lifecycle watcher alone, and mpv loading.
LEMMA KeepsSpinner ==
  ASSUME SpinnerInv, UNCHANGED <<overlay, life, lifeQ>>, Keeps(routing, routing'),
         mpv.phase \in Loading => mpv'.phase \in Loading,
         \A e \in InFlight(asyncQ') : e.kind = "error" => e \in InFlight(asyncQ)
  PROVE  SpinnerInv'
<1>1. FailureInFlight' => FailureInFlight
  BY DEF FailureInFlight, Keeps
<1> QED
  BY <1>1 DEF SpinnerInv, Settling

\* A new load's spinner starts with mpv on it and nothing said about it yet; a refusal
\* takes the spinner down or leaves it to the load it was up for.
LEMMA PlayAtSpinner ==
  ASSUME TypeOK, EntriesKnown, SpinnerInv, UNCHANGED <<life, lifeQ>>,
         NEW q, NEW i, NEW f, PlayAt(q, i, f)
  PROVE  SpinnerInv'
<1> DEFINE rollback == [index |-> i, previous |-> queue.position]
           moved    == SetPosition(q, i)
           item     == moved.items[moved.position]
<1>1. routing \in Routings /\ entries \in Nat
  BY DEF TypeOK
<1>2. ASSUME ~overlay'.active
      PROVE  SpinnerInv'
  BY <1>2 DEF SpinnerInv
<1>3. BackToClock => ~overlay'.active
  BY DEF BackToClock, OverlayCleared
<1>4. CASE PlayWebpage(moved, rollback, f)
  <2>1. CASE BackToClock
    BY <1>2, <1>3, <2>1
  <2>2. CASE UNCHANGED <<mpv, asyncQ, idle, overlay>>
    BY <1>1, <1>4, <2>2, RoutingKeeps, KeepsSpinner DEF PlayWebpage
  <2> QED
    BY <1>4, <2>1, <2>2 DEF PlayWebpage
<1>5. CASE PlayMedia(moved, rollback, f)
  <2>1. CASE BackToClock
    BY <1>2, <1>3, <2>1
  <2>2. CASE ~BackToClock
    <3> DEFINE entry == IF f = "entryId" THEN 0 ELSE entries + 1
    <3>1. /\ MpvLoad(item.id)
          /\ routing' = Submit(routing, entry, item.id, item.target = "probe", rollback)
      BY <1>5, <2>2 DEF PlayMedia, PageHidden
    <3>2. mpv'.phase \in Loading
      BY <3>1 DEF MpvLoad, Loading
    <3>3. \A l \in routing'.current : l.entry = entry
      BY <1>1, <3>1 DEF Submit, Routings
    <3>4. \A e \in InFlight(asyncQ') : e.entry \in 1..entries
      BY <3>1, LoadKeepsEntries
    <3>5. entry \notin 1..entries
      BY <1>1
    <3> QED
      BY <3>2, <3>3, <3>4, <3>5 DEF SpinnerInv, FailureInFlight
  <2> QED
    BY <2>1, <2>2
<1> QED
  BY <1>4, <1>5 DEF PlayAt

\* The invariant is inductive.
LEMMA SpinnerStep ==
  ASSUME TypeOK, EntriesKnown, SpinnerInv, Next
  PROVE  SpinnerInv'
<1>1. /\ routing \in Routings /\ asyncQ \in Seq(Events)
      /\ lifeQ \in Seq({"restart", "error", "eof"})
      /\ overlay = [active |-> overlay.active, restarted |-> overlay.restarted,
                    revealing |-> overlay.revealing]
  BY DEF TypeOK
<1>2. Keeps(routing, routing)
  BY DEF Keeps
<1>3. ASSUME UNCHANGED <<overlay, life, lifeQ, mpv, asyncQ, routing>>
      PROVE  SpinnerInv'
  BY <1>2, <1>3, KeepsSpinner
<1>4. ASSUME ~overlay'.active \/ lifeQ' # <<>> \/ life' \in {"marked", "restoring"}
      PROVE  SpinnerInv'
  BY <1>4 DEF SpinnerInv, Settling
<1>5. ASSUME NEW kind, lifeQ' = Append(lifeQ, kind)
      PROVE  lifeQ' # <<>>
  <2>1. Len(lifeQ') = Len(lifeQ) + 1 /\ Len(lifeQ) \in Nat
    BY <1>1, <1>5
  <2> QED
    BY <2>1
<1>6. CASE Command
  <2>1. ASSUME NEW f, StopLocked(f)
        PROVE  ~overlay'.active
    BY <2>1 DEF StopLocked, PageHidden, BackToClock, OverlayCleared
  <2> QED
    BY <1>3, <1>4, <1>6, <2>1, PlayAtSpinner
       DEF Command, Play, QueueJumpForward, QueueJumpBackward, QueueJumpToIndex, Stop,
           QueueClear, watcherVars
<1>7. CASE RotateWallpaper
  <2>1. MpvLoad(Nothing) /\ UNCHANGED <<overlay, life, lifeQ, routing>>
    BY <1>7 DEF RotateWallpaper, watcherVars
  <2>2. mpv'.phase \in Loading
    BY <2>1 DEF MpvLoad, Loading
  <2>3. \A e \in InFlight(asyncQ') : e.kind = "error" => e \in InFlight(asyncQ)
    BY <2>1, LoadKeepsEntries
  <2> QED
    BY <1>2, <2>1, <2>2, <2>3, KeepsSpinner
<1>8. CASE AsyncWatcher
  <2>1. CASE Attributes
    <3>1. Keeps(routing, routing')
      BY <1>1, <1>2, <2>1, RoutingKeeps DEF Attributes
    <3>2. InFlight(asyncQ') \subseteq InFlight(asyncQ)
      BY <2>1, TakingKeepsEntries DEF Attributes
    <3>3. UNCHANGED <<overlay, life, lifeQ>>
      BY <1>8
         DEF AsyncWatcher, AsyncStart, AsyncLoaded, AsyncEnd, AsyncForeignError,
             AsyncPlaybackError, AsyncFallBack, watcherVars
    <3> QED
      BY <2>1, <3>1, <3>2, <3>3, KeepsSpinner DEF Attributes
  <2>2. ASSUME NEW f, AsyncFallBack(f)
        PROVE  SpinnerInv'
    <3>1. FailureInFlight
      BY <2>2, TakingKeepsEntries
         DEF AsyncFallBack, OnAsync, Tracked, FailureInFlight
    <3>2. UNCHANGED <<overlay, life, lifeQ>>
      BY <2>2 DEF AsyncFallBack, watcherVars
    <3> QED
      BY <3>1, <3>2 DEF SpinnerInv, Settling
  <2> QED
    BY <1>8, <2>1, <2>2, AsyncKinds
<1>9. CASE LifeWatcher
  <2>1. CASE LifeRestarted
    BY <1>4, <2>1 DEF LifeRestarted
  <2>2. CASE LifeReveal
    <3>1. /\ overlay' = [active |-> overlay.active, restarted |-> overlay.restarted,
                         revealing |-> overlay.active]
          /\ life' = IF overlay.active THEN "revealing" ELSE "wait"
      BY <1>1, <2>2 DEF LifeReveal
    <3> QED
      BY <3>1 DEF SpinnerInv, Settling
  <2>3. CASE LifeRevealed
    <3>1. CASE overlay.revealing
      BY <1>4, <2>3, <3>1 DEF LifeRevealed, OverlayCleared
    <3>2. CASE ~overlay.revealing
      <4>1. overlay' = overlay /\ life = "revealing" /\ lifeQ' = lifeQ
            /\ UNCHANGED <<mpv, asyncQ, routing>>
        BY <2>3, <3>2 DEF LifeRevealed, shownByOthers
      <4>2. FailureInFlight' => FailureInFlight
        BY <4>1 DEF FailureInFlight
      <4> QED
        BY <3>2, <4>1, <4>2 DEF SpinnerInv, Settling
    <3> QED
      BY <3>1, <3>2
  <2>4. CASE LifeEnded
    BY <1>4, <2>4 DEF LifeEnded
  <2>5. CASE LifeClear
    BY <1>4, <2>5 DEF LifeClear, OverlayCleared
  <2>6. CASE LifeShowClock
    <3>1. /\ life = "showing"
          /\ UNCHANGED <<overlay, lifeQ, mpv, asyncQ, routing>>
      BY <2>6 DEF LifeShowClock, shownByOthers
    <3>2. FailureInFlight' => FailureInFlight
      BY <3>1 DEF FailureInFlight
    <3> QED
      BY <3>1, <3>2 DEF SpinnerInv, Settling
  <2> QED
    BY <1>9, <2>1, <2>2, <2>3, <2>4, <2>5, <2>6 DEF LifeWatcher
<1>10. CASE EofWatcher
  <2>1. CASE EofNotice
    <3>1. mpv.phase \notin Loading
      BY <2>1 DEF EofNotice, Loading
    <3> QED
      BY <1>2, <2>1, <3>1, KeepsSpinner DEF EofNotice, watcherVars
  <2>2. ASSUME NEW f, EofAdvance(f)
        PROVE  SpinnerInv'
    BY <2>2, PlayAtSpinner DEF EofAdvance, watcherVars
  <2> QED
    BY <1>3, <1>10, <2>1, <2>2 DEF EofWatcher, EofNoNext, EofShowClock, watcherVars
<1>11. CASE Environment
  <2>1. CASE MpvStart \/ MpvOpen \/ MpvRedirect
    <3>1. /\ UNCHANGED <<overlay, life, lifeQ, routing>>
          /\ Tell("start") \/ Tell("loaded") \/ Tell("ok")
      BY <2>1 DEF MpvStart, MpvOpen, MpvRedirect, daemonVars
    <3>2. mpv'.phase \in Loading
      BY <2>1 DEF MpvStart, MpvOpen, MpvRedirect, Loading, TypeOK
    <3>3. \A e \in InFlight(asyncQ') : e.kind = "error" => e \in InFlight(asyncQ)
      BY <3>1, InFlightTold
    <3> QED
      BY <1>2, <3>1, <3>2, <3>3, KeepsSpinner
  <2>2. CASE MpvRestart \/ MpvEndEarly \/ MpvNextFile \/ \E fault, phase : MpvFail(fault, phase)
    BY <1>4, <1>5, <2>2 DEF MpvRestart, MpvEndEarly, MpvNextFile, MpvFail
  <2>3. CASE MpvEof
    <3>1. mpv.phase \notin Loading
      BY <2>3 DEF MpvEof, Loading
    <3> QED
      BY <1>2, <2>3, <3>1, KeepsSpinner DEF MpvEof, daemonVars
  <2>4. CASE EngineExits
    BY <1>3, <2>4 DEF EngineExits, watcherVars
  <2> QED
    BY <1>11, <2>1, <2>2, <2>3, <2>4 DEF Environment, MpvResolvesLoad
<1> QED
  BY <1>6, <1>7, <1>8, <1>9, <1>10, <1>11 DEF Next

\* The spinner never turns over nothing: while it is up, mpv has a load that has not
\* rendered, or the lifecycle watcher an outcome to handle, whatever raced or failed.
THEOREM SpinnerCaused == Spec => []SpinnerHasCause
<1>1. Init => SpinnerInv
  BY DEF Init, SpinnerInv
<1>2. TypeOK /\ AttributionInv /\ SpinnerInv /\ [Next]_vars => SpinnerInv'
  <2> SUFFICES ASSUME TypeOK, AttributionInv, SpinnerInv, [Next]_vars PROVE SpinnerInv'
    OBVIOUS
  <2>1. CASE UNCHANGED vars
    <3>1. FailureInFlight' => FailureInFlight
      BY <2>1 DEF vars, FailureInFlight
    <3> QED
      BY <2>1, <3>1 DEF vars, SpinnerInv, Settling
  <2> QED
    BY <2>1, SpinnerStep DEF AttributionInv
<1>3. SpinnerInv => SpinnerHasCause
  BY DEF SpinnerInv, SpinnerHasCause, Settling
<1> QED
  BY <1>1, <1>2, <1>3, Attribution, PTL DEF Spec

-----------------------------------------------------------------------------
\* What the daemon knows of a load by the time it fails

\* A watcher that has handled the first `k` events of `q`, and had started `last`
\* before them, takes a FILE_LOADED that comes next for that of `entry`.
Started(q, last, k, entry) ==
  IF k = 0 THEN last = entry ELSE q[k].kind = "start" /\ q[k].entry = entry

\* Every FILE_LOADED, which carries no id, comes right behind its entry's START_FILE.
StartsLead(q, last) ==
  \A k \in 1..Len(q) : q[k].kind = "loaded" => Started(q, last, k - 1, q[k].entry)

\* An error is the last that is said of its entry.
ErrorsLast(q) ==
  \A j, k \in 1..Len(q) : j < k /\ q[j].kind = "error" => q[k].entry # q[j].entry

\* What mpv says next will keep that order.
OrderInv ==
  /\ StartsLead(asyncQ, routing.lastStarted)
  /\ mpv.phase = "starting" =>
       Started(asyncQ, routing.lastStarted, Len(asyncQ), mpv.entry)
  /\ ErrorsLast(asyncQ)
  /\ mpv.phase # "idle" =>
       \A e \in InFlight(asyncQ) : e.kind = "error" => e.entry # mpv.entry

\* The entries a queue of events has a FILE_LOADED for.
Openings(q) == {e.entry : e \in {g \in InFlight(q) : g.kind = "loaded"}}

\* A tracked load mpv has opened is known to be loaded, or word of it is on its way.
KnownInv ==
  \A l \in routing.current :
    /\ l.loaded => l.entry \in opened
    /\ l.entry \in opened => l.loaded \/ l.entry \in Openings(asyncQ)
    /\ l.entry \in Openings(asyncQ) => l.entry \in opened

\* Taking an event keeps the order of those behind it.
LEMMA OrderTaken ==
  ASSUME NEW q \in Seq(Events), q # <<>>, NEW last, NEW next, StartsLead(q, last),
         IF Head(q).kind = "start" THEN next = Head(q).entry ELSE next = last
  PROVE  /\ StartsLead(Tail(q), next)
         /\ \A entry : Started(q, last, Len(q), entry) =>
                         Started(Tail(q), next, Len(Tail(q)), entry)
         /\ ErrorsLast(q) => ErrorsLast(Tail(q))
<1>1. /\ Len(q) \in Nat /\ Len(q) >= 1 /\ Head(q) = q[1] /\ Len(Tail(q)) = Len(q) - 1
      /\ \A k \in 1..Len(Tail(q)) : k + 1 \in 1..Len(q) /\ Tail(q)[k] = q[k + 1]
  <2>1. Len(q) \in Nat /\ Len(q) >= 1 /\ Head(q) = q[1]
    OBVIOUS
  <2>2. Len(Tail(q)) = Len(q) - 1
    OBVIOUS
  <2> QED
    BY <2>1, <2>2
<1> DEFINE t == Tail(q)
<1> HIDE DEF t
<1>2. ASSUME NEW k \in 0..Len(t), NEW entry, Started(q, last, k + 1, entry)
      PROVE  Started(t, next, k, entry)
  <2>1. k + 1 # 0 /\ q[k + 1].kind = "start" /\ q[k + 1].entry = entry
    BY <1>1, <1>2 DEF Started, t
  <2>2. CASE k = 0
    BY <1>1, <2>1, <2>2 DEF Started
  <2>3. CASE k # 0
    BY <1>1, <2>1, <2>3 DEF Started, t
  <2> QED
    BY <2>2, <2>3
<1>3. StartsLead(t, next)
  <2> SUFFICES ASSUME NEW k \in 1..Len(t), t[k].kind = "loaded"
               PROVE  Started(t, next, k - 1, t[k].entry)
    BY DEF StartsLead
  <2>1. k + 1 \in 1..Len(q) /\ t[k] = q[k + 1]
    BY <1>1 DEF t
  <2>2. Started(q, last, (k + 1) - 1, t[k].entry)
    BY <2>1 DEF StartsLead
  <2>3. k - 1 \in 0..Len(t) /\ (k + 1) - 1 = (k - 1) + 1
    BY <1>1 DEF t
  <2> QED
    BY <1>2, <2>2, <2>3
<1>4. ASSUME NEW entry, Started(q, last, Len(q), entry)
      PROVE  Started(t, next, Len(t), entry)
  <2>1. Len(t) \in 0..Len(t) /\ Len(q) = Len(t) + 1
    BY <1>1 DEF t
  <2> QED
    BY <1>2, <1>4, <2>1
<1>5. ErrorsLast(q) => ErrorsLast(t)
  BY <1>1 DEF ErrorsLast, t
<1> QED
  BY <1>3, <1>4, <1>5 DEF t

\* So does an event put on the queue, if it is one that may come.
LEMMA OrderTold ==
  ASSUME NEW q \in Seq(Events), NEW e \in Events, NEW last
  PROVE  LET r == Append(q, e) IN
         /\ StartsLead(q, last) /\ (e.kind = "loaded" => Started(q, last, Len(q), e.entry))
              => StartsLead(r, last)
         /\ e.kind = "start" => Started(r, last, Len(r), e.entry)
         /\ ErrorsLast(q) /\ (\A g \in InFlight(q) : g.kind = "error" => e.entry # g.entry)
              => ErrorsLast(r)
<1> DEFINE r == Append(q, e)
<1>1. /\ Len(q) \in Nat /\ Len(r) = Len(q) + 1 /\ r[Len(q) + 1] = e
      /\ \A k \in 1..Len(q) : r[k] = q[k]
  OBVIOUS
<1> HIDE DEF r
<1>2. ASSUME NEW k \in 0..Len(q), NEW entry, Started(q, last, k, entry)
      PROVE  Started(r, last, k, entry)
  BY <1>1, <1>2 DEF Started
<1>3. ASSUME StartsLead(q, last), e.kind = "loaded" => Started(q, last, Len(q), e.entry)
      PROVE  StartsLead(r, last)
  <2> SUFFICES ASSUME NEW k \in 1..Len(r), r[k].kind = "loaded"
               PROVE  Started(r, last, k - 1, r[k].entry)
    BY DEF StartsLead
  <2>1. k - 1 \in 0..Len(q)
    BY <1>1
  <2>2. CASE k = Len(q) + 1
    <3>1. r[k] = e /\ k - 1 = Len(q)
      BY <1>1, <2>2
    <3> QED
      BY <1>2, <1>3, <2>1, <3>1
  <2>3. CASE k \in 1..Len(q)
    <3>1. r[k] = q[k]
      BY <1>1, <2>3
    <3> QED
      BY <1>2, <1>3, <2>1, <2>3, <3>1 DEF StartsLead
  <2> QED
    BY <1>1, <2>2, <2>3
<1>4. e.kind = "start" => Started(r, last, Len(r), e.entry)
  BY <1>1 DEF Started
<1>5. ASSUME ErrorsLast(q), \A g \in InFlight(q) : g.kind = "error" => e.entry # g.entry
      PROVE  ErrorsLast(r)
  <2> SUFFICES ASSUME NEW j \in 1..Len(r), NEW k \in 1..Len(r), j < k, r[j].kind = "error"
               PROVE  r[k].entry # r[j].entry
    BY DEF ErrorsLast
  <2>1. j \in 1..Len(q) /\ r[j] = q[j] /\ q[j] \in InFlight(q)
    BY <1>1 DEF InFlight
  <2>2. CASE k = Len(q) + 1
    BY <1>1, <1>5, <2>1, <2>2
  <2>3. CASE k \in 1..Len(q)
    BY <1>1, <1>5, <2>1, <2>3 DEF ErrorsLast
  <2> QED
    BY <1>1, <2>2, <2>3
<1> QED
  BY <1>3, <1>4, <1>5 DEF r

\* mpv tells something of the entry it is on.
LEMMA OrderOwn ==
  ASSUME TypeOK, OrderInv, mpv.phase # "idle",
         NEW kind \in {"start", "loaded", "ok", "error"}, Tell(kind),
         kind = "loaded" => mpv.phase = "starting"
  PROVE  /\ StartsLead(asyncQ', routing.lastStarted)
         /\ kind = "start" =>
              Started(asyncQ', routing.lastStarted, Len(asyncQ'), mpv.entry)
         /\ ErrorsLast(asyncQ')
<1> DEFINE e == [kind |-> kind, entry |-> mpv.entry]
<1>1. e \in Events /\ e.kind = kind /\ e.entry = mpv.entry
  BY DEF TypeOK, Events
<1>2. asyncQ' = Append(asyncQ, e) /\ asyncQ \in Seq(Events)
  BY DEF Tell, TypeOK
<1> HIDE DEF e
<1> QED
  BY <1>1, <1>2, OrderTold DEF OrderInv

\* mpv drops the entry it is on.
LEMMA OrderDropped ==
  ASSUME TypeOK, NEW q \in Seq(Events), NEW last, StartsLead(q, last), ErrorsLast(q),
         mpv.phase # "idle" => \A g \in InFlight(q) : g.kind = "error" => g.entry # mpv.entry
  PROVE  StartsLead(DroppedBy(q), last) /\ ErrorsLast(DroppedBy(q))
<1> DEFINE e == [kind |-> "ok", entry |-> mpv.entry]
<1>1. e \in Events /\ e.kind = "ok" /\ e.entry = mpv.entry
  BY DEF TypeOK, Events
<1>2. DroppedBy(q) = q \/ (mpv.phase # "idle" /\ DroppedBy(q) = Append(q, e))
  BY DEF DroppedBy
<1> HIDE DEF e
<1> QED
  BY <1>1, <1>2, OrderTold

\* No event in flight names an entry mpv has not handed out yet.
LEMMA OrderLoad ==
  ASSUME TypeOK, EntriesKnown, OrderInv, NEW item, MpvLoad(item),
         routing'.lastStarted = routing.lastStarted
  PROVE  OrderInv'
<1>1. StartsLead(asyncQ', routing.lastStarted) /\ ErrorsLast(asyncQ')
  BY OrderDropped DEF OrderInv, MpvLoad, TypeOK
<1>2. mpv'.phase = "queued" /\ mpv'.entry = entries + 1 /\ entries \in Nat
  BY DEF MpvLoad, TypeOK
<1>3. \A e \in InFlight(asyncQ') : e.entry \in 1..entries
  BY LoadKeepsEntries
<1> QED
  BY <1>1, <1>2, <1>3 DEF OrderInv

\* The routing table's last start, under each of its operations.
LEMMA LastStarted ==
  ASSUME NEW r \in Routings, NEW entry, NEW item, NEW probing, NEW rollback, NEW id
  PROVE  /\ Submit(r, entry, item, probing, rollback).lastStarted = r.lastStarted
         /\ StartFile(r, id).lastStarted = id
         /\ FileLoaded(r).lastStarted = r.lastStarted
         /\ Resolve(r, id).lastStarted = r.lastStarted
         /\ Cancel(r).lastStarted = r.lastStarted
BY DEF Routings, Submit, StartFile, FileLoaded, Resolve, Cancel

\* The order of mpv's events is kept by every step.
LEMMA OrderStep ==
  ASSUME TypeOK, EntriesKnown, OrderInv, Next
  PROVE  OrderInv'
<1>1. routing \in Routings /\ asyncQ \in Seq(Events) /\ entries \in Nat
  BY DEF TypeOK
<1>2. CASE UNCHANGED <<routing, mpv, asyncQ>>
  BY <1>2 DEF OrderInv
<1>3. CASE PageGoes
  BY <1>2, <1>3 DEF PageGoes
<1>4. ASSUME NEW item, NEW entry, NEW probing, NEW rollback,
             Submits(item, entry, probing, rollback)
      PROVE  OrderInv'
  BY <1>1, <1>4, LastStarted, OrderLoad DEF Submits
<1>5. CASE Cancels
  <2>1. routing'.lastStarted = routing.lastStarted
    BY <1>1, <1>5, LastStarted DEF Cancels
  <2>2. CASE MpvStop(asyncQ)
    <3>1. StartsLead(asyncQ', routing.lastStarted) /\ ErrorsLast(asyncQ')
      BY <1>1, <2>2, OrderDropped DEF OrderInv, MpvStop
    <3>2. mpv'.phase = "idle"
      BY <2>2 DEF MpvStop, MpvIdle
    <3> QED
      BY <2>1, <3>1, <3>2 DEF OrderInv
  <2>3. CASE UNCHANGED <<mpv, asyncQ>>
    BY <2>1, <2>3 DEF OrderInv
  <2> QED
    BY <1>5, <2>2, <2>3 DEF Cancels
<1>6. CASE Rotates
  BY <1>6, OrderLoad DEF Rotates
<1>7. ASSUME asyncQ # <<>>, UNCHANGED mpv, asyncQ' = Tail(asyncQ),
             IF Head(asyncQ).kind = "start"
             THEN routing'.lastStarted = Head(asyncQ).entry
             ELSE routing'.lastStarted = routing.lastStarted
      PROVE  OrderInv'
  <2> DEFINE next == routing'.lastStarted
  <2> HIDE DEF next
  <2>1. /\ StartsLead(Tail(asyncQ), next)
        /\ \A entry : Started(asyncQ, routing.lastStarted, Len(asyncQ), entry) =>
                        Started(Tail(asyncQ), next, Len(Tail(asyncQ)), entry)
        /\ ErrorsLast(Tail(asyncQ))
    BY <1>1, <1>7, OrderTaken DEF OrderInv, next
  <2>2. InFlight(Tail(asyncQ)) \subseteq InFlight(asyncQ)
    BY <1>7, TakingKeepsEntries
  <2> QED
    BY <1>7, <2>1, <2>2 DEF OrderInv, next
<1>8. CASE Attributes
  <2>1. asyncQ # <<>> /\ UNCHANGED mpv /\ asyncQ' = Tail(asyncQ)
    BY <1>8 DEF Attributes
  <2>2. IF Head(asyncQ).kind = "start"
        THEN routing'.lastStarted = Head(asyncQ).entry
        ELSE routing'.lastStarted = routing.lastStarted
    BY <1>1, <1>8, LastStarted DEF Attributes, OnAsync
  <2> QED
    BY <1>7, <2>1, <2>2
<1>9. ASSUME NEW f, AsyncFallBack(f)
      PROVE  OrderInv'
  <2>1. /\ asyncQ # <<>> /\ Head(asyncQ).kind = "error"
        /\ routing'.lastStarted = routing.lastStarted
    BY <1>1, <1>9, LastStarted DEF AsyncFallBack, OnAsync
  <2>2. CASE asyncQ' = Tail(asyncQ) /\ UNCHANGED mpv
    BY <1>7, <2>1, <2>2
  <2>3. CASE MpvStop(Tail(asyncQ))
    <3>1. Tail(asyncQ) \in Seq(Events) /\ InFlight(Tail(asyncQ)) \subseteq InFlight(asyncQ)
      BY <2>1, TakingKeepsEntries
    <3>2. StartsLead(Tail(asyncQ), routing.lastStarted) /\ ErrorsLast(Tail(asyncQ))
      BY <1>1, <2>1, OrderTaken DEF OrderInv
    <3>3. StartsLead(asyncQ', routing.lastStarted) /\ ErrorsLast(asyncQ')
      BY <2>3, <3>1, <3>2, OrderDropped DEF OrderInv, MpvStop
    <3>4. mpv'.phase = "idle"
      BY <2>3 DEF MpvStop, MpvIdle
    <3> QED
      BY <2>1, <3>3, <3>4 DEF OrderInv
  <2> QED
    BY <1>9, <2>2, <2>3 DEF AsyncFallBack
<1>10. ASSUME NEW kind \in {"start", "loaded", "none"}, Progresses(kind)
       PROVE  OrderInv'
  <2>1. mpv.phase # "idle" /\ mpv'.entry = mpv.entry /\ routing' = routing
    BY <1>10 DEF Progresses
  <2>2. CASE kind = "none"
    BY <1>10, <2>1, <2>2 DEF Progresses, Rendering, OrderInv
  <2>3. CASE kind # "none"
    <3>1. /\ Tell(kind) /\ kind \in {"start", "loaded"}
          /\ kind = "loaded" => mpv.phase = "starting"
          /\ mpv'.phase = "starting" => kind = "start"
      BY <1>10, <2>3 DEF Progresses
    <3>2. /\ StartsLead(asyncQ', routing.lastStarted)
          /\ kind = "start" =>
               Started(asyncQ', routing.lastStarted, Len(asyncQ'), mpv.entry)
          /\ ErrorsLast(asyncQ')
      BY <2>1, <3>1, OrderOwn
    <3>3. \A e \in InFlight(asyncQ') : e.kind = "error" => e \in InFlight(asyncQ)
      BY <3>1, InFlightTold
    <3> QED
      BY <2>1, <3>1, <3>2, <3>3 DEF OrderInv
  <2> QED
    BY <2>2, <2>3
<1>11. ASSUME NEW kind \in {"ok", "error"}, Finishes(kind)
       PROVE  OrderInv'
  <2>1. mpv'.phase = "idle" /\ mpv.phase # "idle" /\ Tell(kind) /\ routing' = routing
    BY <1>11 DEF Finishes, MpvIdle
  <2>2. StartsLead(asyncQ', routing.lastStarted) /\ ErrorsLast(asyncQ')
    BY <2>1, OrderOwn
  <2> QED
    BY <2>1, <2>2 DEF OrderInv
<1>12. ASSUME NEW kind \in {"ok", "error"}, GoesOn(kind)
       PROVE  OrderInv'
  <2>1. /\ mpv'.phase = "queued" /\ mpv'.entry = entries + 1 /\ mpv.phase # "idle"
        /\ Tell(kind) /\ routing' = routing
    BY <1>12 DEF GoesOn
  <2>2. StartsLead(asyncQ', routing.lastStarted) /\ ErrorsLast(asyncQ')
    BY <2>1, OrderOwn
  <2>3. \A e \in InFlight(asyncQ') : e.kind = "error" => e.entry \in 1..entries
    BY <2>1, InFlightTold DEF EntriesKnown
  <2> QED
    BY <1>1, <2>1, <2>2, <2>3 DEF OrderInv
<1> QED
  BY <1>2, <1>3, <1>4, <1>5, <1>6, <1>8, <1>9, <1>10, <1>11, <1>12, StepKinds

\* Which openings are still to be told, as events are taken and put on.
LEMMA OpeningsSteps ==
  ASSUME NEW q \in Seq(Events)
  PROVE  /\ q # <<>> =>
              Openings(q) = Openings(Tail(q))
                              \cup (IF Head(q).kind = "loaded" THEN {Head(q).entry} ELSE {})
         /\ \A e \in Events :
              Openings(Append(q, e))
                = Openings(q) \cup (IF e.kind = "loaded" THEN {e.entry} ELSE {})
<1>1. ASSUME q # <<>>
      PROVE  InFlight(q) = InFlight(Tail(q)) \cup {Head(q)}
  <2>1. Len(q) \in Nat /\ Len(q) >= 1 /\ Head(q) = q[1]
    BY <1>1
  <2>2. Len(Tail(q)) = Len(q) - 1
    BY <1>1
  <2>3. \A k \in 1..Len(Tail(q)) : Tail(q)[k] = q[k + 1]
    BY <1>1, <2>1, <2>2
  <2> DEFINE t == Tail(q)
  <2> HIDE DEF t
  <2>4. ASSUME NEW k \in 1..Len(q), k # 1
        PROVE  q[k] \in InFlight(t)
    <3>1. k - 1 \in 1..Len(t) /\ (k - 1) + 1 = k
      BY <2>1, <2>2, <2>4 DEF t
    <3>2. t[k - 1] = q[k]
      BY <2>3, <3>1 DEF t
    <3> QED
      BY <3>1, <3>2 DEF InFlight
  <2>5. InFlight(q) \subseteq InFlight(t) \cup {Head(q)}
    BY <2>1, <2>4 DEF InFlight
  <2> QED
    BY <1>1, <2>5, InFlightSteps DEF t
<1>2. ASSUME NEW e \in Events
      PROVE  InFlight(Append(q, e)) = InFlight(q) \cup {e}
  <2> DEFINE r == Append(q, e)
  <2>1. /\ Len(q) \in Nat /\ Len(r) = Len(q) + 1 /\ r[Len(q) + 1] = e
        /\ \A k \in 1..Len(q) : r[k] = q[k]
    OBVIOUS
  <2> HIDE DEF r
  <2>2. InFlight(q) \cup {e} \subseteq InFlight(r)
    BY <2>1 DEF InFlight
  <2> QED
    BY <2>2, InFlightSteps DEF r
<1>3. ASSUME q # <<>>
      PROVE  Openings(q) = Openings(Tail(q))
                             \cup (IF Head(q).kind = "loaded" THEN {Head(q).entry} ELSE {})
  BY <1>1, <1>3 DEF Openings
<1>4. ASSUME NEW e \in Events
      PROVE  Openings(Append(q, e))
               = Openings(q) \cup (IF e.kind = "loaded" THEN {e.entry} ELSE {})
  BY <1>2 DEF Openings
<1> QED
  BY <1>3, <1>4

\* What mpv tells is an opening or is none; a drop is none.
LEMMA OpeningsTold ==
  ASSUME TypeOK
  PROVE  /\ \A kind \in {"start", "ok", "error"} :
              Tell(kind) => Openings(asyncQ') = Openings(asyncQ)
         /\ Tell("loaded") => Openings(asyncQ') = Openings(asyncQ) \cup {mpv.entry}
         /\ \A q \in Seq(Events) : Openings(DroppedBy(q)) = Openings(q)
<1>1. asyncQ \in Seq(Events) /\ mpv.entry \in Nat
  BY DEF TypeOK
<1>2. ASSUME NEW kind \in {"start", "loaded", "ok", "error"}, NEW q \in Seq(Events)
      PROVE  Openings(Append(q, [kind |-> kind, entry |-> mpv.entry]))
               = Openings(q) \cup (IF kind = "loaded" THEN {mpv.entry} ELSE {})
  <2> DEFINE e == [kind |-> kind, entry |-> mpv.entry]
  <2>1. e \in Events /\ e.kind = kind /\ e.entry = mpv.entry
    BY <1>1 DEF Events
  <2> HIDE DEF e
  <2>2. Openings(Append(q, e)) = Openings(q) \cup (IF kind = "loaded" THEN {mpv.entry} ELSE {})
    BY <2>1, OpeningsSteps
  <2> QED
    BY <2>2 DEF e
<1>3. ASSUME NEW kind \in {"start", "ok", "error"}, Tell(kind)
      PROVE  Openings(asyncQ') = Openings(asyncQ)
  BY <1>1, <1>2, <1>3 DEF Tell
<1>4. ASSUME Tell("loaded")
      PROVE  Openings(asyncQ') = Openings(asyncQ) \cup {mpv.entry}
  BY <1>1, <1>2, <1>4 DEF Tell
<1>5. ASSUME NEW q \in Seq(Events)
      PROVE  Openings(DroppedBy(q)) = Openings(q)
  BY <1>2 DEF DroppedBy
<1> QED
  BY <1>3, <1>4, <1>5

\* Steps that mark no load as loaded, open nothing and lose no word of an opening.
LEMMA KeepsKnown ==
  ASSUME KnownInv, UNCHANGED opened, Openings(asyncQ') = Openings(asyncQ),
         \A m \in routing'.current : \E l \in routing.current :
           m.entry = l.entry /\ m.loaded = l.loaded
  PROVE  KnownInv'
BY DEF KnownInv

\* What the daemon knows of its load is kept by every step.
LEMMA KnownStep ==
  ASSUME TypeOK, EntriesKnown, OrderInv, KnownInv, Next
  PROVE  KnownInv'
<1>1. routing \in Routings /\ asyncQ \in Seq(Events) /\ entries \in Nat
  BY DEF TypeOK
<1>2. routing.current \subseteq Loads
  BY <1>1 DEF Routings
<1>3. CASE UNCHANGED <<routing, asyncQ, opened>>
  BY <1>3, KeepsKnown
<1>4. CASE PageGoes
  BY <1>3, <1>4 DEF PageGoes
<1>5. ASSUME NEW item, NEW entry, NEW probing, NEW rollback,
             Submits(item, entry, probing, rollback)
      PROVE  KnownInv'
  <2>1. opened' = {} /\ entry \in {0, entries + 1} /\ MpvLoad(item)
    BY <1>5 DEF Submits
  <2>2. \A l \in routing'.current : l.entry = entry /\ l.loaded = FALSE
    BY <1>1, <1>5 DEF Submits, Submit, Routings
  <2>3. \A e \in InFlight(asyncQ') : e.entry \in 1..entries
    BY <2>1, LoadKeepsEntries
  <2>4. entry \notin Openings(asyncQ')
    BY <1>1, <2>1, <2>3 DEF Openings
  <2> QED
    BY <2>1, <2>2, <2>4 DEF KnownInv
<1>6. CASE Cancels
  <2>1. \A m \in routing'.current : \E l \in routing.current :
          m.entry = l.entry /\ m.loaded = l.loaded
    <3>1. routing'.current = {[l EXCEPT !.probing = FALSE] : l \in routing.current}
      BY <1>1, <1>6 DEF Cancels, Cancel, Routings
    <3>2. \A l \in Loads : LET m == [l EXCEPT !.probing = FALSE]
                           IN  m.entry = l.entry /\ m.loaded = l.loaded
      BY DEF Loads
    <3> QED
      BY <1>2, <3>1, <3>2
  <2>2. Openings(asyncQ') = Openings(asyncQ) /\ UNCHANGED opened
    BY <1>1, <1>6, OpeningsTold DEF Cancels, MpvStop
  <2> QED
    BY <2>1, <2>2, KeepsKnown
<1>7. CASE Rotates
  <2>1. Openings(asyncQ') = Openings(asyncQ) /\ UNCHANGED <<opened, routing>>
    BY <1>1, <1>7, OpeningsTold DEF Rotates, MpvLoad
  <2> QED
    BY <2>1, KeepsKnown
<1>8. CASE Attributes
  <2>1. asyncQ # <<>> /\ asyncQ' = Tail(asyncQ) /\ UNCHANGED opened
    BY <1>8 DEF Attributes
  <2>2. Openings(asyncQ) = Openings(asyncQ') \cup (IF OnAsync("loaded")
                                                   THEN {Head(asyncQ).entry} ELSE {})
    BY <1>1, <2>1, OpeningsSteps DEF OnAsync
  <2>3. CASE OnAsync("loaded")
    <3>1. routing'.current = {[l EXCEPT !.loaded = @ \/ l.entry = routing.lastStarted] :
                              l \in routing.current}
      BY <1>1, <1>8, <2>3 DEF Attributes, OnAsync, FileLoaded, Routings
    <3>2. \A l \in Loads :
            LET m == [l EXCEPT !.loaded = @ \/ l.entry = routing.lastStarted]
            IN  m.entry = l.entry /\ m.loaded = (l.loaded \/ l.entry = routing.lastStarted)
      BY DEF Loads
    <3>3. \A m \in routing'.current : \E l \in routing.current :
            m.entry = l.entry /\ m.loaded = (l.loaded \/ l.entry = routing.lastStarted)
      <4> TAKE m \in routing'.current
      <4>1. PICK l \in routing.current :
              m = [l EXCEPT !.loaded = @ \/ l.entry = routing.lastStarted]
        BY <3>1
      <4>2. m.entry = l.entry /\ m.loaded = (l.loaded \/ l.entry = routing.lastStarted)
        BY <1>2, <3>2, <4>1
      <4> QED
        BY <4>2
    <3>4. routing.lastStarted = Head(asyncQ).entry
      <4>1. 1 \in 1..Len(asyncQ) /\ Head(asyncQ) = asyncQ[1] /\ 1 - 1 = 0
        BY <1>1, <2>1
      <4> QED
        BY <2>3, <4>1 DEF OnAsync, OrderInv, StartsLead, Started
    <3> QED
      BY <2>1, <2>2, <2>3, <3>3, <3>4 DEF KnownInv
  <2>4. CASE ~OnAsync("loaded")
    <3>1. routing'.current \subseteq routing.current
      BY <1>1, <1>8, <2>4 DEF Attributes, StartFile, Resolve, Routings
    <3> QED
      BY <2>1, <2>2, <2>4, <3>1, KeepsKnown
  <2> QED
    BY <2>3, <2>4
<1>9. ASSUME NEW f, AsyncFallBack(f)
      PROVE  KnownInv'
  <2>1. /\ asyncQ # <<>> /\ Head(asyncQ).kind # "loaded" /\ UNCHANGED opened
        /\ routing'.current \subseteq routing.current
    BY <1>1, <1>9 DEF AsyncFallBack, OnAsync, history, Resolve, Routings
  <2>2. Tail(asyncQ) \in Seq(Events)
    BY <2>1, TakingKeepsEntries
  <2>3. Openings(Tail(asyncQ)) = Openings(asyncQ)
    <3>1. Openings(asyncQ) = Openings(Tail(asyncQ)) \cup {}
      BY <1>1, <2>1, OpeningsSteps
    <3> QED
      BY <3>1
  <2>4. Openings(asyncQ') = Openings(asyncQ)
    BY <1>9, <2>2, <2>3, OpeningsTold DEF AsyncFallBack, MpvStop
  <2> QED
    BY <2>1, <2>4, KeepsKnown
<1>10. ASSUME NEW kind \in {"start", "loaded", "none"}, Progresses(kind)
       PROVE  KnownInv'
  <2>1. routing' = routing
    BY <1>10 DEF Progresses
  <2>2. CASE kind = "loaded"
    <3>1. /\ opened' = opened \cup {mpv.entry}
          /\ Openings(asyncQ') = Openings(asyncQ) \cup {mpv.entry}
      BY <1>10, <2>2, OpeningsTold DEF Progresses
    <3> QED
      BY <2>1, <3>1 DEF KnownInv
  <2>3. CASE kind # "loaded"
    <3>1. UNCHANGED opened /\ Openings(asyncQ') = Openings(asyncQ)
      BY <1>10, <2>3, OpeningsTold DEF Progresses
    <3> QED
      BY <2>1, <3>1, KeepsKnown
  <2> QED
    BY <2>2, <2>3
<1>11. ASSUME NEW kind \in {"ok", "error"}, Finishes(kind)
       PROVE  KnownInv'
  <2>1. UNCHANGED <<routing, opened>> /\ Openings(asyncQ') = Openings(asyncQ)
    BY <1>11, OpeningsTold DEF Finishes
  <2> QED
    BY <2>1, KeepsKnown
<1>12. ASSUME NEW kind \in {"ok", "error"}, GoesOn(kind)
       PROVE  KnownInv'
  <2>1. UNCHANGED <<routing, opened>> /\ Openings(asyncQ') = Openings(asyncQ)
    BY <1>12, OpeningsTold DEF GoesOn
  <2> QED
    BY <2>1, KeepsKnown
<1> QED
  BY <1>3, <1>4, <1>5, <1>6, <1>7, <1>8, <1>9, <1>10, <1>11, <1>12, StepKinds

\* The error of the tracked load finds the daemon knowing whether mpv had opened the
\* file, although FILE_LOADED names no entry and loads race: what decides between the
\* browser and an undone move is what mpv did.
THEOREM ErrorAttributed == Spec => []ErrorFindsLoadKnown
<1>1. Init => OrderInv /\ KnownInv
  BY DEF Init, OrderInv, KnownInv, StartsLead, Started, ErrorsLast, InFlight, NoRouting,
         MpvIdle
<1>2. TypeOK /\ AttributionInv /\ OrderInv /\ KnownInv /\ [Next]_vars
        => OrderInv' /\ KnownInv'
  <2> SUFFICES ASSUME TypeOK, AttributionInv, OrderInv, KnownInv, [Next]_vars
               PROVE  OrderInv' /\ KnownInv'
    OBVIOUS
  <2>1. CASE UNCHANGED vars
    BY <2>1 DEF vars, OrderInv, KnownInv
  <2> QED
    BY <2>1, OrderStep, KnownStep DEF AttributionInv
<1>3. TypeOK /\ OrderInv /\ KnownInv => ErrorFindsLoadKnown
  <2> SUFFICES ASSUME TypeOK, OrderInv, KnownInv, OnAsync("error"),
                      NEW l \in Tracked(routing, Head(asyncQ).entry)
               PROVE  l.loaded = (l.entry \in opened)
    BY DEF ErrorFindsLoadKnown
  <2>1. l \in routing.current /\ l.entry = Head(asyncQ).entry /\ l.loaded \in BOOLEAN
    BY DEF Tracked, TypeOK, Routings, Loads
  <2>2. /\ asyncQ \in Seq(Events) /\ Len(asyncQ) \in Nat /\ 1 \in 1..Len(asyncQ)
        /\ Head(asyncQ) = asyncQ[1]
    BY DEF TypeOK, OnAsync
  <2>3. \A k \in 1..Len(asyncQ) :
          asyncQ[k].kind = "loaded" => asyncQ[k].entry # l.entry
    <3> SUFFICES ASSUME NEW k \in 1..Len(asyncQ), asyncQ[k].kind = "loaded"
                 PROVE  asyncQ[k].entry # l.entry
      OBVIOUS
    <3>1. k # 1
      BY <2>2 DEF OnAsync
    <3>2. 1 < k
      BY <2>2, <3>1
    <3> QED
      BY <2>1, <2>2, <3>2 DEF OnAsync, OrderInv, ErrorsLast
  <2>4. l.entry \notin Openings(asyncQ)
    BY <2>3 DEF Openings, InFlight
  <2> QED
    BY <2>1, <2>4 DEF KnownInv
<1> QED
  BY <1>1, <1>2, <1>3, Attribution, PTL DEF Spec

-----------------------------------------------------------------------------
\* The screen as ScreenArbiter has it

\* What execute_play leaves of the queue: the move, unless it fails.
LEMMA PlayAtQueue ==
  ASSUME TypeOK, NEW q \in Queues, NEW i \in 1..Len(q.items), NEW f, PlayAt(q, i, f)
  PROVE  /\ queue'.items = q.items /\ queue'.nextId = q.nextId
         /\ queue'.position = IF f \in {"none", "entryId"} THEN i ELSE queue.position
<1> DEFINE rollback == [index |-> i, previous |-> queue.position]
           moved    == SetPosition(q, i)
<1>1. i \in Nat /\ q = [items |-> q.items, position |-> q.position, nextId |-> q.nextId]
  BY DEF Queues
<1>2. moved = [items |-> q.items, position |-> i, nextId |-> q.nextId]
  BY <1>1 DEF SetPosition
<1>3. Revert(moved, rollback)
        = [items |-> q.items, position |-> queue.position, nextId |-> q.nextId]
  BY <1>2 DEF Revert, SetPosition
<1> HIDE DEF moved, rollback
<1>4. CASE PlayWebpage(moved, rollback, f)
  BY <1>2, <1>3, <1>4 DEF PlayWebpage
<1>5. CASE PlayMedia(moved, rollback, f)
  BY <1>2, <1>3, <1>5 DEF PlayMedia
<1> QED
  BY <1>4, <1>5 DEF PlayAt, moved, rollback

\* What Queue::push leaves of it.
LEMMA PushQueue ==
  ASSUME NEW q \in Queues, NEW target \in Targets
  PROVE  LET r == Push(q, target) IN
         /\ Len(r.items) = Len(q.items) + 1 /\ Len(q.items) \in Nat
         /\ \A k \in 1..Len(q.items) : r.items[k] = q.items[k]
         /\ r.items[Len(q.items) + 1] = [id |-> q.nextId, target |-> target]
         /\ r.position = q.position /\ r.nextId = q.nextId + 1
<1>1. q.items \in Seq(Items)
  BY DEF Queues
<1> DEFINE item == [id |-> q.nextId, target |-> target]
<1> HIDE DEF item
<1>2. /\ Len(Append(q.items, item)) = Len(q.items) + 1 /\ Len(q.items) \in Nat
      /\ \A k \in 1..Len(q.items) : Append(q.items, item)[k] = q.items[k]
      /\ Append(q.items, item)[Len(q.items) + 1] = item
  BY <1>1
<1> QED
  BY <1>2 DEF Push, item

\* What the undoing of a failed load's move leaves of it.
LEMMA RevertQueue ==
  ASSUME NEW q \in Queues, NEW rollback
  PROVE  /\ Revert(q, rollback).items = q.items /\ Revert(q, rollback).nextId = q.nextId
         /\ Revert(q, rollback).position \in {q.position, rollback.previous}
BY DEF Revert, SetPosition, Queues

\* Items are numbered from 1, and there are no more than MaxItems.
IdsGiven(q) ==
  /\ q.nextId \in 1..(MaxItems + 1)
  /\ \A k \in 1..Len(q.items) : q.items[k].id \in 1..MaxItems

\* Playing an item and undoing its move change no id.
LEMMA QueueIds ==
  ASSUME TypeOK, NEW q \in Queues, IdsGiven(q)
  PROVE  /\ \A i \in 1..Len(q.items) : \A f : PlayAt(q, i, f) => IdsGiven(queue')
         /\ \A rollback : IdsGiven(Revert(q, rollback))
         /\ IdsGiven(Clear(q)) /\ \A i : IdsGiven(SetPosition(q, i))
<1>1. ASSUME NEW i \in 1..Len(q.items), NEW f, PlayAt(q, i, f)
      PROVE  IdsGiven(queue')
  BY <1>1, PlayAtQueue DEF IdsGiven
<1>2. ASSUME NEW rollback
      PROVE  IdsGiven(Revert(q, rollback))
  BY RevertQueue DEF IdsGiven
<1>3. ASSUME NEW i
      PROVE  IdsGiven(SetPosition(q, i))
  BY DEF IdsGiven, SetPosition, Queues
<1>4. IdsGiven(Clear(q))
  BY DEF IdsGiven, Clear
<1> QED
  BY <1>1, <1>2, <1>3, <1>4

\* A pushed item has one of the numbers that are left.
LEMMA PushIds ==
  ASSUME NEW q \in Queues, NEW target \in Targets, IdsGiven(q), q.nextId <= MaxItems
  PROVE  IdsGiven(Push(q, target))
<1> DEFINE r == Push(q, target)
<1>1. /\ Len(r.items) = Len(q.items) + 1 /\ Len(q.items) \in Nat
      /\ \A k \in 1..Len(q.items) : r.items[k] = q.items[k]
      /\ r.items[Len(q.items) + 1] = [id |-> q.nextId, target |-> target]
      /\ r.nextId = q.nextId + 1
  BY PushQueue
<1> HIDE DEF r
<1>2. MaxItems \in Nat /\ q.nextId \in 1..MaxItems /\ r.nextId \in 1..(MaxItems + 1)
  BY <1>1, CastingAssumption DEF IdsGiven
<1>3. ASSUME NEW k \in 1..Len(r.items)
      PROVE  r.items[k].id \in 1..MaxItems
  <2>1. CASE k \in 1..Len(q.items)
    BY <1>1, <2>1 DEF IdsGiven
  <2>2. CASE k = Len(q.items) + 1
    BY <1>1, <1>2, <2>2
  <2> QED
    BY <1>1, <2>1, <2>2
<1>4. IdsGiven(r)
  BY <1>2, <1>3 DEF IdsGiven
<1> QED
  BY <1>4 DEF r

\* No step gives an item another number.
LEMMA IdsStep ==
  ASSUME TypeOK, IdsGiven(queue), Next
  PROVE  IdsGiven(queue')
<1>1. queue \in Queues /\ queue.items \in Seq(Items)
  BY DEF TypeOK, Queues
<1>2. ASSUME NEW target \in Targets, NEW f, Play(target, f)
      PROVE  IdsGiven(queue')
  <2> DEFINE q == Push(queue, target)
  <2>1. q \in Queues /\ Len(q.items) \in 1..Len(q.items)
    BY <1>1, PushType
  <2>2. IdsGiven(q)
    BY <1>1, <1>2, PushIds DEF Play
  <2>3. PlayAt(q, Len(q.items), f) \/ queue' = q
    BY <1>2 DEF Play
  <2> HIDE DEF q
  <2> QED
    BY <2>1, <2>2, <2>3, QueueIds
<1>3. ASSUME NEW f, QueueJumpForward(f) \/ QueueJumpBackward(f) \/ EofAdvance(f)
      PROVE  IdsGiven(queue')
  BY <1>1, <1>3, QueueIds
     DEF QueueJumpForward, QueueJumpBackward, EofAdvance, HasNext, InQueue
<1>4. ASSUME NEW i, NEW f, QueueJumpToIndex(i, f)
      PROVE  IdsGiven(queue')
  BY <1>1, <1>4, QueueIds DEF QueueJumpToIndex, InQueue
<1>5. ASSUME NEW f, Stop(f) \/ QueueClear(f)
      PROVE  IdsGiven(queue')
  BY <1>1, <1>5, QueueIds DEF Stop, QueueClear
<1>6. CASE RotateWallpaper \/ LifeWatcher \/ EofNotice \/ EofNoNext \/ EofShowClock
           \/ Environment
  <2>1. queue' = queue
    BY <1>6
       DEF RotateWallpaper, LifeWatcher, LifeRestarted, LifeReveal, LifeRevealed,
           LifeEnded, LifeClear, LifeShowClock, shownByOthers, EofNotice, EofNoNext,
           EofShowClock, Environment, MpvResolvesLoad, MpvStart, MpvOpen, MpvRestart,
           MpvFail, MpvEndEarly, MpvRedirect, MpvEof, MpvNextFile, EngineExits, daemonVars
  <2> QED
    BY <2>1
<1>7. CASE AsyncWatcher
  <2>1. queue' = queue \/ \E rollback : queue' = Revert(queue, rollback)
    BY <1>7
       DEF AsyncWatcher, AsyncStart, AsyncLoaded, AsyncEnd, AsyncForeignError,
           AsyncPlaybackError, AsyncFallBack
  <2> QED
    BY <1>1, <2>1, QueueIds
<1> QED
  BY <1>2, <1>3, <1>4, <1>5, <1>6, <1>7 DEF Next, Command, EofWatcher

\* What the steps below may lean on.
ScreenFacts ==
  /\ TypeOK
  /\ AttributionInv
  /\ PageExcludesMedia
  /\ ErrorFindsLoadKnown
  /\ IdsGiven(queue)

\* Steps that take the cast off the screen, or decide its fate, and not both.
LEMMA Sheds ==
  ASSUME UNCHANGED wanted, Undecided' => Undecided,
         OnScreen' = OnScreen \/ (OnScreen' = Arbiter!Blank /\ Undecided' = Undecided)
  PROVE  [Arbiter!ByItself]_(Arbiter!arbiterVars)
<1>1. Undecided \in BOOLEAN /\ Undecided' \in BOOLEAN
  BY DEF Undecided
<1>2. CASE Undecided' = Undecided
  BY <1>2 DEF Arbiter!ByItself, Arbiter!Lose, Arbiter!arbiterVars
<1>3. CASE Undecided /\ ~Undecided'
  <2>1. Undecided' = FALSE /\ OnScreen' = OnScreen
    BY <1>1, <1>3
  <2> QED
    BY <1>3, <2>1 DEF Arbiter!ByItself, Arbiter!Settle
<1> QED
  BY <1>1, <1>2, <1>3

\* What is on screen stays there, or leaves it.
LEMMA OnScreenSteps ==
  ASSUME PageExcludesMedia
  PROVE  /\ page' = page /\ (OnCast' <=> OnCast) /\ mpv'.item = mpv.item
              => OnScreen' = OnScreen
         /\ page' = page /\ ~OnCast' => OnScreen' \in {OnScreen, Arbiter!Blank}
         /\ page' = Nothing /\ mpv' = mpv => OnScreen' \in {OnScreen, Arbiter!Blank}
BY DEF PageExcludesMedia, OnScreen, OnCast, Arbiter!Blank

\* No load becomes undecided unless it is submitted.
LEMMA UndecidedKept ==
  ASSUME Keeps(routing, routing'), opened \subseteq opened'
  PROVE  Undecided' => Undecided
BY DEF Keeps, Undecided

\* Whoever asks for an item gets the screen for it, or is refused.
LEMMA PlayAtArbiter ==
  ASSUME ScreenFacts, "mpvStop" \notin Faults, NEW q \in Queues, IdsGiven(q),
         NEW i \in 1..Len(q.items), NEW f, Outcome(f), PlayAt(q, i, f)
  PROVE  [Arbiter!Next]_(Arbiter!arbiterVars)
<1> DEFINE rollback == [index |-> i, previous |-> queue.position]
           moved    == SetPosition(q, i)
           item     == q.items[i]
<1>1. moved.items[moved.position] = item
  BY DEF SetPosition, Queues
<1>2. item.id \in 1..MaxItems /\ item.id # Nothing
  BY CastingAssumption DEF IdsGiven, Nothing
<1>3. PageExcludesMedia /\ routing \in Routings
  BY DEF ScreenFacts, TypeOK
<1> HIDE DEF rollback, moved, item
<1>4. CASE PlayMedia(moved, rollback, f)
  <2>1. CASE f = "loadfile"
    <3>1. page' = Nothing /\ UNCHANGED <<mpv, routing, opened, wanted>>
      BY <1>4, <2>1 DEF PlayMedia, PageHidden, history
    <3>2. Undecided' = Undecided
      BY <3>1 DEF Undecided
    <3> QED
      BY <1>3, <3>1, <3>2, OnScreenSteps, Sheds DEF Arbiter!Next
  <2>2. CASE f # "loadfile"
    <3>1. page' = Nothing /\ MpvLoad(item.id) /\ wanted' = item.id
      BY <1>1, <1>4, <2>2 DEF PlayMedia, PageHidden
    <3>2. OnScreen' = [by |-> "mpv", cast |-> item.id]
      BY <1>2, <3>1 DEF MpvLoad, OnScreen, OnCast
    <3>3. Undecided' \in BOOLEAN
      BY DEF Undecided
    <3> QED
      BY <1>2, <3>1, <3>2, <3>3 DEF Arbiter!Next, Arbiter!Show
  <2> QED
    BY <2>1, <2>2
<1>5. CASE PlayWebpage(moved, rollback, f)
  <2>1. ~Undecided'
    BY <1>3, <1>5, RoutingKeeps DEF PlayWebpage, Undecided
  <2>2. CASE f = "none"
    <3>1. page' = item.id /\ wanted' = item.id
      BY <1>1, <1>5, <2>2 DEF PlayWebpage, ShowPage
    <3>2. OnScreen' = [by |-> "browser", cast |-> item.id]
      BY <1>2, <3>1 DEF OnScreen
    <3> QED
      BY <1>2, <2>1, <3>1, <3>2 DEF Arbiter!Next, Arbiter!Show
  <2>3. CASE f # "none"
    <3>1. f \in {"badUrl", "spawn"}
      BY <1>5, <2>3 DEF PlayWebpage, Outcome
    <3>2. page' \in {page, Nothing} /\ UNCHANGED <<mpv, wanted>>
      BY <1>5, <3>1 DEF PlayWebpage, ShowPage
    <3>3. CASE page' = page
      <4>1. OnScreen' = OnScreen
        BY <3>2, <3>3 DEF OnScreen, OnCast
      <4> QED
        BY <2>1, <3>2, <4>1, Sheds DEF Arbiter!Next
    <3>4. CASE page' = Nothing /\ page # Nothing
      <4>1. ~Undecided
        BY <3>4 DEF ScreenFacts, AttributionInv, ProbeIsWanted, Undecided
      <4>2. Undecided' = Undecided
        BY <2>1, <4>1 DEF Undecided
      <4> QED
        BY <1>3, <3>2, <3>4, <4>2, OnScreenSteps, Sheds DEF Arbiter!Next
    <3> QED
      BY <3>2, <3>3, <3>4
  <2> QED
    BY <2>2, <2>3
<1> QED
  BY <1>4, <1>5 DEF PlayAt, moved, rollback, item

\* Whoever stops the daemon leaves nothing on the screen, now or later.
LEMMA StopArbiter ==
  ASSUME ScreenFacts, "mpvStop" \notin Faults, NEW f, Outcome(f), StopLocked(f)
  PROVE  Arbiter!Stop
<1>1. page' = Nothing /\ mpv' = MpvIdle /\ wanted' = Nothing
  BY DEF StopLocked, PageHidden, Outcome, MpvStop
<1>2. OnScreen' = Arbiter!Blank
  BY <1>1 DEF OnScreen, OnCast, MpvIdle, Arbiter!Blank
<1>3. routing \in Routings /\ ~Undecided'
  BY RoutingKeeps DEF ScreenFacts, TypeOK, StopLocked, Undecided
<1> QED
  BY <1>1, <1>2, <1>3 DEF Arbiter!Stop

\* mpv, the engine, the rotation and the watchers without an item to play: they take
\* casts off the screen, and bring back none but the undecided one.
LEMMA ItselfArbiter ==
  ASSUME ScreenFacts, "mpvStop" \notin Faults,
         RotateWallpaper \/ AsyncWatcher \/ LifeWatcher \/ Environment
  PROVE  [Arbiter!ByItself]_(Arbiter!arbiterVars)
<1>1. TypeOK /\ PageExcludesMedia /\ routing \in Routings
  BY DEF ScreenFacts, TypeOK
<1>2. ASSUME UNCHANGED <<routing, opened>>
      PROVE  Undecided' = Undecided
  BY <1>2 DEF Undecided
<1>3. CASE UNCHANGED <<routing, mpv, opened, page, wanted>>
  BY <1>2, <1>3, Sheds DEF OnScreen, OnCast
<1>4. CASE PageGoes
  BY <1>1, <1>2, <1>4, OnScreenSteps, Sheds DEF PageGoes
<1>5. CASE Rotates
  <2>1. page' = page /\ ~OnCast' /\ wanted' = wanted
    BY <1>5 DEF Rotates, MpvLoad, OnCast
  <2> QED
    BY <1>1, <1>2, <1>5, <2>1, OnScreenSteps, Sheds DEF Rotates
<1>6. CASE Attributes
  <2>1. UNCHANGED <<mpv, opened, page, wanted>>
    BY <1>6 DEF Attributes
  <2>2. Keeps(routing, routing')
    BY <1>1, <1>6, RoutingKeeps DEF Attributes, Keeps
  <2>3. OnScreen' = OnScreen
    BY <2>1 DEF OnScreen, OnCast
  <2> QED
    BY <2>1, <2>2, <2>3, UndecidedKept, Sheds
<1>7. ASSUME NEW f, AsyncFallBack(f)
      PROVE  [Arbiter!ByItself]_(Arbiter!arbiterVars)
  <2>1. PICK l \in Tracked(routing, Head(asyncQ).entry) :
          FallsBack(l) /\ ShowPage(l.item, f)
    BY <1>7 DEF AsyncFallBack
  <2>2. l \in routing.current /\ l.probing /\ ~l.loaded
    BY <2>1 DEF Tracked, FallsBack
  <2>3. Undecided
    BY <1>7, <2>1, <2>2
       DEF AsyncFallBack, ScreenFacts, ErrorFindsLoadKnown, Undecided
  <2>4. page = Nothing /\ ~OnCast /\ l.item = wanted
    BY <1>7, <2>2, FallbackOnNothing DEF ScreenFacts, AttributionInv, ProbeIsWanted
  <2>5. ~Undecided'
    <3>1. routing'.current = {}
      BY <1>1, <1>7, <2>1
         DEF AsyncFallBack, Resolve, Routings, Tracked, ScreenFacts, AttributionInv, OneLoad
    <3> QED
      BY <3>1 DEF Undecided
  <2>6. wanted' = wanted
    BY <1>7 DEF AsyncFallBack, history
  <2>7. mpv' = MpvIdle /\ ~OnCast'
    BY <1>7 DEF AsyncFallBack, Outcome, MpvStop, OnCast, MpvIdle
  <2>8. OnScreen = Arbiter!Blank
    BY <2>4 DEF OnScreen, Arbiter!Blank
  <2>9. CASE page' = Nothing
    <3>1. OnScreen' = OnScreen
      BY <2>7, <2>8, <2>9 DEF OnScreen, Arbiter!Blank
    <3> QED
      BY <2>5, <2>6, <3>1, Sheds
  <2>10. CASE page' # Nothing
    <3>1. page' = wanted
      BY <2>1, <2>4, <2>10 DEF ShowPage
    <3>2. OnScreen' = [by |-> "browser", cast |-> wanted]
      BY <2>10, <3>1 DEF OnScreen
    <3> QED
      BY <2>3, <2>5, <2>6, <2>8, <3>2 DEF Arbiter!ByItself, Arbiter!ShowAgain
  <2> QED
    BY <2>9, <2>10
<1>8. ASSUME NEW kind \in {"start", "loaded", "none"}, Progresses(kind)
      PROVE  [Arbiter!ByItself]_(Arbiter!arbiterVars)
  <2>1. /\ UNCHANGED <<routing, page, wanted>> /\ opened \subseteq opened'
        /\ mpv'.item = mpv.item /\ (OnCast' <=> OnCast)
    BY <1>8 DEF Progresses, Rendering, OnCast
  <2>2. Keeps(routing, routing')
    BY <2>1 DEF Keeps
  <2> QED
    BY <1>1, <2>1, <2>2, UndecidedKept, OnScreenSteps, Sheds
<1>9. ASSUME NEW kind, Finishes(kind)
      PROVE  [Arbiter!ByItself]_(Arbiter!arbiterVars)
  <2>1. UNCHANGED <<routing, opened, page, wanted>> /\ ~OnCast'
    BY <1>9 DEF Finishes, OnCast, MpvIdle
  <2> QED
    BY <1>1, <1>2, <2>1, OnScreenSteps, Sheds
<1>10. ASSUME NEW kind, GoesOn(kind)
       PROVE  [Arbiter!ByItself]_(Arbiter!arbiterVars)
  <2>1. /\ UNCHANGED <<routing, opened, page, wanted>>
        /\ mpv'.item = mpv.item /\ (OnCast' <=> OnCast)
    BY <1>10 DEF GoesOn, OnCast
  <2> QED
    BY <1>1, <1>2, <2>1, OnScreenSteps, Sheds
<1>11. ASSUME LifeWatcher
       PROVE  UNCHANGED <<routing, mpv, opened, page, wanted>>
  BY <1>11
     DEF LifeWatcher, LifeRestarted, LifeReveal, LifeRevealed, LifeEnded, LifeClear,
         LifeShowClock, shownByOthers, history
<1>12. ASSUME RotateWallpaper
       PROVE  Rotates
  BY <1>12 DEF RotateWallpaper, Rotates, history
<1> QED
  BY <1>1, <1>3, <1>4, <1>5, <1>6, <1>7, <1>8, <1>9, <1>10, <1>11, <1>12, AsyncKinds,
     EnvironmentKinds

\* Every step of the daemon is one of the arbiter, or none to it.
LEMMA StepArbiter ==
  ASSUME ScreenFacts, "mpvStop" \notin Faults, Next
  PROVE  [Arbiter!Next]_(Arbiter!arbiterVars)
<1>1. TypeOK /\ queue \in Queues /\ IdsGiven(queue) /\ PageExcludesMedia
  BY DEF ScreenFacts, TypeOK
<1>2. ASSUME UNCHANGED <<routing, mpv, opened, page, wanted>>
      PROVE  UNCHANGED Arbiter!arbiterVars
  BY <1>2 DEF Arbiter!arbiterVars, OnScreen, OnCast, Undecided
<1>3. ASSUME NEW f, Outcome(f), NEW i \in 1..Len(queue.items), PlayAt(queue, i, f)
      PROVE  [Arbiter!Next]_(Arbiter!arbiterVars)
  BY <1>1, <1>3, PlayAtArbiter
<1>4. ASSUME NEW target \in Targets, NEW f, Play(target, f)
      PROVE  [Arbiter!Next]_(Arbiter!arbiterVars)
  <2> DEFINE q == Push(queue, target)
  <2>1. q \in Queues /\ Len(q.items) \in 1..Len(q.items)
    BY <1>1, PushType
  <2>2. IdsGiven(q)
    BY <1>1, <1>4, PushIds DEF Play
  <2> HIDE DEF q
  <2>3. CASE Outcome(f) /\ PlayAt(q, Len(q.items), f)
    BY <2>1, <2>2, <2>3, PlayAtArbiter
  <2>4. CASE UNCHANGED <<routing, mpv, opened, page, wanted>>
    BY <1>2, <2>4
  <2> QED
    BY <1>4, <2>3, <2>4 DEF Play, history, q
<1>5. ASSUME NEW f, QueueJumpForward(f) \/ EofAdvance(f)
      PROVE  [Arbiter!Next]_(Arbiter!arbiterVars)
  BY <1>3, <1>5 DEF QueueJumpForward, EofAdvance, HasNext, InQueue
<1>6. ASSUME NEW f, QueueJumpBackward(f)
      PROVE  [Arbiter!Next]_(Arbiter!arbiterVars)
  BY <1>2, <1>3, <1>6 DEF QueueJumpBackward, InQueue, history
<1>7. ASSUME NEW i, NEW f, QueueJumpToIndex(i, f)
      PROVE  [Arbiter!Next]_(Arbiter!arbiterVars)
  BY <1>3, <1>7 DEF QueueJumpToIndex, InQueue
<1>8. ASSUME NEW f, Stop(f) \/ QueueClear(f)
      PROVE  [Arbiter!Next]_(Arbiter!arbiterVars)
  BY <1>8, StopArbiter DEF Stop, QueueClear, Arbiter!Next
<1>9. CASE EofNotice
  <2>1. /\ UNCHANGED <<routing, opened, page, wanted>>
        /\ mpv'.item = mpv.item /\ (OnCast' <=> OnCast)
    BY <1>1, <1>9 DEF EofNotice, OnCast, history, TypeOK
  <2>2. OnScreen' = OnScreen /\ Undecided' = Undecided
    BY <1>1, <2>1, OnScreenSteps DEF Undecided
  <2> QED
    BY <2>1, <2>2 DEF Arbiter!arbiterVars
<1>10. CASE EofNoNext \/ EofShowClock
  BY <1>2, <1>10 DEF EofNoNext, EofShowClock, history
<1>11. CASE RotateWallpaper \/ AsyncWatcher \/ LifeWatcher \/ Environment
  BY <1>11, ItselfArbiter DEF Arbiter!Next
<1> QED
  BY <1>4, <1>5, <1>6, <1>7, <1>8, <1>9, <1>10, <1>11 DEF Next, Command, EofWatcher

\* The daemon implements ScreenArbiter, as long as mpv obeys its `stop` command: casts
\* take the screen in one step, and nothing comes up unasked but the cast asked for
\* last, once, as a page, over nothing, when mpv could not open it.
THEOREM Arbitration ==
  ASSUME "mpvStop" \notin Faults
  PROVE  Spec => ImplementsArbiter
<1>1. Init => Arbiter!Init /\ IdsGiven(queue)
  BY CastingAssumption
     DEF Init, Arbiter!Init, Arbiter!Blank, OnScreen, OnCast, MpvIdle, Undecided, NoRouting,
         IdsGiven, EmptyQueue
<1>2. TypeOK /\ IdsGiven(queue) /\ [Next]_vars => IdsGiven(queue)'
  <2> SUFFICES ASSUME TypeOK, IdsGiven(queue), [Next]_vars PROVE IdsGiven(queue')
    BY DEF IdsGiven
  <2>1. CASE UNCHANGED vars
    BY <2>1 DEF vars
  <2> QED
    BY <2>1, IdsStep
<1>3. ScreenFacts /\ [Next]_vars
        => /\ [Arbiter!Next]_(Arbiter!arbiterVars)
           /\ [RotateWallpaper \/ AsyncWatcher \/ LifeWatcher \/ Environment
                => Arbiter!ByItself]_(Arbiter!arbiterVars)
  <2> SUFFICES ASSUME ScreenFacts, [Next]_vars
               PROVE  /\ [Arbiter!Next]_(Arbiter!arbiterVars)
                      /\ [RotateWallpaper \/ AsyncWatcher \/ LifeWatcher \/ Environment
                           => Arbiter!ByItself]_(Arbiter!arbiterVars)
    OBVIOUS
  <2>1. CASE UNCHANGED vars
    BY <2>1 DEF vars, Arbiter!arbiterVars, OnScreen, OnCast, Undecided
  <2> QED
    BY <2>1, StepArbiter, ItselfArbiter
<1>4. Spec => []ScreenFacts
  BY <1>1, <1>2, TypeCorrect, Attribution, OneEngine, ErrorAttributed, PTL
     DEF Spec, ScreenFacts
<1> QED
  BY <1>1, <1>3, <1>4, PTL DEF Spec, ImplementsArbiter, Arbiter!Spec

\* So mpv and the browser alike show the item asked for last, under every interleaving:
\* an invariant of ScreenArbiter, which the daemon inherits.
THEOREM ScreenWanted ==
  ASSUME "mpvStop" \notin Faults
  PROVE  Spec => []Arbiter!ShownIsAsked
<1>1. Arbiter!Init => Arbiter!ShownIsAsked
  BY DEF Arbiter!Init, Arbiter!ShownIsAsked
<1>2. Arbiter!ShownIsAsked /\ [Arbiter!Next]_(Arbiter!arbiterVars) => Arbiter!ShownIsAsked'
  BY DEF Arbiter!ShownIsAsked, Arbiter!Next, Arbiter!ByItself, Arbiter!Settle,
         Arbiter!Lose, Arbiter!ShowAgain, Arbiter!Stop, Arbiter!Show, Arbiter!arbiterVars
<1> QED
  BY <1>1, <1>2, Arbitration, PTL DEF ImplementsArbiter, Arbiter!Spec
=============================================================================
