---------------------------- MODULE PatientProofs ----------------------------
(***************************************************************************)
(* Proofs about Casting when senders wait for the watchers (Patient), the  *)
(* setting of the properties that an impatient sender can break. The calls *)
(* each theorem supposes to succeed are those that would break it too.     *)
(***************************************************************************)
EXTENDS CastingProofs

-----------------------------------------------------------------------------
\* The clock, and what plays under it

\* A call that fails at the wrong moment puts the clock over what keeps playing:
\* play_media's error paths, and a stop that mpv refuses.
ClockCallsSucceed == {"loadfile", "unpause", "mpvStop"} \cap Faults = {}

\* When the lifecycle watcher gets to its k-th event, the overlay is down: it is, or it
\* is on its way down, or an earlier event takes it down.
Unveiled(k) ==
  \/ ~overlay.active
  \/ Settling
  \/ \E j \in 1..Len(lifeQ) : j < k /\ lifeQ[j] = "restart"

\* No end of an entry the lifecycle watcher has still to handle finds the overlay up,
\* nor would the end of what is playing.
EndsHarmless ==
  /\ life \notin {"restoring", "showing"}
  /\ \A k \in 1..Len(lifeQ) : lifeQ[k] # "restart" => Unveiled(k)
  /\ mpv.phase \in Rendering => Unveiled(Len(lifeQ) + 1)

\* The inductive invariant behind ClockNeverOverCast: no watcher that is on its way to
\* the clock is overtaken by a cast.
ClockInv ==
  /\ ClockNeverOverCast
  /\ mpv.phase = "eof" => mpv.item # Nothing
  /\ eof \in {"noticed", "showing"} => ~CastLive
  /\ OnCast /\ ~overtaken => EndsHarmless

\* Steps that bring no cast on and leave the clock and the two watchers alone.
LEMMA KeepsClock ==
  ASSUME ClockInv, UNCHANGED <<idle, overlay, life, lifeQ, eof, overtaken>>,
         OnCast' => OnCast, CastLive' => CastLive,
         mpv'.phase = "eof" => mpv'.item # Nothing,
         mpv'.phase \in Rendering => mpv.phase \in Rendering
  PROVE  ClockInv'
<1>1. EndsHarmless => EndsHarmless'
  BY DEF EndsHarmless, Unveiled, Settling
<1> QED
  BY <1>1 DEF ClockInv, ClockNeverOverCast

\* Steps that leave no cast on.
LEMMA EndsClock ==
  ASSUME ~OnCast', mpv'.phase # "eof"
  PROVE  ClockInv'
BY DEF ClockInv, ClockNeverOverCast, CastLive

\* execute_play takes the clock down before mpv plays, and puts it up with mpv stopped.
LEMMA PlayAtClock ==
  ASSUME TypeOK, ClockInv, ClockCallsSucceed,
         NEW q, NEW i, NEW f, Outcome(f), PlayAt(q, i, f), UNCHANGED <<life, lifeQ>>,
         \/ eof' = "wait"
         \/ eof' = "showing" /\ f \notin {"none", "entryId"} /\ ~CastLive
  PROVE  ClockInv'
<1> DEFINE rollback == [index |-> i, previous |-> queue.position]
           moved    == SetPosition(q, i)
<1>1. f \notin {"loadfile", "unpause", "mpvStop"}
  BY DEF Outcome, ClockCallsSucceed
<1>2. CASE PlayWebpage(moved, rollback, f)
  <2>1. CASE f = "none"
    <3>1. mpv' = MpvIdle
      BY <1>2, <2>1 DEF PlayWebpage, MpvStop
    <3> QED
      BY <3>1, EndsClock DEF OnCast, MpvIdle
  <2>2. CASE f # "none"
    <3>1. UNCHANGED <<mpv, idle, overlay, overtaken>>
      BY <1>2, <2>2 DEF PlayWebpage
    <3>2. EndsHarmless => EndsHarmless'
      BY <3>1 DEF EndsHarmless, Unveiled, Settling
    <3> QED
      BY <3>1, <3>2 DEF ClockInv, ClockNeverOverCast, CastLive, OnCast
  <2> QED
    BY <2>1, <2>2
<1>3. CASE PlayMedia(moved, rollback, f)
  <2>1. /\ idle' = ClockHidden /\ f \in {"none", "entryId"}
        /\ overtaken' = ~LifeQuiet
        /\ \E item : MpvLoad(item)
    BY <1>1, <1>3 DEF PlayMedia
  <2>2. ~idle'.clock /\ mpv'.phase = "queued" /\ eof' = "wait"
    BY <2>1 DEF ClockHidden, MpvLoad
  <2>3. LifeQuiet => EndsHarmless'
    BY <2>2 DEF LifeQuiet, EndsHarmless, Rendering
  <2> QED
    BY <2>1, <2>2, <2>3 DEF ClockInv, ClockNeverOverCast
<1> QED
  BY <1>2, <1>3 DEF PlayAt

\* The lifecycle watcher raises the clock over nothing but an overtaken cast.
LEMMA LifeClock ==
  ASSUME TypeOK, ClockInv, LifeWatcher
  PROVE  ClockInv'
<1>1. lifeQ \in Seq({"restart", "error", "eof"})
  BY DEF TypeOK
<1>2. UNCHANGED <<mpv, eof, overtaken>>
  BY DEF LifeWatcher, LifeRestarted, LifeReveal, LifeRevealed, LifeEnded, LifeClear,
         LifeShowClock, shownByOthers, history
<1>3. ASSUME OnCast /\ ~overtaken => idle' = idle /\ EndsHarmless'
      PROVE  ClockInv'
  BY <1>2, <1>3 DEF ClockInv, ClockNeverOverCast, CastLive, OnCast
<1> SUFFICES ASSUME OnCast, ~overtaken
             PROVE  idle' = idle /\ EndsHarmless'
  BY <1>3
<1>4. EndsHarmless
  BY DEF ClockInv
<1>5. ASSUME ~overlay'.active \/ Settling', life' \notin {"restoring", "showing"}
      PROVE  EndsHarmless'
  BY <1>5 DEF EndsHarmless, Unveiled
<1>6. CASE LifeRestarted
  BY <1>5, <1>6 DEF LifeRestarted, Settling
<1>7. CASE LifeReveal
  <2>1. overlay'.revealing = overlay.active /\ overlay'.active = overlay.active
    BY <1>7 DEF LifeReveal, TypeOK
  <2> QED
    BY <1>5, <1>7, <2>1 DEF LifeReveal, Settling
<1>8. CASE LifeRevealed
  <2>1. CASE overlay.revealing
    <3>1. ~overlay'.active
      BY <1>8, <2>1 DEF LifeRevealed, OverlayCleared
    <3> QED
      BY <1>5, <1>8, <3>1 DEF LifeRevealed
  <2>2. CASE ~overlay.revealing
    <3>1. UNCHANGED <<overlay, lifeQ, idle>> /\ life = "revealing" /\ life' = "wait"
      BY <1>8, <2>2 DEF LifeRevealed
    <3>2. ~Settling
      BY <2>2, <3>1 DEF Settling
    <3> QED
      BY <1>2, <1>4, <3>1, <3>2 DEF EndsHarmless, Unveiled
  <2> QED
    BY <2>1, <2>2
<1>9. CASE LifeEnded
  <2>1. life = "wait" /\ lifeQ # <<>> /\ Head(lifeQ) # "restart"
    BY <1>9 DEF LifeEnded, OnLife
  <2>2. 1 \in 1..Len(lifeQ) /\ Head(lifeQ) = lifeQ[1]
    BY <1>1, <2>1
  <2>3. Unveiled(1)
    BY <1>4, <2>1, <2>2 DEF EndsHarmless
  <2>4. ~overlay.active
    BY <2>1, <2>3 DEF Unveiled, Settling
  <2>5. UNCHANGED <<overlay, life, idle>>
    BY <1>9, <2>4 DEF LifeEnded
  <2> QED
    BY <1>5, <2>1, <2>4, <2>5
<1>10. CASE LifeClear \/ LifeShowClock
  BY <1>4, <1>10 DEF LifeClear, LifeShowClock, EndsHarmless
<1> QED
  BY <1>6, <1>7, <1>8, <1>9, <1>10 DEF LifeWatcher

\* What mpv tells the lifecycle watcher finds the overlay down, or the cast overtaken.
LEMMA EnvironmentClock ==
  ASSUME TypeOK, ClockInv, Environment
  PROVE  ClockInv'
<1>1. lifeQ \in Seq({"restart", "error", "eof"}) /\ Len(lifeQ) \in Nat
  BY DEF TypeOK
<1>2. ASSUME UNCHANGED <<idle, overlay, life, lifeQ, eof, overtaken>>, mpv'.item = mpv.item,
             mpv.phase \in Loading, mpv'.phase \in Loading
      PROVE  ClockInv'
  <2>1. mpv.phase \notin {"idle", "ended"} /\ mpv'.phase \notin Rendering \cup {"eof"}
    BY <1>2 DEF Loading, Rendering
  <2> QED
    BY <1>2, <2>1, KeepsClock DEF OnCast, CastLive
<1>3. CASE MpvStart \/ MpvOpen
  <2>1. /\ UNCHANGED <<idle, overlay, life, lifeQ, eof, overtaken>> /\ mpv'.item = mpv.item
        /\ mpv.phase \in Loading /\ mpv'.phase \in Loading
    BY <1>3 DEF MpvStart, MpvOpen, TypeOK, Loading, daemonVars
  <2> QED
    BY <1>2, <2>1
<1>4. CASE MpvRedirect
  <2>1. PICK more \in 0..MaxMore :
          mpv' = [mpv EXCEPT !.entry = entries + 1, !.phase = "queued", !.more = @ + more]
    BY <1>4 DEF MpvRedirect
  <2>2. mpv'.item = mpv.item /\ mpv'.phase \in Loading
    BY <2>1 DEF TypeOK, Loading
  <2>3. UNCHANGED <<idle, overlay, life, lifeQ, eof, overtaken>> /\ mpv.phase \in Loading
    BY <1>4 DEF MpvRedirect, Loading, daemonVars
  <2> QED
    BY <1>2, <2>2, <2>3
<1>5. ASSUME NEW e \in {"restart", "error", "eof"}, lifeQ' = Append(lifeQ, e)
      PROVE  /\ Len(lifeQ') = Len(lifeQ) + 1 /\ lifeQ'[Len(lifeQ) + 1] = e
             /\ \A k \in 1..Len(lifeQ) : lifeQ'[k] = lifeQ[k]
  BY <1>1, <1>5
<1>6. ASSUME NEW e \in {"restart", "error", "eof"}, lifeQ' = Append(lifeQ, e),
             UNCHANGED <<overlay, life>>, NEW k \in 1..Len(lifeQ) + 1, Unveiled(k)
      PROVE  Unveiled(k)'
  BY <1>1, <1>5, <1>6 DEF Unveiled, Settling
<1>7. CASE MpvRestart
  <2>1. /\ mpv.phase = "opened" /\ mpv'.item = mpv.item /\ mpv'.phase = "playing"
        /\ lifeQ' = Append(lifeQ, "restart")
        /\ UNCHANGED <<idle, overlay, life, eof, overtaken>>
    BY <1>7 DEF MpvRestart, TypeOK, daemonVars
  <2>2. EndsHarmless => EndsHarmless'
    <3> SUFFICES ASSUME EndsHarmless PROVE EndsHarmless'
      OBVIOUS
    <3>1. Unveiled(Len(lifeQ) + 1)'
      <4>1. Len(lifeQ) + 1 \in 1..Len(lifeQ') /\ Len(lifeQ) + 1 < Len(lifeQ') + 1
            /\ lifeQ'[Len(lifeQ) + 1] = "restart"
        BY <1>1, <1>5, <2>1
      <4> QED
        BY <4>1 DEF Unveiled
    <3>2. ASSUME NEW k \in 1..Len(lifeQ'), lifeQ'[k] # "restart"
          PROVE  Unveiled(k)'
      <4>1. k \in 1..Len(lifeQ) /\ lifeQ[k] # "restart"
        BY <1>1, <1>5, <2>1, <3>2
      <4> QED
        BY <1>1, <1>6, <2>1, <4>1 DEF EndsHarmless
    <3> QED
      BY <2>1, <3>1, <3>2 DEF EndsHarmless
  <2> QED
    BY <2>1, <2>2 DEF ClockInv, ClockNeverOverCast, CastLive, OnCast
<1>8. ASSUME NEW e \in {"error", "eof"}, lifeQ' = Append(lifeQ, e), MpvGoesOn,
             mpv.phase \in {"starting", "opened", "playing"},
             UNCHANGED <<idle, overlay, life, eof>>,
             IF mpv.phase \in Loading THEN Overtake ELSE UNCHANGED overtaken
      PROVE  ClockInv'
  <2>1. CASE mpv.more = 0
    BY <1>8, <2>1, EndsClock DEF MpvGoesOn, OnCast, MpvIdle
  <2>2. CASE mpv.more # 0
    <3>1. mpv'.item = mpv.item /\ mpv'.phase = "queued" /\ mpv.more > 0
      <4>1. mpv' = [mpv EXCEPT !.entry = entries + 1, !.phase = "queued", !.more = @ - 1]
        BY <1>8, <2>2 DEF MpvGoesOn
      <4>2. mpv'.item = mpv.item /\ mpv'.phase = "queued"
        BY <4>1, MpvType DEF Mpvs
      <4> QED
        BY <2>2, <4>2, MpvType
    <3>2. overtaken \in BOOLEAN
      BY DEF TypeOK
    <3>3. overtaken => overtaken'
      BY <1>8 DEF Overtake
    <3>4. OnCast /\ ~overtaken' => Unveiled(Len(lifeQ) + 1)
      <4>1. CASE mpv.phase \in Loading
        BY <1>8, <3>1, <4>1 DEF Overtake, Unveiled
      <4>2. CASE mpv.phase \notin Loading
        BY <1>8, <3>3, <4>2 DEF ClockInv, EndsHarmless, Loading, Rendering
      <4> QED
        BY <4>1, <4>2
    <3>5. OnCast /\ ~overtaken' => EndsHarmless'
      <4> SUFFICES ASSUME OnCast, ~overtaken' PROVE EndsHarmless'
        OBVIOUS
      <4>1. EndsHarmless
        BY <3>3 DEF ClockInv
      <4>2. ASSUME NEW k \in 1..Len(lifeQ'), lifeQ'[k] # "restart"
            PROVE  Unveiled(k)'
        <5>1. CASE k = Len(lifeQ) + 1
          BY <1>1, <1>6, <1>8, <3>4, <5>1
        <5>2. CASE k # Len(lifeQ) + 1
          <6>1. k \in 1..Len(lifeQ) /\ lifeQ[k] # "restart"
            BY <1>1, <1>5, <1>8, <4>2, <5>2
          <6> QED
            BY <1>1, <1>6, <1>8, <4>1, <6>1 DEF EndsHarmless
        <5> QED
          BY <5>1, <5>2
      <4> QED
        BY <1>8, <3>1, <4>1, <4>2 DEF EndsHarmless, Rendering
    <3>6. (OnCast' => OnCast) /\ (CastLive' => CastLive)
      BY <1>8, <3>1 DEF OnCast, CastLive
    <3> QED
      BY <1>8, <3>1, <3>3, <3>5, <3>6 DEF ClockInv, ClockNeverOverCast
  <2> QED
    BY <2>1, <2>2
<1>9. CASE MpvEndEarly
  BY <1>8, <1>9 DEF MpvEndEarly, Loading, daemonVars
<1>10. ASSUME NEW fault, NEW phase \in {"starting", "opened", "playing"},
              MpvFail(fault, phase)
       PROVE  ClockInv'
  BY <1>8, <1>10 DEF MpvFail, daemonVars
<1>11. CASE MpvNextFile
  BY <1>8, <1>11 DEF MpvNextFile, Loading, daemonVars
<1>12. CASE MpvEof
  <2>1. /\ mpv.phase = "playing" /\ mpv.item # Nothing /\ mpv'.item = mpv.item
        /\ mpv'.phase = "eof"
        /\ UNCHANGED <<idle, overlay, life, lifeQ, eof, overtaken>>
    BY <1>12 DEF MpvEof, TypeOK, daemonVars
  <2> QED
    BY <2>1, KeepsClock DEF OnCast, CastLive, Rendering
<1>13. CASE EngineExits
  <2>1. UNCHANGED <<idle, overlay, life, lifeQ, eof, overtaken, mpv>>
    BY <1>13 DEF EngineExits, watcherVars, history
  <2> QED
    BY <2>1, KeepsClock DEF OnCast, CastLive, ClockInv
<1> QED
  BY <1>3, <1>4, <1>7, <1>9, <1>10, <1>11, <1>12, <1>13 DEF Environment, MpvResolvesLoad

\* The invariant is inductive.
LEMMA ClockStep ==
  ASSUME Patient, ClockCallsSucceed, TypeOK, ClockInv, Next
  PROVE  ClockInv'
<1>1. ASSUME UNCHANGED <<idle, overlay, life, lifeQ, eof, mpv, overtaken>>
      PROVE  ClockInv'
  BY <1>1, KeepsClock DEF OnCast, CastLive, ClockInv
<1>2. CASE Command
  <2>1. eof = "wait"
    BY <1>2
       DEF Command, Play, QueueJumpForward, QueueJumpBackward, QueueJumpToIndex, Stop,
           QueueClear, Enabled, CaughtUp
  <2>2. ASSUME NEW f, NEW q, NEW i, Outcome(f), PlayAt(q, i, f), UNCHANGED <<watcherVars, eof>>
        PROVE  ClockInv'
    BY <2>1, <2>2, PlayAtClock DEF watcherVars
  <2>3. ASSUME NEW f \in AllFaults \cup {"none"}, Outcome(f), StopLocked(f)
        PROVE  ClockInv'
    <3>1. mpv' = MpvIdle
      BY <2>3 DEF StopLocked, MpvStop, Outcome, ClockCallsSucceed
    <3> QED
      BY <3>1, EndsClock DEF OnCast, MpvIdle
  <2> QED
    BY <1>1, <1>2, <2>2, <2>3
       DEF Command, Play, QueueJumpForward, QueueJumpBackward, QueueJumpToIndex, Stop,
           QueueClear, watcherVars, history
<1>3. CASE RotateWallpaper
  <2>1. mpv'.phase = "queued" /\ mpv'.item = Nothing
    BY <1>3 DEF RotateWallpaper, MpvLoad
  <2> QED
    BY <2>1, EndsClock DEF OnCast
<1>4. CASE AsyncWatcher
  <2>1. ASSUME NEW f, AsyncFallBack(f)
        PROVE  ClockInv'
    <3>1. f # "mpvStop"
      BY <2>1 DEF AsyncFallBack, Outcome, ClockCallsSucceed
    <3>2. mpv' = MpvIdle
      BY <2>1, <3>1 DEF AsyncFallBack, MpvStop
    <3> QED
      BY <3>2, EndsClock DEF OnCast, MpvIdle
  <2> QED
    BY <1>1, <1>4, <2>1
       DEF AsyncWatcher, AsyncStart, AsyncLoaded, AsyncEnd, AsyncForeignError,
           AsyncPlaybackError, watcherVars, history
<1>5. CASE EofWatcher
  <2>1. CASE EofNotice
    <3>1. /\ mpv.phase = "eof" /\ mpv'.phase = "ended" /\ mpv'.item = mpv.item
          /\ eof' = "noticed" /\ UNCHANGED <<idle, overlay, life, lifeQ, overtaken>>
      BY <2>1 DEF EofNotice, TypeOK, watcherVars, history
    <3>2. EndsHarmless => EndsHarmless'
      BY <3>1 DEF EndsHarmless, Unveiled, Settling, Rendering
    <3> QED
      BY <3>1, <3>2 DEF ClockInv, ClockNeverOverCast, CastLive, OnCast
  <2>2. ASSUME NEW f, EofAdvance(f)
        PROVE  ClockInv'
    <3>1. ~CastLive
      BY <2>2 DEF EofAdvance, ClockInv
    <3> QED
      BY <2>2, <3>1, PlayAtClock DEF EofAdvance, watcherVars
  <2>3. CASE EofNoNext \/ EofShowClock
    <3>1. ~CastLive /\ UNCHANGED <<mpv, overlay, life, lifeQ, overtaken>>
      BY <2>3 DEF EofNoNext, EofShowClock, watcherVars, history, ClockInv
    <3>2. EndsHarmless => EndsHarmless'
      BY <3>1 DEF EndsHarmless, Unveiled, Settling
    <3> QED
      BY <3>1, <3>2 DEF ClockInv, ClockNeverOverCast, CastLive, OnCast
  <2> QED
    BY <1>5, <2>1, <2>2, <2>3 DEF EofWatcher
<1> QED
  BY <1>2, <1>3, <1>4, <1>5, LifeClock, EnvironmentClock DEF Next

\* It holds throughout.
LEMMA ClockHolds ==
  ASSUME Patient, ClockCallsSucceed
  PROVE  Spec => []ClockInv
<1>1. Init => ClockInv
  BY DEF Init, ClockInv, ClockNeverOverCast, CastLive, OnCast, MpvIdle
<1>2. TypeOK /\ ClockInv /\ [Next]_vars => ClockInv'
  <2> SUFFICES ASSUME TypeOK, ClockInv, [Next]_vars PROVE ClockInv'
    OBVIOUS
  <2>1. CASE UNCHANGED vars
    BY <2>1, KeepsClock DEF vars, ClockInv, CastLive, OnCast
  <2> QED
    BY <2>1, ClockStep
<1> QED
  BY <1>1, <1>2, TypeCorrect, PTL DEF Spec

\* The clock's opaque overlay is never over an item that loads or plays, although the
\* lifecycle and end-of-file watchers show it without the operation lock, unless an
\* entry mpv has left behind is taken for the one it went on to.
THEOREM ClockUnder ==
  ASSUME Patient, ClockCallsSucceed
  PROVE  Spec => []ClockNeverOverCast
<1>1. ClockInv => ClockNeverOverCast
  BY DEF ClockInv
<1> QED
  BY <1>1, ClockHolds, PTL

\* The wallpaper's rotation never clobbers genuine playback (maybe_rotate_wallpaper), but
\* for the same exception: it goes by the clock.
THEOREM RotationHarmless ==
  ASSUME Patient, ClockCallsSucceed
  PROVE  Spec => RotationNeverClobbers
<1>1. ClockInv => [RotateWallpaper => ~CastLive \/ overtaken]_vars
  BY DEF ClockInv, ClockNeverOverCast, RotateWallpaper
<1> QED
  BY <1>1, ClockHolds, PTL DEF RotationNeverClobbers

\* As long as a playlist holds one entry, nothing is left behind: the lifecycle watcher
\* has no end to handle while a cast is on, and the file that ended is still there when
\* the queue advances.
SingleInv ==
  /\ mpv.more = 0
  /\ ~overtaken
  /\ OnCast => LifeQuiet
  /\ eof = "noticed" => OnCast /\ mpv.phase = "ended" /\ ~idle.clock

\* execute_play with no end of an entry on its way.
LEMMA PlayAtSingle ==
  ASSUME TypeOK, SingleInv, LifeQuiet, UNCHANGED <<life, lifeQ>>,
         NEW q, NEW i, NEW f, PlayAt(q, i, f), eof' # "noticed"
  PROVE  SingleInv'
<1> DEFINE rollback == [index |-> i, previous |-> queue.position]
           moved    == SetPosition(q, i)
<1>1. LifeQuiet'
  BY DEF LifeQuiet
<1>2. CASE PlayWebpage(moved, rollback, f)
  <2>1. mpv' \in {mpv, MpvIdle} /\ overtaken' = overtaken
    BY <1>2 DEF PlayWebpage, MpvStop
  <2> QED
    BY <1>1, <2>1 DEF SingleInv, MpvIdle
<1>3. CASE PlayMedia(moved, rollback, f)
  <2>1. \/ UNCHANGED <<mpv, overtaken>>
        \/ ~overtaken' /\ \E item : MpvLoad(item)
    BY <1>3 DEF PlayMedia, history
  <2>2. mpv'.more = 0
    BY <2>1 DEF MpvLoad, SingleInv
  <2> QED
    BY <1>1, <2>1, <2>2 DEF SingleInv
<1> QED
  BY <1>2, <1>3 DEF PlayAt

\* The invariant is inductive.
LEMMA SingleStep ==
  ASSUME Patient, MaxMore = 0, TypeOK, AttributionInv, ClockInv, SingleInv, Next
  PROVE  SingleInv'
<1>1. /\ asyncQ \in Seq(Events) /\ lifeQ \in Seq({"restart", "error", "eof"})
      /\ mpv \in Mpvs
  BY MpvType DEF TypeOK
<1>2. ASSUME UNCHANGED <<mpv, life, lifeQ, overtaken, eof>>, eof = "noticed" => idle' = idle
      PROVE  SingleInv'
  BY <1>2 DEF SingleInv, OnCast, LifeQuiet
<1>3. ASSUME ~OnCast', mpv'.more = 0, overtaken' = overtaken, eof' # "noticed"
      PROVE  SingleInv'
  BY <1>3 DEF SingleInv
<1>4. CASE Command
  <2>1. eof = "wait" /\ LifeQuiet
    BY <1>4
       DEF Command, Play, QueueJumpForward, QueueJumpBackward, QueueJumpToIndex, Stop,
           QueueClear, Enabled, CaughtUp, LifeQuiet
  <2>2. ASSUME NEW f, NEW q, NEW i, PlayAt(q, i, f), UNCHANGED <<watcherVars, eof>>
        PROVE  SingleInv'
    BY <2>1, <2>2, PlayAtSingle DEF watcherVars
  <2>3. ASSUME NEW f, StopLocked(f)
        PROVE  SingleInv'
    <3>1. mpv' \in {mpv, MpvIdle} /\ UNCHANGED <<overtaken, life, lifeQ, eof>>
      BY <2>3 DEF StopLocked, MpvStop, watcherVars
    <3>2. mpv'.more = 0 /\ LifeQuiet' /\ eof' # "noticed"
      BY <2>1, <3>1 DEF SingleInv, MpvIdle, LifeQuiet
    <3> QED
      BY <3>1, <3>2 DEF SingleInv
  <2> QED
    BY <1>2, <1>4, <2>1, <2>2, <2>3
       DEF Command, Play, QueueJumpForward, QueueJumpBackward, QueueJumpToIndex, Stop,
           QueueClear, watcherVars, history
<1>5. CASE RotateWallpaper
  <2>1. /\ idle.clock /\ mpv'.item = Nothing /\ mpv'.more = 0
        /\ UNCHANGED <<overtaken, eof>>
    BY <1>5 DEF RotateWallpaper, MpvLoad, history
  <2> QED
    BY <1>3, <2>1 DEF OnCast, SingleInv
<1>6. CASE AsyncWatcher
  <2>1. ASSUME NEW f, AsyncFallBack(f)
        PROVE  SingleInv'
    <3>1. PICK l \in Tracked(routing, Head(asyncQ).entry) : FallsBack(l)
      BY <2>1 DEF AsyncFallBack
    <3>2. ~OnCast
      <4>1. Head(asyncQ) \in InFlight(asyncQ) /\ Head(asyncQ).kind = "error"
        BY <1>1, <2>1, TakingKeepsEntries DEF AsyncFallBack, OnAsync
      <4>2. l \in routing.current /\ l.entry = Head(asyncQ).entry
        BY <3>1 DEF Tracked
      <4> QED
        BY <4>1, <4>2 DEF AttributionInv, FailureLeftMpv
    <3>3. mpv' \in {mpv, MpvIdle} /\ UNCHANGED <<overtaken, eof>>
      BY <2>1 DEF AsyncFallBack, MpvStop, history
    <3>4. ~OnCast' /\ mpv'.more = 0 /\ eof' # "noticed"
      BY <3>2, <3>3 DEF OnCast, MpvIdle, SingleInv
    <3> QED
      BY <1>3, <3>3, <3>4
  <2> QED
    BY <1>2, <1>6, <2>1
       DEF AsyncWatcher, AsyncStart, AsyncLoaded, AsyncEnd, AsyncForeignError,
           AsyncPlaybackError, watcherVars, history
<1>7. CASE LifeWatcher
  <2>1. UNCHANGED <<mpv, overtaken, eof>>
    BY <1>7
       DEF LifeWatcher, LifeRestarted, LifeReveal, LifeRevealed, LifeEnded, LifeClear,
           LifeShowClock, shownByOthers, history
  <2>2. ASSUME OnCast
        PROVE  LifeQuiet' /\ idle' = idle
    <3>1. LifeQuiet
      BY <2>2 DEF SingleInv
    <3>2. ~LifeEnded /\ ~LifeClear /\ ~LifeShowClock
      <4>1. lifeQ # <<>> => 1 \in 1..Len(lifeQ) /\ Head(lifeQ) = lifeQ[1]
        BY <1>1
      <4> QED
        BY <3>1, <4>1 DEF LifeQuiet, LifeEnded, OnLife, LifeClear, LifeShowClock
    <3>3. /\ idle' = idle /\ life' \notin {"restoring", "showing"}
          /\ lifeQ' = lifeQ \/ (lifeQ # <<>> /\ lifeQ' = Tail(lifeQ))
      BY <1>7, <3>2 DEF LifeWatcher, LifeRestarted, LifeReveal, LifeRevealed, OnLife
    <3>4. \A k \in 1..Len(lifeQ') : lifeQ'[k] = "restart"
      <4>1. CASE lifeQ # <<>> /\ lifeQ' = Tail(lifeQ)
        <5>1. \A k \in 1..Len(lifeQ') : k + 1 \in 1..Len(lifeQ) /\ lifeQ'[k] = lifeQ[k + 1]
          BY <1>1, <4>1
        <5> QED
          BY <3>1, <5>1 DEF LifeQuiet
      <4> QED
        BY <3>1, <3>3, <4>1 DEF LifeQuiet
    <3> QED
      BY <3>3, <3>4 DEF LifeQuiet
  <2> QED
    BY <2>1, <2>2 DEF SingleInv, OnCast
<1>8. CASE EofWatcher
  <2>1. CASE EofNotice
    <3>1. /\ mpv.phase = "eof" /\ mpv' = [mpv EXCEPT !.phase = "ended"]
          /\ UNCHANGED <<idle, overtaken, life, lifeQ>>
      BY <2>1 DEF EofNotice, watcherVars, history
    <3>2. mpv'.phase = "ended" /\ mpv'.item = mpv.item /\ mpv'.more = mpv.more
      BY <1>1, <3>1 DEF Mpvs
    <3>3. OnCast /\ ~idle.clock
      BY <3>1 DEF ClockInv, ClockNeverOverCast, CastLive, OnCast, SingleInv
    <3> QED
      BY <3>1, <3>2, <3>3 DEF SingleInv, OnCast, LifeQuiet
  <2>2. ASSUME NEW f, EofAdvance(f)
        PROVE  SingleInv'
    BY <2>2, PlayAtSingle DEF EofAdvance, SingleInv, watcherVars
  <2>3. CASE EofNoNext \/ EofShowClock
    <3>1. UNCHANGED <<mpv, overtaken, life, lifeQ>> /\ eof' # "noticed"
      BY <2>3 DEF EofNoNext, EofShowClock, watcherVars, history
    <3> QED
      BY <3>1 DEF SingleInv, OnCast, LifeQuiet
  <2> QED
    BY <1>8, <2>1, <2>2, <2>3 DEF EofWatcher
<1>9. CASE Environment
  <2>1. CASE EngineExits
    BY <1>2, <2>1 DEF EngineExits, watcherVars, history
  <2>2. ASSUME ~EngineExits
        PROVE  /\ mpv.phase \notin {"idle", "ended"} /\ UNCHANGED <<idle, life, eof>>
               /\ mpv'.more = 0 /\ overtaken' = overtaken
               /\ mpv'.item \in {mpv.item, Nothing}
               /\ OnCast' => lifeQ' = lifeQ \/ lifeQ' = Append(lifeQ, "restart")
    <3>1. ASSUME NEW phase, MpvFail("openFails", phase) \/ MpvFail("loadFails", phase)
                            \/ MpvFail("playFails", phase),
                 phase \in {"starting", "opened", "playing"}
          PROVE  /\ mpv.phase = phase /\ mpv' = MpvIdle /\ UNCHANGED <<idle, life, eof>>
                 /\ overtaken' = overtaken
      BY <3>1 DEF MpvFail, MpvGoesOn, Overtake, SingleInv, TypeOK, daemonVars
    <3>2. CASE MpvEndEarly \/ MpvNextFile
      BY <3>2 DEF MpvEndEarly, MpvNextFile, MpvGoesOn, Overtake, SingleInv, TypeOK, daemonVars,
                  OnCast, MpvIdle
    <3>3. CASE MpvRedirect
      <4>1. PICK more \in 0..MaxMore :
              mpv' = [mpv EXCEPT !.entry = entries + 1, !.phase = "queued", !.more = @ + more]
        BY <3>3 DEF MpvRedirect
      <4>2. mpv'.more = 0 /\ mpv'.item = mpv.item
        BY <1>1, <4>1 DEF SingleInv, Mpvs
      <4> QED
        BY <3>3, <4>2 DEF MpvRedirect, daemonVars
    <3>4. CASE MpvStart \/ MpvOpen \/ MpvRestart \/ MpvEof
      <4>1. \E phase : mpv' = [mpv EXCEPT !.phase = phase]
        BY <3>4 DEF MpvStart, MpvOpen, MpvRestart, MpvEof
      <4>2. mpv'.more = 0 /\ mpv'.item = mpv.item
        BY <1>1, <4>1 DEF SingleInv, Mpvs
      <4> QED
        BY <3>4, <4>2 DEF MpvStart, MpvOpen, MpvRestart, MpvEof, daemonVars
    <3> QED
      BY <1>9, <2>2, <3>1, <3>2, <3>3, <3>4
         DEF Environment, MpvResolvesLoad, OnCast, MpvIdle
  <2>3. ASSUME ~EngineExits, OnCast'
        PROVE  LifeQuiet'
    <3>1. OnCast /\ life' = life
      BY <2>2, <2>3 DEF OnCast
    <3>2. \A k \in 1..Len(lifeQ') : lifeQ'[k] = "restart"
      BY <1>1, <2>2, <2>3, <3>1 DEF SingleInv, LifeQuiet
    <3> QED
      BY <3>1, <3>2 DEF SingleInv, LifeQuiet
  <2> QED
    BY <2>1, <2>2, <2>3 DEF SingleInv
<1> QED
  BY <1>4, <1>5, <1>6, <1>7, <1>8, <1>9 DEF Next

\* Where no playlist has a second entry there is no exception: the clock is not up over
\* an item that loads or plays, and the rotation clobbers nothing.
THEOREM SingleFileClock ==
  ASSUME Patient, ClockCallsSucceed, MaxMore = 0
  PROVE  Spec => [](idle.clock => ~CastLive)
<1>1. Init => SingleInv
  BY DEF Init, SingleInv, OnCast, MpvIdle
<1>2. TypeOK /\ AttributionInv /\ ClockInv /\ SingleInv /\ [Next]_vars => SingleInv'
  <2> SUFFICES ASSUME TypeOK, AttributionInv, ClockInv, SingleInv, [Next]_vars
               PROVE  SingleInv'
    OBVIOUS
  <2>1. CASE UNCHANGED vars
    BY <2>1 DEF vars, SingleInv, OnCast, LifeQuiet
  <2> QED
    BY <2>1, SingleStep
<1>3. ClockInv /\ SingleInv => (idle.clock => ~CastLive)
  BY DEF ClockInv, ClockNeverOverCast, SingleInv
<1> QED
  BY <1>1, <1>2, <1>3, Attribution, ClockHolds, PTL DEF Spec

-----------------------------------------------------------------------------
\* Which loads may still be found to have failed

\* mpv may still fail this entry, or has and the daemon does not know it yet.
MayFail(entry) ==
  \/ mpv.phase # "idle" /\ mpv.entry = entry
  \/ \E e \in InFlight(asyncQ) : e.kind = "error" /\ e.entry = entry

\* A step that brings in no load, and puts none in doubt that was settled.
KeepsFailures ==
  /\ Keeps(routing, routing')
  /\ entries <= entries'
  /\ \A entry \in 0..entries : MayFail(entry)' => MayFail(entry)

\* All steps are of this kind but the submission of a load.
LEMMA FailuresKept ==
  ASSUME TypeOK, EntriesKnown,
         \/ UNCHANGED <<routing, mpv, entries, asyncQ>>
         \/ PageGoes
         \/ Cancels
         \/ Rotates
         \/ Attributes
         \/ \E f : AsyncFallBack(f)
         \/ \E kind \in {"start", "loaded", "none"} : Progresses(kind)
         \/ \E kind \in {"ok", "error"} : Finishes(kind)
         \/ \E kind \in {"ok", "error"} : GoesOn(kind)
  PROVE  KeepsFailures
<1>1. routing \in Routings /\ asyncQ \in Seq(Events) /\ entries \in Nat
  BY DEF TypeOK
<1>2. Keeps(routing, routing)
  BY DEF Keeps
<1>3. ASSUME \A e \in InFlight(asyncQ') : e.kind = "error" => e \in InFlight(asyncQ),
             mpv'.phase = "idle" \/ (mpv.phase # "idle" /\ mpv'.entry = mpv.entry)
               \/ mpv'.entry > entries
      PROVE  \A entry \in 0..entries : MayFail(entry)' => MayFail(entry)
  BY <1>1, <1>3 DEF MayFail
<1>4. CASE UNCHANGED <<routing, mpv, entries, asyncQ>>
  BY <1>1, <1>2, <1>4 DEF KeepsFailures, MayFail
<1>5. CASE PageGoes
  BY <1>4, <1>5 DEF PageGoes
<1>6. CASE Cancels
  <2>1. Keeps(routing, routing') /\ entries' = entries
    BY <1>1, <1>6, RoutingKeeps DEF Cancels
  <2>2. CASE MpvStop(asyncQ)
    <3>1. \A e \in InFlight(asyncQ') : e.kind = "error" => e \in InFlight(asyncQ)
      BY <1>1, <2>1, <2>2, StopKeepsEntries
    <3>2. mpv'.phase = "idle"
      BY <2>2 DEF MpvStop, MpvIdle
    <3> QED
      BY <1>1, <1>3, <2>1, <3>1, <3>2 DEF KeepsFailures
  <2>3. CASE UNCHANGED <<mpv, asyncQ>>
    BY <1>1, <2>1, <2>3 DEF KeepsFailures, MayFail
  <2> QED
    BY <1>6, <2>2, <2>3 DEF Cancels
<1>7. CASE Rotates
  <2>1. \A e \in InFlight(asyncQ') : e.kind = "error" => e \in InFlight(asyncQ)
    BY <1>7, LoadKeepsEntries DEF Rotates
  <2>2. mpv'.entry > entries /\ entries' >= entries /\ routing' = routing
    BY <1>1, <1>7 DEF Rotates, MpvLoad
  <2> QED
    BY <1>2, <1>3, <2>1, <2>2 DEF KeepsFailures
<1>8. CASE Attributes
  <2>1. Keeps(routing, routing') /\ UNCHANGED <<mpv, entries>>
    BY <1>1, <1>2, <1>8, RoutingKeeps DEF Attributes
  <2>2. InFlight(asyncQ') \subseteq InFlight(asyncQ)
    BY <1>8, TakingKeepsEntries DEF Attributes
  <2> QED
    BY <1>1, <2>1, <2>2 DEF KeepsFailures, MayFail
<1>9. ASSUME NEW f, AsyncFallBack(f)
      PROVE  KeepsFailures
  <2>1. Keeps(routing, routing') /\ entries' = entries
    BY <1>1, <1>9, RoutingKeeps DEF AsyncFallBack
  <2>2. Tail(asyncQ) \in Seq(Events) /\ InFlight(Tail(asyncQ)) \subseteq InFlight(asyncQ)
    BY <1>9, TakingKeepsEntries DEF AsyncFallBack, OnAsync
  <2>3. CASE MpvStop(Tail(asyncQ))
    <3>1. \A e \in InFlight(asyncQ') : e.kind = "error" => e \in InFlight(asyncQ)
      BY <2>1, <2>2, <2>3, StopKeepsEntries
    <3>2. mpv'.phase = "idle"
      BY <2>3 DEF MpvStop, MpvIdle
    <3> QED
      BY <1>1, <1>3, <2>1, <3>1, <3>2 DEF KeepsFailures
  <2>4. CASE asyncQ' = Tail(asyncQ) /\ UNCHANGED mpv
    BY <1>1, <2>1, <2>2, <2>4 DEF KeepsFailures, MayFail
  <2> QED
    BY <1>9, <2>3, <2>4 DEF AsyncFallBack
<1>10. ASSUME NEW kind \in {"start", "loaded", "none"}, Progresses(kind)
       PROVE  KeepsFailures
  <2>1. \A e \in InFlight(asyncQ') : e.kind = "error" => e \in InFlight(asyncQ)
    BY <1>10, InFlightTold DEF Progresses
  <2>2. /\ mpv.phase # "idle" /\ mpv'.entry = mpv.entry
        /\ UNCHANGED <<routing, entries>>
    BY <1>10 DEF Progresses
  <2> QED
    BY <1>1, <1>2, <1>3, <2>1, <2>2 DEF KeepsFailures
<1>11. ASSUME NEW kind \in {"ok", "error"}, Finishes(kind)
       PROVE  KeepsFailures
  <2>1. \A e \in InFlight(asyncQ') :
          e.kind = "error" => e \in InFlight(asyncQ) \/ e.entry = mpv.entry
    BY <1>11, InFlightTold DEF Finishes
  <2>2. /\ mpv.phase # "idle" /\ mpv'.phase = "idle"
        /\ UNCHANGED <<routing, entries>>
    BY <1>11 DEF Finishes, MpvIdle
  <2> QED
    BY <1>1, <1>2, <2>1, <2>2 DEF KeepsFailures, MayFail
<1>12. ASSUME NEW kind \in {"ok", "error"}, GoesOn(kind)
       PROVE  KeepsFailures
  <2>1. \A e \in InFlight(asyncQ') :
          e.kind = "error" => e \in InFlight(asyncQ) \/ e.entry = mpv.entry
    BY <1>12, InFlightTold DEF GoesOn
  <2>2. /\ mpv.phase # "idle" /\ mpv'.entry = entries + 1 /\ entries' = entries + 1
        /\ routing' = routing
    BY <1>12 DEF GoesOn
  <2> QED
    BY <1>1, <1>2, <2>1, <2>2 DEF KeepsFailures, MayFail
<1> QED
  BY <1>4, <1>5, <1>6, <1>7, <1>8, <1>9, <1>10, <1>11, <1>12

-----------------------------------------------------------------------------
\* The position

Position(q, i) == i = NoPosition \/ InQueue(q, i)

\* The inductive invariant behind PositionInQueue: what a failure would go back to is
\* still there.
PositionInv ==
  /\ PositionInQueue
  /\ TrackedKnown
  /\ \A l \in routing.current : MayFail(l.entry) => Position(queue, l.rollback.previous)

\* A step that brings in no load keeps every load's entry below mpv's next.
LEMMA FailuresTracked ==
  ASSUME TypeOK, TypeOK', TrackedKnown, KeepsFailures
  PROVE  TrackedKnown'
<1> SUFFICES ASSUME NEW m \in routing'.current
             PROVE  m.entry <= entries'
  BY DEF TrackedKnown
<1>1. PICK l \in routing.current : m.entry = l.entry
  BY DEF KeepsFailures, Keeps
<1>2. l \in Loads /\ entries \in Nat /\ entries' \in Nat
  BY DEF TypeOK, Routings
<1> QED
  BY <1>1, <1>2 DEF TrackedKnown, KeepsFailures, Loads

\* Steps that bring in no load and take no item.
LEMMA KeepsPosition ==
  ASSUME TypeOK, TypeOK', PositionInv, KeepsFailures,
         Len(queue'.items) = Len(queue.items), Position(queue, queue'.position)
  PROVE  PositionInv'
<1>1. \A i : Position(queue, i) => Position(queue', i)
  BY DEF Position, InQueue
<1>2. PositionInQueue'
  BY <1>1 DEF Position, PositionInQueue
<1>3. ASSUME NEW m \in routing'.current, MayFail(m.entry)'
      PROVE  Position(queue', m.rollback.previous)
  <2>1. PICK l \in routing.current : m.entry = l.entry /\ m.rollback = l.rollback
    BY DEF KeepsFailures, Keeps
  <2>2. l.entry \in 0..entries
    <3>1. l \in Loads /\ entries \in Nat
      BY DEF TypeOK, Routings
    <3> QED
      BY <3>1 DEF PositionInv, TrackedKnown, Loads
  <2>3. MayFail(l.entry)
    BY <1>3, <2>1, <2>2 DEF KeepsFailures
  <2> QED
    BY <1>1, <2>1, <2>3 DEF PositionInv
<1> QED
  BY <1>2, <1>3, FailuresTracked DEF PositionInv

\* execute_play, with the item it is for already in the queue.
LEMMA PlayAtPosition ==
  ASSUME TypeOK, TypeOK', EntriesKnown, PositionInv,
         NEW q \in Queues, Len(q.items) >= Len(queue.items),
         NEW i \in 1..Len(q.items), NEW f, PlayAt(q, i, f)
  PROVE  PositionInv'
<1> DEFINE rollback == [index |-> i, previous |-> queue.position]
           moved    == SetPosition(q, i)
<1>1. /\ routing \in Routings /\ entries \in Nat /\ queue \in Queues
      /\ Len(queue.items) \in Nat /\ Len(q.items) \in Nat
  <2>1. queue.items \in Seq(Items) /\ q.items \in Seq(Items)
    BY DEF TypeOK, Queues
  <2>2. Len(queue.items) \in Nat /\ Len(q.items) \in Nat
    BY <2>1
  <2> QED
    BY <2>2 DEF TypeOK
<1>2. \A k : Position(queue, k) => Position(queue', k)
  BY <1>1, PlayAtQueue DEF Position, InQueue
<1>3. PositionInQueue'
  <2>1. Position(queue, queue.position) /\ InQueue(q, i)
    BY DEF PositionInv, PositionInQueue, Position, InQueue
  <2>2. Position(queue', queue'.position)
    BY <1>2, <2>1, PlayAtQueue DEF Position, InQueue
  <2> QED
    BY <2>2 DEF Position, PositionInQueue
<1>4. ASSUME KeepsFailures
      PROVE  PositionInv'
  <2>1. ASSUME NEW m \in routing'.current, MayFail(m.entry)'
        PROVE  Position(queue', m.rollback.previous)
    <3>1. PICK l \in routing.current : m.entry = l.entry /\ m.rollback = l.rollback
      BY <1>4 DEF KeepsFailures, Keeps
    <3>2. l.entry \in 0..entries
      <4>1. l \in Loads
        BY DEF TypeOK, Routings
      <4> QED
        BY <1>1, <4>1 DEF PositionInv, TrackedKnown, Loads
    <3> QED
      BY <1>2, <1>4, <2>1, <3>1, <3>2 DEF KeepsFailures, PositionInv
  <2> QED
    BY <1>3, <1>4, <2>1, FailuresTracked DEF PositionInv
<1>5. CASE PlayWebpage(moved, rollback, f)
  <2>1. Cancels
    BY <1>5 DEF PlayWebpage, ShowPage, Cancels
  <2> QED
    BY <1>4, <2>1, FailuresKept
<1>6. CASE PlayMedia(moved, rollback, f)
  <2>1. CASE f = "loadfile"
    <3>1. UNCHANGED <<routing, mpv, entries, asyncQ>>
      BY <1>6, <2>1 DEF PlayMedia, PageHidden
    <3> QED
      BY <1>4, <3>1, FailuresKept
  <2>2. CASE f # "loadfile"
    <3> DEFINE entry == IF f = "entryId" THEN 0 ELSE entries + 1
    <3>1. \E item, probing : routing' = Submit(routing, entry, item, probing, rollback)
      BY <1>6, <2>2 DEF PlayMedia, PageHidden
    <3>2. \A l \in routing'.current : l.entry = entry /\ l.rollback = rollback
      BY <1>1, <3>1 DEF Submit, Routings
    <3>3. entries' = entries + 1
      BY <1>6, <2>2 DEF PlayMedia, PageHidden, MpvLoad
    <3>4. Position(queue', queue.position)
      BY <1>2 DEF PositionInv, PositionInQueue, Position
    <3> QED
      BY <1>1, <1>3, <3>2, <3>3, <3>4 DEF PositionInv, TrackedKnown
  <2> QED
    BY <2>1, <2>2
<1> QED
  BY <1>5, <1>6 DEF PlayAt

\* With the queue cleared there is nothing to go back to, but no failure to come either.
LEMMA ClearPosition ==
  ASSUME TypeOK, TypeOK', EntriesKnown, PositionInv, asyncQ = <<>>,
         StopLocked("none"), queue' = Clear(queue)
  PROVE  PositionInv'
<1>1. KeepsFailures
  BY StopKinds, FailuresKept
<1>2. mpv'.phase = "idle" /\ asyncQ' = DroppedBy(asyncQ)
  BY DEF StopLocked, MpvStop, MpvIdle
<1>3. \A e \in InFlight(asyncQ') : e.kind # "error"
  <2>1. InFlight(asyncQ) = {}
    BY DEF InFlight
  <2>2. asyncQ \in Seq(Events)
    BY DEF TypeOK
  <2> QED
    BY <1>2, <2>1, <2>2, InFlightTold
<1>4. \A entry : ~MayFail(entry)'
  BY <1>2, <1>3 DEF MayFail
<1>5. PositionInQueue'
  BY DEF Clear, PositionInQueue
<1> QED
  BY <1>1, <1>4, <1>5, FailuresTracked DEF PositionInv

\* The invariant is inductive.
LEMMA PositionStep ==
  ASSUME Patient, TypeOK, TypeOK', EntriesKnown, PositionInv, Next
  PROVE  PositionInv'
<1>1. /\ queue \in Queues /\ routing \in Routings
      /\ queue.position \in Nat /\ Len(queue.items) \in Nat
  BY DEF TypeOK, Queues
<1>2. Position(queue, queue.position)
  BY DEF PositionInv, PositionInQueue, Position
<1>3. ASSUME KeepsFailures, queue' = queue
      PROVE  PositionInv'
  BY <1>2, <1>3, KeepsPosition
<1>4. CASE Command
  <2>1. ASSUME NEW f \in AllFaults \cup {"none"}, StopLocked(f), queue' = queue
        PROVE  PositionInv'
    BY <1>3, <2>1, StopKinds, FailuresKept
  <2>2. ASSUME NEW f, NEW target \in Targets, Play(target, f)
        PROVE  PositionInv'
    <3> DEFINE q == Push(queue, target)
    <3>1. /\ q \in Queues /\ Len(q.items) = Len(queue.items) + 1
          /\ Len(q.items) \in 1..Len(q.items) /\ q.position = queue.position
      BY <1>1, PushType, PushQueue
    <3> HIDE DEF q
    <3>2. CASE PlayAt(q, Len(q.items), f)
      BY <1>1, <3>1, <3>2, PlayAtPosition
    <3>3. CASE queue' = q /\ UNCHANGED <<routing, mpv, entries, asyncQ>>
      <4>1. \A k : Position(queue, k) => Position(queue', k)
        BY <1>1, <3>1, <3>3 DEF Position, InQueue
      <4>2. PositionInQueue'
        BY <1>2, <3>1, <3>3, <4>1 DEF Position, PositionInQueue
      <4> QED
        BY <3>3, <4>1, <4>2 DEF PositionInv, TrackedKnown, MayFail
    <3> QED
      BY <2>2, <3>2, <3>3 DEF Play, q
  <2>3. ASSUME NEW f, QueueJumpBackward(f)
        PROVE  PositionInv'
    <3>1. InQueue(queue, queue.position - 1)
      BY <1>1, <1>2, <2>3 DEF QueueJumpBackward, HasPrevious, Position, InQueue, NoPosition
    <3> QED
      BY <1>1, <2>3, <3>1, PlayAtPosition DEF QueueJumpBackward, InQueue
  <2>4. ASSUME NEW f, QueueJumpForward(f)
        PROVE  PositionInv'
    BY <1>1, <2>4, PlayAtPosition DEF QueueJumpForward, HasNext, InQueue
  <2>5. ASSUME NEW f, NEW i, QueueJumpToIndex(i, f)
        PROVE  PositionInv'
    BY <1>1, <2>5, PlayAtPosition DEF QueueJumpToIndex, InQueue
  <2>6. ASSUME NEW f \in AllFaults \cup {"none"}, QueueClear(f)
        PROVE  PositionInv'
    BY <2>1, <2>6, ClearPosition DEF QueueClear, Enabled, CaughtUp
  <2> QED
    BY <1>4, <2>1, <2>2, <2>3, <2>4, <2>5, <2>6 DEF Command, Stop
<1>5. CASE RotateWallpaper
  <2>1. Rotates /\ queue' = queue
    BY <1>5 DEF RotateWallpaper, Rotates, history
  <2> QED
    BY <1>3, <2>1, FailuresKept
<1>6. CASE AsyncWatcher
  <2>1. KeepsFailures
    BY <1>6, AsyncKinds, FailuresKept
  <2>2. \/ queue' = queue
        \/ /\ asyncQ # <<>> /\ Head(asyncQ).kind = "error"
           /\ \E l \in Tracked(routing, Head(asyncQ).entry) :
                queue' = Revert(queue, l.rollback)
    BY <1>6
       DEF AsyncWatcher, AsyncStart, AsyncLoaded, AsyncEnd, AsyncForeignError,
           AsyncPlaybackError, AsyncFallBack, OnAsync
  <2>3. ASSUME asyncQ # <<>>, Head(asyncQ).kind = "error",
               NEW l \in Tracked(routing, Head(asyncQ).entry),
               queue' = Revert(queue, l.rollback)
        PROVE  PositionInv'
    <3>1. MayFail(l.entry) /\ l \in routing.current
      BY <2>3, TakingKeepsEntries DEF Tracked, MayFail
    <3>2. Position(queue, l.rollback.previous)
      BY <3>1 DEF PositionInv
    <3>3. /\ queue'.items = queue.items
          /\ queue'.position \in {queue.position, l.rollback.previous}
      BY <1>1, <2>3, RevertQueue
    <3> QED
      BY <1>2, <2>1, <3>2, <3>3, KeepsPosition
  <2> QED
    BY <1>3, <2>1, <2>2, <2>3
<1>7. CASE LifeWatcher
  <2>1. UNCHANGED <<routing, mpv, entries, asyncQ, queue>>
    BY <1>7
       DEF LifeWatcher, LifeRestarted, LifeReveal, LifeRevealed, LifeEnded, LifeClear,
           LifeShowClock, shownByOthers
  <2> QED
    BY <1>3, <2>1, FailuresKept
<1>8. CASE EofWatcher
  <2>1. CASE EofNotice
    <3>1. Progresses("none") /\ queue' = queue
      BY <2>1 DEF EofNotice, Progresses, Rendering, TypeOK, history
    <3> QED
      BY <1>3, <3>1, FailuresKept
  <2>2. ASSUME NEW f, EofAdvance(f)
        PROVE  PositionInv'
    BY <1>1, <2>2, PlayAtPosition DEF EofAdvance, HasNext, InQueue
  <2>3. CASE EofNoNext \/ EofShowClock
    <3>1. UNCHANGED <<routing, mpv, entries, asyncQ, queue>>
      BY <2>3 DEF EofNoNext, EofShowClock
    <3> QED
      BY <1>3, <3>1, FailuresKept
  <2> QED
    BY <1>8, <2>1, <2>2, <2>3 DEF EofWatcher
<1>9. CASE Environment
  <2>1. queue' = queue
    BY <1>9
       DEF Environment, MpvResolvesLoad, MpvStart, MpvOpen, MpvRestart, MpvFail,
           MpvEndEarly, MpvRedirect, MpvEof, MpvNextFile, EngineExits, daemonVars
  <2> QED
    BY <1>3, <1>9, <2>1, EnvironmentKinds, FailuresKept
<1> QED
  BY <1>4, <1>5, <1>6, <1>7, <1>8, <1>9 DEF Next

\* It holds throughout.
LEMMA PositionHolds ==
  ASSUME Patient
  PROVE  Spec => []PositionInv
<1>1. Init => PositionInv
  BY DEF Init, PositionInv, PositionInQueue, TrackedKnown, EmptyQueue, NoRouting
<1>2. TypeOK /\ TypeOK' /\ AttributionInv /\ PositionInv /\ [Next]_vars => PositionInv'
  <2> SUFFICES ASSUME TypeOK, TypeOK', AttributionInv, PositionInv, [Next]_vars
               PROVE  PositionInv'
    OBVIOUS
  <2>1. CASE UNCHANGED vars
    BY <2>1 DEF vars, PositionInv, PositionInQueue, TrackedKnown, MayFail
  <2> QED
    BY <2>1, PositionStep DEF AttributionInv
<1> QED
  BY <1>1, <1>2, Attribution, PTL DEF Spec

\* The position sent to senders is None or an index into the queue, through jumps,
\* clears and the undoing of failed loads, whichever calls fail.
THEOREM PositionValid ==
  ASSUME Patient
  PROVE  Spec => []PositionInQueue
<1>1. PositionInv => PositionInQueue
  BY DEF PositionInv
<1> QED
  BY <1>1, PositionHolds, PTL

-----------------------------------------------------------------------------
\* The current item and the screen

\* An unpause that fails undoes the move to what plays on; a stop that fails leaves
\* media on that is no longer current.
ScreenCallsSucceed == {"unpause", "mpvStop"} \cap Faults = {}

\* The queue's current item is `item`.
Current(q, item) == InQueue(q, q.position) /\ q.items[q.position].id = item

\* No item has the id that stands for none.
IdsPositive(q) == q.nextId >= 1 /\ \A k \in 1..Len(q.items) : q.items[k].id >= 1

\* What mpv is on, if it is the tracked load, is its item.
TrackedIsItem ==
  \A l \in routing.current :
    mpv.phase # "idle" /\ mpv.entry = l.entry => mpv.item = l.item /\ l.item # Nothing

\* The inductive invariant behind ScreenIsCurrentItem: it holds for what is loading as
\* well, and nothing is shown while a move may still be undone.
ScreenInv ==
  /\ IdsPositive(queue)
  /\ OnCast => Current(queue, mpv.item)
  /\ page # Nothing => Current(queue, page) /\ ~FailureInFlight
  /\ eof = "noticed" => ~CastLive /\ ~FailureInFlight
  /\ \A l \in routing.current : l.probing => Current(queue, l.item)
  /\ TrackedIsItem
  /\ mpv.phase = "eof" => mpv.item # Nothing

\* Steps that bring nothing new on, and leave the queue alone.
LEMMA KeepsScreen ==
  ASSUME TypeOK, TrackedKnown, ScreenInv, UNCHANGED queue, Keeps(routing, routing'),
         page' \in {page, Nothing},
         OnCast' => OnCast /\ mpv'.item = mpv.item,
         FailureInFlight' => FailureInFlight \/ (page' = Nothing /\ eof' # "noticed"),
         eof' = "noticed" => eof = "noticed" /\ (CastLive' => CastLive),
         mpv'.phase # "idle" /\ mpv'.entry \in 0..entries
           => mpv.phase # "idle" /\ mpv'.entry = mpv.entry /\ mpv'.item = mpv.item,
         mpv'.phase = "eof" => mpv'.item # Nothing
  PROVE  ScreenInv'
<1>1. TrackedIsItem'
  <2> SUFFICES ASSUME NEW m \in routing'.current,
                      mpv'.phase # "idle", mpv'.entry = m.entry
               PROVE  mpv'.item = m.item /\ m.item # Nothing
    BY DEF TrackedIsItem
  <2>1. PICK l \in routing.current : m.entry = l.entry /\ m.item = l.item
    BY DEF Keeps
  <2>2. l \in Loads /\ entries \in Nat
    BY DEF TypeOK, Routings
  <2>3. l.entry \in 0..entries
    BY <2>2 DEF TrackedKnown, Loads
  <2> QED
    BY <2>1, <2>3 DEF ScreenInv, TrackedIsItem
<1>2. \A m \in routing'.current : m.probing => Current(queue', m.item)
  BY DEF Keeps, ScreenInv
<1> QED
  BY <1>1, <1>2 DEF ScreenInv

\* With the screen empty and no load tracked, or none for the browser, nothing is owed.
LEMMA EmptyScreen ==
  ASSUME ~OnCast', page' = Nothing, eof' # "noticed", IdsPositive(queue'),
         \A l \in routing'.current : ~l.probing, TrackedIsItem',
         mpv'.phase = "eof" => mpv'.item # Nothing
  PROVE  ScreenInv'
BY DEF ScreenInv

\* No step but mpv's own puts a failure on its way.
LEMMA KeepsFailure ==
  ASSUME Keeps(routing, routing'),
         \A e \in InFlight(asyncQ') : e.kind = "error" => e \in InFlight(asyncQ)
  PROVE  FailureInFlight' => FailureInFlight
BY DEF FailureInFlight, Keeps

\* execute_play puts the item at its position on the screen, or leaves what was there
\* current.  It is not called while a failure is on its way.
LEMMA PlayAtScreen ==
  ASSUME TypeOK, EntriesKnown, TrackedKnown, ScreenInv, ScreenCallsSucceed,
         ~FailureInFlight, eof' # "noticed",
         NEW q \in Queues, IdsPositive(q), Len(q.items) >= Len(queue.items),
         \A k \in 1..Len(queue.items) : q.items[k] = queue.items[k],
         NEW i \in 1..Len(q.items), NEW f, Outcome(f), PlayAt(q, i, f)
  PROVE  ScreenInv'
<1> DEFINE rollback == [index |-> i, previous |-> queue.position]
           moved    == SetPosition(q, i)
           item     == q.items[i]
<1>1. /\ routing \in Routings /\ entries \in Nat /\ asyncQ \in Seq(Events)
      /\ Len(queue.items) \in Nat /\ Len(q.items) \in Nat
  <2>1. queue.items \in Seq(Items) /\ q.items \in Seq(Items)
    BY DEF TypeOK, Queues
  <2>2. Len(queue.items) \in Nat /\ Len(q.items) \in Nat
    BY <2>1
  <2> QED
    BY <2>2 DEF TypeOK
<1>2. /\ queue'.items = q.items /\ queue'.nextId = q.nextId
      /\ queue'.position = IF f \in {"none", "entryId"} THEN i ELSE queue.position
  BY PlayAtQueue
<1>3. IdsPositive(queue')
  BY <1>2 DEF IdsPositive
<1>4. f \notin {"none", "entryId"} => \A x : Current(queue, x) => Current(queue', x)
  BY <1>1, <1>2 DEF Current, InQueue
<1>5. f \in {"none", "entryId"} => Current(queue', item.id)
  BY <1>1, <1>2 DEF Current, InQueue
<1>6. moved.items = q.items /\ moved.position = i /\ item.id # Nothing
  <2>1. i \in Nat
    OBVIOUS
  <2>2. item.id >= 1
    BY DEF IdsPositive
  <2> QED
    BY <2>1, <2>2 DEF SetPosition, Queues, Nothing
<1> HIDE DEF moved, item, rollback
<1>7. f \notin {"unpause", "mpvStop"}
  BY DEF Outcome, ScreenCallsSucceed
<1>8. CASE PlayWebpage(moved, rollback, f)
  <2>1. Keeps(routing, routing') /\ \A l \in routing'.current : ~l.probing
    BY <1>1, <1>8, RoutingKeeps DEF PlayWebpage
  <2>2. CASE f = "none"
    <3>1. /\ page' = item.id /\ mpv'.phase = "idle" /\ MpvStop(asyncQ)
          /\ entries' = entries
      BY <1>6, <1>8, <2>2 DEF PlayWebpage, ShowPage, MpvStop, MpvIdle, item
    <3>2. \A e \in InFlight(asyncQ') : e.kind = "error" => e \in InFlight(asyncQ)
      BY <1>1, <3>1, StopKeepsEntries
    <3>3. ~FailureInFlight'
      BY <2>1, <3>2, KeepsFailure
    <3> QED
      BY <1>3, <1>5, <2>1, <2>2, <3>1, <3>3 DEF ScreenInv, OnCast, TrackedIsItem
  <2>3. CASE f # "none"
    <3>1. /\ UNCHANGED <<mpv, asyncQ>> /\ page' \in {page, Nothing}
          /\ f \notin {"none", "entryId"}
      BY <1>7, <1>8, <2>3 DEF PlayWebpage, ShowPage
    <3>2. ~FailureInFlight'
      BY <2>1, <3>1, KeepsFailure
    <3>3. TrackedIsItem'
      BY <2>1, <3>1 DEF ScreenInv, TrackedIsItem, Keeps
    <3> QED
      BY <1>3, <1>4, <2>1, <3>1, <3>2, <3>3 DEF ScreenInv, OnCast
  <2> QED
    BY <2>2, <2>3
<1>9. CASE PlayMedia(moved, rollback, f)
  <2>1. page' = Nothing
    BY <1>9 DEF PlayMedia, PageHidden
  <2>2. CASE f = "loadfile"
    <3>1. UNCHANGED <<routing, mpv>>
      BY <1>9, <2>2 DEF PlayMedia, PageHidden
    <3> QED
      BY <1>3, <1>4, <2>1, <2>2, <3>1 DEF ScreenInv, OnCast, TrackedIsItem
  <2>3. CASE f # "loadfile"
    <3> DEFINE entry == IF f = "entryId" THEN 0 ELSE entries + 1
    <3>1. /\ f \in {"none", "entryId"} /\ MpvLoad(item.id)
          /\ \E probing : routing' = Submit(routing, entry, item.id, probing, rollback)
      BY <1>6, <1>7, <1>9, <2>3 DEF PlayMedia, PageHidden, item
    <3>2. \A l \in routing'.current : l.entry = entry /\ l.item = item.id
      BY <1>1, <3>1 DEF Submit, Routings
    <3>3. mpv'.item = item.id /\ mpv'.phase = "queued"
      BY <3>1 DEF MpvLoad
    <3> QED
      BY <1>3, <1>5, <1>6, <2>1, <3>1, <3>2, <3>3 DEF ScreenInv, TrackedIsItem
  <2> QED
    BY <2>2, <2>3
<1> QED
  BY <1>8, <1>9 DEF PlayAt, moved, rollback

\* stop_locked leaves an empty screen.
LEMMA StopScreen ==
  ASSUME TypeOK, StopLocked("none"), eof # "noticed", IdsPositive(queue')
  PROVE  ScreenInv'
<1>1. mpv'.phase = "idle" /\ page' = Nothing /\ eof' # "noticed"
  BY DEF StopLocked, MpvStop, MpvIdle, PageHidden
<1>2. \A l \in routing'.current : ~l.probing
  BY RoutingKeeps DEF StopLocked, PageHidden, TypeOK
<1> QED
  BY <1>1, <1>2, EmptyScreen DEF OnCast, TrackedIsItem

\* Everything the steps below may take from the other invariants.
ScreenContext ==
  TypeOK /\ AttributionInv /\ PageExcludesMedia /\ PositionInv /\ ScreenInv

\* Commands keep the invariant.
LEMMA CommandScreen ==
  ASSUME Patient, ScreenCallsSucceed, ScreenContext, Command
  PROVE  ScreenInv'
<1>1. /\ TypeOK /\ EntriesKnown /\ TrackedKnown /\ ScreenInv /\ queue \in Queues
      /\ PositionInQueue /\ IdsPositive(queue)
  BY DEF ScreenContext, AttributionInv, PositionInv, ScreenInv, TypeOK
<1>2. queue.position \in Nat /\ Len(queue.items) \in Nat
  <2>1. queue.items \in Seq(Items) /\ queue.position \in Nat
    BY <1>1 DEF Queues
  <2> QED
    BY <2>1
<1>3. CaughtUp
  BY DEF Command, Play, QueueJumpForward, QueueJumpBackward, QueueJumpToIndex, Stop,
         QueueClear, Enabled
<1>4. ~FailureInFlight /\ eof = "wait"
  BY <1>3 DEF CaughtUp, FailureInFlight, InFlight
<1>5. ASSUME NEW f, Outcome(f), NEW i \in 1..Len(queue.items), PlayAt(queue, i, f), eof' = eof
      PROVE  ScreenInv'
  BY <1>1, <1>2, <1>4, <1>5, PlayAtScreen
<1>6. ASSUME NEW f, NEW target \in Targets, Play(target, f)
      PROVE  ScreenInv'
  <2> DEFINE q == Push(queue, target)
  <2>1. q \in Queues /\ Len(q.items) \in 1..Len(q.items)
    BY <1>1, PushType
  <2>2. /\ Len(q.items) = Len(queue.items) + 1
        /\ \A k \in 1..Len(queue.items) : q.items[k] = queue.items[k]
        /\ q.items[Len(queue.items) + 1] = [id |-> queue.nextId, target |-> target]
        /\ q.position = queue.position /\ q.nextId = queue.nextId + 1
    BY <1>1, PushQueue
  <2> HIDE DEF q
  <2>3. IdsPositive(q)
    <3>1. queue.nextId \in Nat /\ queue.nextId >= 1
      BY <1>1 DEF IdsPositive, Queues
    <3>2. q.items[Len(queue.items) + 1].id = queue.nextId
      BY <2>2
    <3>3. ASSUME NEW k \in 1..Len(q.items)
          PROVE  q.items[k].id >= 1
      <4>1. CASE k \in 1..Len(queue.items)
        BY <1>1, <2>2, <4>1 DEF IdsPositive
      <4>2. CASE k = Len(queue.items) + 1
        BY <3>1, <3>2, <4>2
      <4>3. k \in 1..Len(queue.items) \/ k = Len(queue.items) + 1
        <5>1. Len(queue.items) \in Nat /\ Len(q.items) = Len(queue.items) + 1
          BY <1>2, <2>2
        <5> QED
          BY <5>1
      <4> QED
        BY <4>1, <4>2, <4>3
    <3>4. q.nextId >= 1
      BY <2>2, <3>1
    <3> QED
      BY <3>3, <3>4 DEF IdsPositive
  <2>4. CASE Outcome(f) /\ PlayAt(q, Len(q.items), f) /\ eof' = eof
    <3>1. Len(q.items) >= Len(queue.items)
      BY <1>2, <2>2
    <3>2. eof' # "noticed" /\ \A k \in 1..Len(queue.items) : q.items[k] = queue.items[k]
      BY <1>4, <2>2, <2>4
    <3> QED
      BY <1>1, <1>4, <2>1, <2>3, <2>4, <3>1, <3>2, PlayAtScreen
  <2>5. CASE queue' = q /\ UNCHANGED <<routing, page, mpv, asyncQ, eof>>
    <3>1. \A x : Current(queue, x) => Current(queue', x)
      BY <1>2, <2>2, <2>5 DEF Current, InQueue
    <3>2. ~FailureInFlight'
      BY <1>4, <2>5 DEF FailureInFlight
    <3> QED
      BY <1>1, <1>4, <2>3, <2>5, <3>1, <3>2 DEF ScreenInv, OnCast, TrackedIsItem
  <2> QED
    BY <1>6, <2>4, <2>5 DEF Play, q
<1>7. ASSUME NEW f, QueueJumpForward(f)
      PROVE  ScreenInv'
  BY <1>5, <1>7 DEF QueueJumpForward, HasNext, InQueue
<1>8. ASSUME NEW f, QueueJumpBackward(f)
      PROVE  ScreenInv'
  <2>1. InQueue(queue, queue.position - 1)
    BY <1>1, <1>2, <1>8
       DEF QueueJumpBackward, HasPrevious, PositionInQueue, InQueue, NoPosition
  <2> QED
    BY <1>5, <1>8, <2>1 DEF QueueJumpBackward, InQueue
<1>9. ASSUME NEW i, NEW f, QueueJumpToIndex(i, f)
      PROVE  ScreenInv'
  BY <1>5, <1>9 DEF QueueJumpToIndex, InQueue
<1>10. ASSUME NEW f, Outcome(f), StopLocked(f)
       PROVE  f = "none"
  BY <1>10 DEF StopLocked, Outcome, ScreenCallsSucceed
<1>11. ASSUME NEW f, Stop(f)
       PROVE  ScreenInv'
  BY <1>1, <1>4, <1>10, <1>11, StopScreen DEF Stop
<1>12. ASSUME NEW f, QueueClear(f)
       PROVE  ScreenInv'
  <2>1. f = "none" /\ StopLocked(f) /\ queue' = Clear(queue)
    BY <1>10, <1>12 DEF QueueClear
  <2>2. IdsPositive(queue')
    BY <1>1, <2>1 DEF Clear, IdsPositive
  <2> QED
    BY <1>1, <1>4, <2>1, <2>2, StopScreen
<1> QED
  BY <1>6, <1>7, <1>8, <1>9, <1>11, <1>12 DEF Command

\* So do the async watcher's steps: what a failure undoes or puts up, it does on an
\* empty screen.
LEMMA AsyncScreen ==
  ASSUME ScreenCallsSucceed, ScreenContext, AsyncWatcher
  PROVE  ScreenInv'
<1>1. /\ TypeOK /\ TrackedKnown /\ ScreenInv /\ FailureLeftMpv /\ OneLoad
      /\ routing \in Routings /\ queue \in Queues
  BY DEF ScreenContext, AttributionInv, PositionInv, TypeOK
<1>2. ASSUME OnAsync("error"), NEW l \in Tracked(routing, Head(asyncQ).entry),
             routing' = Resolve(routing, Head(asyncQ).entry)
      PROVE  /\ ~OnCast /\ page = Nothing /\ eof # "noticed"
             /\ l \in routing.current /\ routing'.current = {}
  <2>1. l \in routing.current /\ l.entry = Head(asyncQ).entry
    BY DEF Tracked
  <2>2. Head(asyncQ) \in InFlight(asyncQ) /\ Head(asyncQ).kind = "error"
    BY <1>1, <1>2, TakingKeepsEntries DEF OnAsync
  <2>3. FailureInFlight /\ ~OnCast
    BY <1>1, <2>1, <2>2 DEF FailureInFlight, FailureLeftMpv
  <2>4. routing'.current = {}
    BY <1>1, <1>2, <2>1 DEF Resolve, Routings, Tracked, OneLoad
  <2> QED
    BY <1>1, <2>1, <2>3, <2>4 DEF ScreenInv
<1>3. CASE UNCHANGED <<queue, page, eof>> /\ Attributes
  <2>1. Keeps(routing, routing') /\ UNCHANGED mpv
    <3>1. Keeps(routing, routing)
      BY DEF Keeps
    <3> QED
      BY <1>1, <1>3, <3>1, RoutingKeeps DEF Attributes
  <2>2. InFlight(asyncQ') \subseteq InFlight(asyncQ)
    BY <1>1, <1>3, TakingKeepsEntries DEF Attributes
  <2>3. FailureInFlight' => FailureInFlight
    BY <2>1, <2>2, KeepsFailure
  <2> QED
    BY <1>1, <1>3, <2>1, <2>3, KeepsScreen DEF OnCast, CastLive, ScreenInv
<1>4. CASE AsyncPlaybackError
  <2>1. PICK l \in Tracked(routing, Head(asyncQ).entry) : queue' = Revert(queue, l.rollback)
    BY <1>4 DEF AsyncPlaybackError
  <2>2. UNCHANGED <<page, mpv, eof>> /\ OnAsync("error")
        /\ routing' = Resolve(routing, Head(asyncQ).entry)
    BY <1>4 DEF AsyncPlaybackError
  <2>3. ~OnCast /\ page = Nothing /\ eof # "noticed" /\ routing'.current = {}
    BY <1>2, <2>1, <2>2
  <2>4. IdsPositive(queue')
    BY <1>1, <2>1, RevertQueue DEF ScreenInv, IdsPositive
  <2> QED
    BY <1>1, <2>2, <2>3, <2>4, EmptyScreen DEF OnCast, TrackedIsItem, ScreenInv
<1>5. ASSUME NEW f, AsyncFallBack(f)
      PROVE  ScreenInv'
  <2>1. PICK l \in Tracked(routing, Head(asyncQ).entry) :
          /\ FallsBack(l)
          /\ ShowPage(l.item, f)
          /\ queue' = IF f \in {"badUrl", "spawn"} THEN Revert(queue, l.rollback) ELSE queue
    BY <1>5 DEF AsyncFallBack
  <2>2. /\ OnAsync("error") /\ routing' = Resolve(routing, Head(asyncQ).entry)
        /\ eof' = eof /\ f \in {"none", "badUrl", "spawn"}
    BY <1>5 DEF AsyncFallBack, Outcome, ScreenCallsSucceed
  <2>3. /\ page = Nothing /\ eof # "noticed" /\ l \in routing.current
        /\ routing'.current = {}
    BY <1>2, <2>1, <2>2
  <2>4. mpv'.phase = "idle"
    BY <1>5, <2>2 DEF AsyncFallBack, MpvStop, MpvIdle
  <2>5. CASE f = "none"
    <3>1. page' = l.item /\ queue' = queue /\ l.probing
      BY <2>1, <2>5 DEF ShowPage, FallsBack
    <3>2. Current(queue, l.item) /\ IdsPositive(queue)
      BY <1>1, <2>3, <3>1 DEF ScreenInv
    <3> QED
      BY <2>2, <2>3, <2>4, <3>1, <3>2
         DEF ScreenInv, OnCast, TrackedIsItem, FailureInFlight
  <2>6. CASE f # "none"
    <3>1. page' = Nothing /\ IdsPositive(queue')
      BY <1>1, <2>1, <2>2, <2>3, <2>6, RevertQueue DEF ShowPage, ScreenInv, IdsPositive
    <3> QED
      BY <2>2, <2>3, <2>4, <3>1, EmptyScreen DEF OnCast, TrackedIsItem
  <2> QED
    BY <2>5, <2>6
<1> QED
  BY <1>3, <1>4, <1>5
     DEF AsyncWatcher, AsyncStart, AsyncLoaded, AsyncEnd, AsyncForeignError, OnAsync,
         Attributes, history

\* And the end-of-file watcher's.
LEMMA EofScreen ==
  ASSUME ScreenCallsSucceed, ScreenContext, EofWatcher
  PROVE  ScreenInv'
<1>1. /\ TypeOK /\ EntriesKnown /\ TrackedKnown /\ ScreenInv /\ FailureLeftMpv
      /\ routing \in Routings /\ queue \in Queues /\ IdsPositive(queue)
      /\ mpv = [entry |-> mpv.entry, item |-> mpv.item, phase |-> mpv.phase, more |-> mpv.more]
  BY DEF ScreenContext, AttributionInv, PositionInv, ScreenInv, TypeOK
<1>2. CASE EofNotice
  <2>1. /\ mpv.phase = "eof" /\ mpv'.phase = "ended" /\ mpv'.item = mpv.item
        /\ mpv'.entry = mpv.entry /\ UNCHANGED <<queue, routing, page, asyncQ>>
    BY <1>1, <1>2 DEF EofNotice
  <2>2. OnCast /\ OnCast' /\ ~CastLive'
    BY <1>1, <2>1 DEF ScreenInv, OnCast, CastLive
  <2>3. ~FailureInFlight'
    BY <1>1, <2>1, <2>2 DEF FailureLeftMpv, FailureInFlight
  <2> QED
    BY <1>1, <2>1, <2>2, <2>3 DEF ScreenInv, TrackedIsItem
<1>3. ASSUME NEW f, EofAdvance(f)
      PROVE  ScreenInv'
  <2>1. Len(queue.items) \in Nat /\ queue.position + 1 \in 1..Len(queue.items)
    BY <1>1, <1>3 DEF EofAdvance, HasNext, InQueue, Queues
  <2>2. ~FailureInFlight /\ eof' # "noticed" /\ Outcome(f)
        /\ PlayAt(queue, queue.position + 1, f)
    BY <1>1, <1>3 DEF EofAdvance, ScreenInv
  <2> QED
    BY <1>1, <2>1, <2>2, PlayAtScreen
<1>4. CASE EofNoNext \/ EofShowClock
  <2>1. UNCHANGED <<queue, routing, page, mpv, asyncQ>> /\ eof' # "noticed"
    BY <1>4 DEF EofNoNext, EofShowClock
  <2> QED
    BY <1>1, <2>1 DEF ScreenInv, OnCast, TrackedIsItem, FailureInFlight
<1> QED
  BY <1>2, <1>3, <1>4 DEF EofWatcher

\* And what mpv and the engine do: a load that fails had the screen to itself.
LEMMA EnvironmentScreen ==
  ASSUME ScreenContext, Environment
  PROVE  ScreenInv'
<1>1. /\ TypeOK /\ EntriesKnown /\ TrackedKnown /\ ScreenInv /\ PageExcludesMedia
      /\ entries \in Nat /\ asyncQ \in Seq(Events)
      /\ mpv = [entry |-> mpv.entry, item |-> mpv.item, phase |-> mpv.phase, more |-> mpv.more]
  BY DEF ScreenContext, AttributionInv, PositionInv, TypeOK
<1>2. Keeps(routing, routing)
  BY DEF Keeps
<1>3. CASE MpvStart \/ MpvOpen \/ MpvRestart \/ MpvEof
  <2>1. /\ mpv.phase \in {"queued", "starting", "opened", "playing"}
        /\ mpv'.phase \in {"starting", "opened", "playing", "eof"}
        /\ mpv'.entry = mpv.entry /\ mpv'.item = mpv.item
        /\ mpv'.phase = "eof" => mpv.item # Nothing
        /\ UNCHANGED <<queue, routing, page, eof>>
        /\ UNCHANGED asyncQ \/ Tell("start") \/ Tell("loaded")
    BY <1>1, <1>3 DEF MpvStart, MpvOpen, MpvRestart, MpvEof, daemonVars
  <2>2. \A e \in InFlight(asyncQ') : e.kind = "error" => e \in InFlight(asyncQ)
    BY <1>1, <2>1, InFlightTold
  <2>3. FailureInFlight' => FailureInFlight
    BY <1>2, <2>1, <2>2, KeepsFailure
  <2> QED
    BY <1>1, <1>2, <2>1, <2>3, KeepsScreen DEF OnCast, CastLive
<1>4. CASE MpvRedirect
  <2>1. /\ mpv.phase = "starting" /\ mpv'.phase = "queued"
        /\ mpv'.entry = entries + 1 /\ mpv'.item = mpv.item
        /\ UNCHANGED <<queue, routing, page, eof>> /\ Tell("ok")
    <3>1. PICK more \in 0..MaxMore :
            mpv' = [mpv EXCEPT !.entry = entries + 1, !.phase = "queued", !.more = @ + more]
      BY <1>4 DEF MpvRedirect
    <3>2. mpv'.phase = "queued" /\ mpv'.entry = entries + 1 /\ mpv'.item = mpv.item
      BY <3>1, MpvType DEF Mpvs
    <3> QED
      BY <1>4, <3>2 DEF MpvRedirect, daemonVars
  <2>2. \A e \in InFlight(asyncQ') : e.kind = "error" => e \in InFlight(asyncQ)
    BY <1>1, <2>1, InFlightTold
  <2>3. FailureInFlight' => FailureInFlight
    BY <1>2, <2>1, <2>2, KeepsFailure
  <2> QED
    BY <1>1, <1>2, <2>1, <2>3, KeepsScreen DEF OnCast, CastLive
<1>5. CASE MpvEndEarly \/ MpvNextFile \/ MpvFail("openFails", "starting")
             \/ MpvFail("loadFails", "opened") \/ MpvFail("playFails", "playing")
  <2>1. /\ mpv.phase \in {"starting", "opened", "playing"} /\ MpvGoesOn
        /\ UNCHANGED <<queue, routing, page, eof>> /\ (Tell("ok") \/ Tell("error"))
    BY <1>5 DEF MpvEndEarly, MpvFail, MpvNextFile, daemonVars
  <2>2. \A e \in InFlight(asyncQ') :
          e.kind = "error" => e \in InFlight(asyncQ) \/ e.entry = mpv.entry
    BY <1>1, <2>1, InFlightTold
  <2>3. ASSUME FailureInFlight', ~FailureInFlight
        PROVE  page' = Nothing /\ eof' # "noticed"
    <3>1. PICK l \in routing.current : l.entry = mpv.entry
      BY <2>1, <2>2, <2>3 DEF FailureInFlight
    <3>2. CastLive /\ OnCast
      BY <1>1, <2>1, <3>1 DEF ScreenInv, TrackedIsItem, CastLive, OnCast
    <3> QED
      BY <1>1, <2>1, <3>2 DEF PageExcludesMedia, ScreenInv
  <2>4. \/ mpv'.phase = "idle" /\ mpv'.item = Nothing
        \/ mpv'.phase = "queued" /\ mpv'.entry = entries + 1 /\ mpv'.item = mpv.item
    <3>1. CASE mpv.more = 0
      BY <2>1, <3>1 DEF MpvGoesOn, MpvIdle
    <3>2. CASE mpv.more # 0
      <4>1. mpv' = [mpv EXCEPT !.entry = entries + 1, !.phase = "queued", !.more = @ - 1]
        BY <2>1, <3>2 DEF MpvGoesOn
      <4> QED
        BY <4>1, MpvType DEF Mpvs
    <3> QED
      BY <3>1, <3>2
  <2> QED
    BY <1>1, <1>2, <2>1, <2>3, <2>4, KeepsScreen DEF OnCast, CastLive
<1>6. CASE EngineExits
  <2>1. page' = Nothing /\ UNCHANGED <<queue, routing, mpv, asyncQ, eof>>
    BY <1>6 DEF EngineExits
  <2> QED
    BY <1>1, <2>1 DEF ScreenInv, OnCast, CastLive, TrackedIsItem, FailureInFlight
<1> QED
  BY <1>3, <1>4, <1>5, <1>6 DEF Environment, MpvResolvesLoad

\* The invariant is inductive.
LEMMA ScreenStep ==
  ASSUME Patient, ScreenCallsSucceed, ScreenContext, Next
  PROVE  ScreenInv'
<1>1. /\ TypeOK /\ EntriesKnown /\ TrackedKnown /\ ScreenInv
      /\ entries \in Nat
  BY DEF ScreenContext, AttributionInv, PositionInv, TypeOK
<1>2. CASE RotateWallpaper
  <2>1. /\ MpvLoad(Nothing) /\ UNCHANGED <<queue, routing, page, eof>>
        /\ mpv'.phase = "queued" /\ mpv'.item = Nothing /\ mpv'.entry = entries + 1
    BY <1>2 DEF RotateWallpaper, MpvLoad
  <2>2. Keeps(routing, routing')
    BY <2>1 DEF Keeps
  <2>3. FailureInFlight' => FailureInFlight
    BY <1>1, <2>1, <2>2, LoadKeepsEntries, KeepsFailure
  <2> QED
    BY <1>1, <2>1, <2>2, <2>3, KeepsScreen DEF OnCast, CastLive
<1>3. CASE LifeWatcher
  <2>1. UNCHANGED <<queue, routing, page, mpv, asyncQ, eof>>
    BY <1>3
       DEF LifeWatcher, LifeRestarted, LifeReveal, LifeRevealed, LifeEnded, LifeClear,
           LifeShowClock, shownByOthers
  <2> QED
    BY <1>1, <2>1 DEF ScreenInv, OnCast, CastLive, TrackedIsItem, FailureInFlight
<1> QED
  BY <1>2, <1>3, CommandScreen, AsyncScreen, EofScreen, EnvironmentScreen DEF Next

\* What is on screen is the queue's current item, although positions move before a
\* load is known to succeed and back when it fails, and files advance by themselves.
THEOREM ScreenCurrent ==
  ASSUME Patient, ScreenCallsSucceed
  PROVE  Spec => []ScreenIsCurrentItem
<1>1. Init => ScreenInv
  BY DEF Init, ScreenInv, IdsPositive, OnCast, TrackedIsItem, MpvIdle, EmptyQueue, NoRouting
<1>2. TypeOK /\ AttributionInv /\ PageExcludesMedia /\ PositionInv /\ ScreenInv /\ [Next]_vars
        => ScreenInv'
  <2> SUFFICES ASSUME ScreenContext, [Next]_vars PROVE ScreenInv'
    BY DEF ScreenContext
  <2>1. CASE UNCHANGED vars
    <3>1. FailureInFlight' <=> FailureInFlight
      BY <2>1 DEF vars, FailureInFlight
    <3> QED
      BY <2>1, <3>1
         DEF vars, ScreenContext, ScreenInv, OnCast, CastLive, TrackedIsItem
  <2> QED
    BY <2>1, ScreenStep
<1>3. ScreenInv => ScreenIsCurrentItem
  BY DEF ScreenInv, ScreenIsCurrentItem, Current, OnCast
<1>4. Spec => []PageExcludesMedia
  BY OneEngine DEF ScreenCallsSucceed
<1> QED
  BY <1>1, <1>2, <1>3, <1>4, Attribution, PositionHolds, PTL DEF Spec
=============================================================================
