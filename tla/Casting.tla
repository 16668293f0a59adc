------------------------------- MODULE Casting -------------------------------
(***************************************************************************)
(* What is on the screen, and who put it there: daemon/src/player.rs with  *)
(* the parts of idle_screen.rs, overlay.rs and webpage.rs it drives.       *)
(*                                                                         *)
(* Four actors share the screen.  Senders' commands, and everything else   *)
(* that runs under Player's `operation` lock, are one action each; what    *)
(* the source does without that lock is split where other actors can get   *)
(* in between:                                                             *)
(*   - the command handlers (Play, jumps, Stop, ClearQueue),               *)
(*   - the async event watcher: routing, browser fallback, queue revert,   *)
(*   - the lifecycle watcher: spinner and idle clock, without the lock,    *)
(*   - the end-of-file watcher: auto-advance, then the clock, outside it.  *)
(* mpv is the environment.  It feeds one event queue per watcher, each in  *)
(* order, but says nothing of how far one watcher is behind the other.     *)
(***************************************************************************)
EXTENDS PlayQueue, MediaRouting

CONSTANTS
  Activity,  \* which commands, timers and ends of file the instance exercises
  Faults,    \* which calls may fail, and which mishaps mpv and the engine may have
  Patient,   \* TRUE: senders wait until the watchers have caught up
  MaxItems,  \* bound: items ever queued
  MaxLoads,  \* bound: playlist entries mpv ever gets to
  MaxMore    \* bound: entries a playlist has behind its first

AllTargets  == {"probe", "media", "page"}
AllActivity == {"play", "jumpForward", "jumpBackward", "jumpTo", "clear", "stop",
                "wallpaper", "eof"}
AllFaults   == {"loadfile", "entryId", "unpause", "badUrl", "spawn", "mpvStop",
                "openFails", "loadFails", "playFails", "endEarly", "redirect",
                "engineExits"}

ASSUME CastingAssumption ==
  /\ Targets \subseteq AllTargets
  /\ Activity \subseteq AllActivity
  /\ Faults \subseteq AllFaults
  /\ Patient \in BOOLEAN
  /\ MaxItems \in Nat
  /\ MaxLoads \in Nat
  /\ MaxMore \in Nat

VARIABLES
  queue,     \* Player.queue
  routing,   \* Player.routing
  idle,      \* IdleScreenController's state: [clock, wallpaper]
  overlay,   \* PlaybackOverlay's state: [active, restarted, revealing]
  page,      \* WebpageController's current page, as the item it shows
  mpv,       \* what mpv is on: [entry, item, phase], and how many entries are behind it
  entries,   \* the last playlist entry mpv got to; ids only tell entries apart
  asyncQ,    \* events not yet seen by the async event watcher
  lifeQ,     \* events not yet seen by the lifecycle watcher
  life,      \* where the lifecycle watcher is
  eof,       \* where the end-of-file watcher is
  opened,    \* history: entries mpv opened (FileLoaded) since the last submission
  wanted,    \* history: the item the last accepted play asked for
  overtaken  \* history: an earlier entry's end may reach the lifecycle watcher as this one's

vars == <<queue, routing, idle, overlay, page, mpv, entries, asyncQ, lifeQ,
          life, eof, opened, wanted, overtaken>>

Nothing   == 0   \* no page, no item; as mpv's item: a wallpaper image, or nothing
Loading   == {"queued", "starting", "opened"}
Rendering == {"playing", "eof", "ended"}
Phases    == {"idle"} \cup Loading \cup Rendering
Events    == [kind : {"start", "loaded", "ok", "error"}, entry : Nat]

MpvIdle  == [entry |-> 0, item |-> Nothing, phase |-> "idle", more |-> 0]
\* mpv has a sender's item loading or on its last or any earlier frame.
OnCast   == mpv.phase # "idle" /\ mpv.item # Nothing
\* ... and it is not merely holding the frame it ended on.
CastLive == OnCast /\ mpv.phase # "ended"

TypeOK ==
  /\ queue \in Queues
  /\ routing \in Routings
  /\ idle \in [clock : BOOLEAN, wallpaper : BOOLEAN]
  /\ overlay \in [active : BOOLEAN, restarted : BOOLEAN, revealing : BOOLEAN]
  /\ page \in Nat
  /\ mpv \in [entry : Nat, item : Nat, phase : Phases, more : Nat]
  /\ entries \in Nat
  /\ asyncQ \in Seq(Events)
  /\ lifeQ \in Seq({"restart", "error", "eof"})
  /\ life \in {"wait", "marked", "revealing", "restoring", "showing"}
  /\ eof \in {"wait", "noticed", "showing"}
  /\ opened \in SUBSET Nat
  /\ wanted \in Nat
  /\ overtaken \in BOOLEAN

\* Player::new: an empty queue under the idle clock.
Init ==
  /\ queue = EmptyQueue
  /\ routing = NoRouting
  /\ idle = [clock |-> TRUE, wallpaper |-> FALSE]
  /\ overlay = [active |-> FALSE, restarted |-> FALSE, revealing |-> FALSE]
  /\ page = Nothing
  /\ mpv = MpvIdle
  /\ entries = 0
  /\ asyncQ = <<>>
  /\ lifeQ = <<>>
  /\ life = "wait"
  /\ eof = "wait"
  /\ opened = {}
  /\ wanted = Nothing
  /\ overtaken = FALSE

-----------------------------------------------------------------------------
\* The pieces every actor uses

\* IdleScreenController::show and ::hide.
ClockShown  == [clock |-> TRUE, wallpaper |-> FALSE]
\* Mutant: play_media leaves the clock up.
ClockKept == ClockShown
ClockHidden == [clock |-> FALSE, wallpaper |-> FALSE]

\* Every overlay operation takes a new generation, which ends a running reveal.
OverlayLoading  == [active |-> TRUE, restarted |-> FALSE, revealing |-> FALSE]
OverlayCleared  == [active |-> FALSE, restarted |-> overlay.restarted, revealing |-> FALSE]

\* abort_loading_to_idle / fade_in_idle_clock, start to end.
BackToClock == idle' = ClockShown /\ overlay' = OverlayCleared

\* Mutant: the page is left up.
PageLeft == page
\* WebpageController::hide: the engine is gone when it returns.
PageHidden == Nothing

\* mpv reports a clean end for the entry it drops, if that entry had started.
DroppedBy(q) ==
  IF mpv.phase \in {"idle", "queued"} THEN q
  ELSE Append(q, [kind |-> "ok", entry |-> mpv.entry])

\* mpv's `stop` command; `q` is what the async watcher has still to see.
MpvStop(q) == mpv' = MpvIdle /\ asyncQ' = DroppedBy(q)

\* mpv's `loadfile ... replace`: one new playlist entry in place of all the old.
MpvLoad(item) ==
  /\ entries < MaxLoads
  /\ entries' = entries + 1
  /\ mpv' = [entry |-> entries + 1, item |-> item, phase |-> "queued", more |-> 0]
  /\ asyncQ' = DroppedBy(asyncQ)

\* Player::is_idle.
IsIdle == page = Nothing /\ (idle.clock \/ (overlay.active /\ ~overlay.restarted))

\* A call fails (one of Faults) or does not ("none").
Outcome(f) == f = "none" \/ f \in Faults

\* The watchers have nothing left to do.
CaughtUp == asyncQ = <<>> /\ lifeQ = <<>> /\ life = "wait" /\ eof = "wait"
Enabled(command) == command \in Activity /\ (Patient => CaughtUp)

watcherVars == <<lifeQ, life>>
history     == <<opened, wanted, overtaken>>

\* No end of an entry is on its way to the lifecycle watcher, or being handled by it.
LifeQuiet ==
  /\ life \notin {"restoring", "showing"}
  /\ \A k \in 1..Len(lifeQ) : lifeQ[k] = "restart"

-----------------------------------------------------------------------------
\* execute_play: the item at the queue's (just moved) position takes the screen

\* play_media.  The page is down and the spinner up before mpv is asked; a
\* refusal, or a failure to unpause, puts the clock back and undoes the move.
PlayMedia(q, rollback, f) ==
  LET item == q.items[q.position] IN
  /\ page' = PageHidden
  /\ \/ /\ f = "loadfile"
        /\ BackToClock
        /\ queue' = Revert(q, rollback)
        /\ UNCHANGED <<routing, mpv, entries, asyncQ, history>>
     \/ /\ f \in {"none", "entryId", "unpause"}
        /\ MpvLoad(item.id)
        /\ routing' = Submit(routing, IF f = "entryId" THEN 0 ELSE entries + 1,
                             item.id, item.target = "probe", rollback)
        /\ opened' = {} /\ wanted' = item.id /\ overtaken' = ~LifeQuiet
        /\ IF f = "unpause"
           THEN BackToClock /\ queue' = Revert(q, rollback)
           ELSE idle' = ClockHidden /\ overlay' = OverlayLoading /\ queue' = q

\* WebpageController::show, as far as the caller sees: a URL it refuses leaves
\* the incumbent page alone, an engine that does not start has already cost it.
ShowPage(item, f) ==
  page' = CASE f = "badUrl" -> page
            [] f = "spawn"  -> Nothing
            [] OTHER        -> item

\* play_webpage, behind execute_play's cancel: engine first, then mpv's stop.
PlayWebpage(q, rollback, f) ==
  LET item == q.items[q.position] IN
  /\ routing' = Cancel(routing)
  /\ ShowPage(item.id, f)
  /\ UNCHANGED <<entries, opened, overtaken>>
  /\ \/ /\ f = "none"
        /\ MpvStop(asyncQ)
        /\ BackToClock
        /\ queue' = q
        /\ wanted' = item.id
     \/ /\ f \in {"badUrl", "spawn", "mpvStop"}
        /\ queue' = Revert(q, rollback)
        /\ wanted' = IF f = "mpvStop" THEN item.id ELSE wanted
        /\ UNCHANGED <<mpv, asyncQ, idle, overlay>>

\* execute_play on the item `i` the queue moves to; every caller reverts on error.
PlayAt(q, i, f) ==
  LET rollback == [index |-> i, previous |-> queue.position]
      moved    == SetPosition(q, i)
  IN  IF q.items[i].target = "page" THEN PlayWebpage(moved, rollback, f)
                                    ELSE PlayMedia(moved, rollback, f)

-----------------------------------------------------------------------------
\* Commands, under the operation lock

\* Player::play: at once if nothing is playing, else only queued.
Play(target, f) ==
  /\ Enabled("play")
  /\ queue.nextId <= MaxItems
  /\ Outcome(f)
  /\ LET q == Push(queue, target) IN
     IF IsIdle
     THEN PlayAt(q, Len(q.items), f)
     ELSE /\ f = "none"
          /\ queue' = q
          /\ UNCHANGED <<routing, idle, overlay, page, mpv, entries, asyncQ, history>>
  /\ UNCHANGED <<watcherVars, eof>>

\* Player::queue_jump_forward; at the last item nothing happens.
QueueJumpForward(f) ==
  /\ Enabled("jumpForward")
  /\ Outcome(f)
  /\ HasNext(queue)
  /\ PlayAt(queue, queue.position + 1, f)
  /\ UNCHANGED <<watcherVars, eof>>

\* Player::queue_jump_backward; with no item at the index below, the position
\* has moved and nothing plays.
QueueJumpBackward(f) ==
  /\ Enabled("jumpBackward")
  /\ Outcome(f)
  /\ HasPrevious(queue)
  /\ \/ /\ InQueue(queue, queue.position - 1)
        /\ PlayAt(queue, queue.position - 1, f)
     \/ /\ ~InQueue(queue, queue.position - 1)
        /\ f = "none"
        /\ queue' = SetPosition(queue, queue.position - 1)
        /\ UNCHANGED <<routing, idle, overlay, page, mpv, entries, asyncQ, history>>
  /\ UNCHANGED <<watcherVars, eof>>

\* Player::queue_jump_to_index; an index outside the queue does nothing.
QueueJumpToIndex(i, f) ==
  /\ Enabled("jumpTo")
  /\ Outcome(f)
  /\ InQueue(queue, i)
  /\ PlayAt(queue, i, f)
  /\ UNCHANGED <<watcherVars, eof>>

\* Player::stop_locked: everything is cancelled and the clock is back, also
\* when mpv refuses to stop.
StopLocked(f) ==
  /\ routing' = Cancel(routing)
  /\ page' = PageHidden
  /\ BackToClock
  /\ wanted' = Nothing
  /\ \/ f = "none" /\ MpvStop(asyncQ)
     \/ f = "mpvStop" /\ UNCHANGED <<mpv, asyncQ>>
  /\ UNCHANGED <<entries, opened, overtaken, watcherVars, eof>>

\* Player::stop.
Stop(f) ==
  /\ Enabled("stop")
  /\ Outcome(f)
  /\ StopLocked(f)
  /\ UNCHANGED queue

\* Player::queue_clear: stops first, and keeps the queue if that fails.
QueueClear(f) ==
  /\ Enabled("clear")
  /\ Outcome(f)
  /\ StopLocked(f)
  /\ queue' = IF f = "none" THEN Clear(queue) ELSE queue

\* Mutant: no second look at the state under the lock.
RotateUnchecked ==
  /\ "wallpaper" \in Activity
  /\ MpvLoad(Nothing)
  /\ idle' = [idle EXCEPT !.wallpaper = TRUE]
  /\ UNCHANGED <<queue, routing, overlay, page, history, watcherVars, eof>>

\* maybe_rotate_wallpaper, on the clock's refresh thread but under the lock.
RotateWallpaper ==
  /\ "wallpaper" \in Activity
  /\ idle.clock
  /\ MpvLoad(Nothing)
  /\ idle' = [idle EXCEPT !.wallpaper = TRUE]
  /\ UNCHANGED <<queue, routing, overlay, page, history, watcherVars, eof>>

Command ==
  \E f \in AllFaults \cup {"none"} :
    \/ \E target \in Targets : Play(target, f)
    \/ QueueJumpForward(f)
    \/ QueueJumpBackward(f)
    \/ \E i \in 1..MaxItems : QueueJumpToIndex(i, f)
    \/ Stop(f)
    \/ QueueClear(f)

-----------------------------------------------------------------------------
\* The async event watcher (spawn_async_event_watcher), one event at a time

OnAsync(kind) == asyncQ # <<>> /\ Head(asyncQ).kind = kind

\* START_FILE, without the operation lock.
AsyncStart ==
  /\ OnAsync("start")
  /\ routing' = StartFile(routing, Head(asyncQ).entry)
  /\ asyncQ' = Tail(asyncQ)
  /\ UNCHANGED <<queue, idle, overlay, page, mpv, entries, history, watcherVars, eof>>

\* FILE_LOADED.
AsyncLoaded ==
  /\ OnAsync("loaded")
  /\ routing' = FileLoaded(routing)
  /\ asyncQ' = Tail(asyncQ)
  /\ UNCHANGED <<queue, idle, overlay, page, mpv, entries, history, watcherVars, eof>>

\* END_FILE without an error.
AsyncEnd ==
  /\ OnAsync("ok")
  /\ routing' = Resolve(routing, Head(asyncQ).entry)
  /\ asyncQ' = Tail(asyncQ)
  /\ UNCHANGED <<queue, idle, overlay, page, mpv, entries, history, watcherVars, eof>>

\* END_FILE with an error of an entry the daemon does not track: logged only.
AsyncForeignError ==
  /\ OnAsync("error")
  /\ Tracked(routing, Head(asyncQ).entry) = {}
  /\ asyncQ' = Tail(asyncQ)
  /\ UNCHANGED <<queue, routing, idle, overlay, page, mpv, entries, history,
                 watcherVars, eof>>

\* END_FILE with an error of the tracked load that counts as media.
AsyncPlaybackError ==
  /\ OnAsync("error")
  /\ \E l \in Tracked(routing, Head(asyncQ).entry) :
       /\ ~FallsBack(l)
       /\ queue' = Revert(queue, l.rollback)
  /\ routing' = Resolve(routing, Head(asyncQ).entry)
  /\ asyncQ' = Tail(asyncQ)
  /\ UNCHANGED <<idle, overlay, page, mpv, entries, history, watcherVars, eof>>

\* END_FILE with an error of a probe that never loaded: fall_back_to_browser. It
\* goes on when mpv refuses to stop.
AsyncFallBack(f) ==
  /\ OnAsync("error")
  /\ Outcome(f) /\ f \in {"none", "mpvStop", "badUrl", "spawn"}
  /\ \E l \in Tracked(routing, Head(asyncQ).entry) :
       /\ FallsBack(l)
       /\ ShowPage(l.item, f)
       /\ queue' = IF f \in {"badUrl", "spawn"} THEN Revert(queue, l.rollback) ELSE queue
  /\ routing' = Resolve(routing, Head(asyncQ).entry)
  /\ \/ f # "mpvStop" /\ MpvStop(Tail(asyncQ))
     \/ f = "mpvStop" /\ asyncQ' = Tail(asyncQ) /\ UNCHANGED mpv
  /\ idle' = ClockShown
  /\ UNCHANGED <<overlay, entries, history, watcherVars, eof>>

AsyncWatcher ==
  \/ AsyncStart
  \/ AsyncLoaded
  \/ AsyncEnd
  \/ AsyncForeignError
  \/ AsyncPlaybackError
  \/ \E f \in AllFaults \cup {"none"} : AsyncFallBack(f)

-----------------------------------------------------------------------------
\* The lifecycle watcher (spawn_lifecycle_watcher): it takes no operation lock
\* and its events name no entry, so commands get in between its steps

OnLife(kind) == life = "wait" /\ lifeQ # <<>> /\ Head(lifeQ) = kind

shownByOthers == <<queue, routing, page, mpv, entries, asyncQ, eof, history>>

\* PLAYBACK_RESTART: mark_restarted ...
LifeRestarted ==
  /\ OnLife("restart")
  /\ lifeQ' = Tail(lifeQ)
  /\ overlay' = [overlay EXCEPT !.restarted = TRUE]
  /\ life' = "marked"
  /\ UNCHANGED <<idle, shownByOthers>>

\* Mutant: PlaybackRestart is only noted.
MarkOnly == life = "marked" /\ life' = "wait" /\ UNCHANGED <<overlay, idle, lifeQ, shownByOthers>>

\* ... then reveal, a no-op when nothing is up ...
LifeReveal ==
  /\ life = "marked"
  /\ overlay' = [overlay EXCEPT !.revealing = overlay.active]
  /\ life' = IF overlay.active THEN "revealing" ELSE "wait"
  /\ UNCHANGED <<idle, lifeQ, shownByOthers>>

\* ... whose fade ends by clearing what is still its own (clear_if_current).
LifeRevealed ==
  /\ life = "revealing"
  /\ overlay' = IF overlay.revealing THEN OverlayCleared ELSE overlay
  /\ life' = "wait"
  /\ UNCHANGED <<idle, lifeQ, shownByOthers>>

\* Mutant: a load that ends without playing is ignored, as STOP is.
EndIgnored ==
  /\ OnLife("error") \/ OnLife("eof")
  /\ lifeQ' = Tail(lifeQ)
  /\ UNCHANGED <<overlay, life, idle, shownByOthers>>

\* END_FILE, error or end-of-file: restore_idle_clock if the overlay is up.
LifeEnded ==
  /\ OnLife("error") \/ OnLife("eof")
  /\ lifeQ' = Tail(lifeQ)
  /\ IF overlay.active
     THEN /\ overlay' = [overlay EXCEPT !.revealing = FALSE]  \* stop_spinner
          /\ life' = "restoring"
     ELSE UNCHANGED <<overlay, life>>
  /\ UNCHANGED <<idle, shownByOthers>>

\* The clock has faded in: clear, whatever the overlay is up for by now ...
LifeClear ==
  /\ life = "restoring"
  /\ overlay' = OverlayCleared
  /\ life' = "showing"
  /\ UNCHANGED <<idle, lifeQ, shownByOthers>>

\* ... and show the clock.
LifeShowClock ==
  /\ life = "showing"
  /\ idle' = ClockShown
  /\ life' = "wait"
  /\ UNCHANGED <<overlay, lifeQ, shownByOthers>>

LifeWatcher ==
  LifeRestarted \/ LifeReveal \/ LifeRevealed \/ LifeEnded \/ LifeClear \/ LifeShowClock

-----------------------------------------------------------------------------
\* The end-of-file watcher (spawn_eof_watcher)

\* mpv's eof-reached turned true and the watcher has fetched the event.
EofNotice ==
  /\ eof = "wait"
  /\ mpv.phase = "eof"
  /\ mpv' = [mpv EXCEPT !.phase = "ended"]
  /\ eof' = "noticed"
  /\ UNCHANGED <<queue, routing, idle, overlay, page, entries, asyncQ, history, watcherVars>>

\* auto_advance_queue, under the lock: the item after the current one plays. A
\* failure (undone like a command's) or the end of the queue leaves the clock to show.
EofAdvance(f) ==
  /\ eof = "noticed"
  /\ Outcome(f)
  /\ HasNext(queue)
  /\ PlayAt(queue, queue.position + 1, f)
  /\ eof' = IF f \in {"none", "entryId"} THEN "wait" ELSE "showing"
  /\ UNCHANGED watcherVars

\* Mutant: auto_advance_queue claims to have handled the end of the queue.
EofClaimed ==
  /\ eof = "noticed"
  /\ ~HasNext(queue)
  /\ eof' = "wait"
  /\ UNCHANGED <<queue, routing, idle, overlay, page, mpv, entries, asyncQ, history,
                 watcherVars>>

\* auto_advance_queue with no item behind the current one.
EofNoNext ==
  /\ eof = "noticed"
  /\ ~HasNext(queue)
  /\ eof' = "showing"
  /\ UNCHANGED <<queue, routing, idle, overlay, page, mpv, entries, asyncQ, history,
                 watcherVars>>

\* The fallback to the clock, after the lock was released.
EofShowClock ==
  /\ eof = "showing"
  /\ idle' = ClockShown
  /\ eof' = "wait"
  /\ UNCHANGED <<queue, routing, overlay, page, mpv, entries, asyncQ, history, watcherVars>>

EofWatcher ==
  \/ EofNotice
  \/ \E f \in AllFaults \cup {"none"} : EofAdvance(f)
  \/ EofNoNext
  \/ EofShowClock

-----------------------------------------------------------------------------
\* The environment: mpv working on its entry, and the browser engine

daemonVars == <<queue, routing, idle, overlay, page, life, eof, wanted>>

Tell(kind) == asyncQ' = Append(asyncQ, [kind |-> kind, entry |-> mpv.entry])

MpvStart ==
  /\ mpv.phase = "queued"
  /\ mpv' = [mpv EXCEPT !.phase = "starting"]
  /\ Tell("start")
  /\ UNCHANGED <<entries, lifeQ, opened, overtaken, daemonVars>>

MpvOpen ==
  /\ mpv.phase = "starting"
  /\ mpv' = [mpv EXCEPT !.phase = "opened"]
  /\ Tell("loaded")
  /\ opened' = opened \cup {mpv.entry}
  /\ UNCHANGED <<entries, lifeQ, overtaken, daemonVars>>

MpvRestart ==
  /\ mpv.phase = "opened"
  /\ mpv' = [mpv EXCEPT !.phase = "playing"]
  /\ lifeQ' = Append(lifeQ, "restart")
  /\ UNCHANGED <<entries, asyncQ, opened, overtaken, daemonVars>>

\* mpv is done with its entry: the next one of its playlist, if there is one, is up.
\* It belongs to no load the daemon tracks, and is the same cast.
MpvGoesOn ==
  IF mpv.more = 0
  THEN mpv' = MpvIdle /\ UNCHANGED entries
  ELSE /\ entries' = entries + 1
       /\ mpv' = [mpv EXCEPT !.entry = entries + 1, !.phase = "queued", !.more = @ - 1]

\* An entry that rendered nothing ends.  If mpv goes on, the lifecycle watcher, which
\* knows no entry, will take that for the end of the cast the spinner is up for.
Overtake == overtaken' = (overtaken \/ (mpv.more > 0 /\ overlay.active))

\* A load fails on opening, before its first frame, or later.
MpvFail(fault, phase) ==
  /\ fault \in Faults
  /\ mpv.phase = phase
  /\ MpvGoesOn
  /\ Tell("error")
  /\ lifeQ' = Append(lifeQ, "error")
  /\ IF phase \in Loading THEN Overtake ELSE UNCHANGED overtaken
  /\ UNCHANGED <<opened, daemonVars>>

\* A file whose end comes before anything was rendered.
MpvEndEarly ==
  /\ "endEarly" \in Faults
  /\ mpv.phase = "opened"
  /\ MpvGoesOn
  /\ Tell("ok")
  /\ lifeQ' = Append(lifeQ, "eof")
  /\ Overtake
  /\ UNCHANGED <<opened, daemonVars>>

\* A playlist URL: its entry ends, the ones mpv expands it to take its place, and mpv
\* is on the first of them.  (A playlist without entries is not modelled.)
MpvRedirect ==
  /\ "redirect" \in Faults
  /\ mpv.phase = "starting" /\ mpv.item # Nothing
  /\ \E more \in 0..MaxMore :
       /\ entries + 1 + mpv.more + more <= MaxLoads
       /\ mpv' = [mpv EXCEPT !.entry = entries + 1, !.phase = "queued", !.more = @ + more]
  /\ entries' = entries + 1
  /\ Tell("ok")
  /\ UNCHANGED <<lifeQ, opened, overtaken, daemonVars>>

\* Natural end of the last entry: keep-open holds its last frame and no END_FILE is
\* sent. An image, such as a wallpaper, has no end.
MpvEof ==
  /\ "eof" \in Activity
  /\ mpv.phase = "playing" /\ mpv.item # Nothing /\ mpv.more = 0
  /\ mpv' = [mpv EXCEPT !.phase = "eof"]
  /\ UNCHANGED <<entries, asyncQ, lifeQ, opened, overtaken, daemonVars>>

\* Natural end of an entry with others behind it: keep-open does not hold it.
MpvNextFile ==
  /\ "eof" \in Activity
  /\ mpv.phase = "playing" /\ mpv.more > 0
  /\ MpvGoesOn
  /\ Tell("ok")
  /\ lifeQ' = Append(lifeQ, "eof")
  /\ UNCHANGED <<opened, overtaken, daemonVars>>

\* The engine exits by itself: WebpageController::show's reaper thread.
EngineExits ==
  /\ "engineExits" \in Faults
  /\ page # Nothing
  /\ page' = Nothing
  /\ UNCHANGED <<queue, routing, idle, overlay, mpv, entries, asyncQ, history,
                 watcherVars, eof>>

MpvResolvesLoad ==
  \/ MpvStart
  \/ MpvOpen
  \/ MpvRestart
  \/ MpvFail("openFails", "starting")
  \/ MpvFail("loadFails", "opened")
  \/ MpvEndEarly
  \/ MpvRedirect

Environment ==
  \/ MpvResolvesLoad
  \/ MpvFail("playFails", "playing")
  \/ MpvEof
  \/ MpvNextFile
  \/ EngineExits

-----------------------------------------------------------------------------
Next ==
  \/ Command
  \/ RotateWallpaper
  \/ AsyncWatcher
  \/ LifeWatcher
  \/ EofWatcher
  \/ Environment

Spec == Init /\ [][Next]_vars

\* Each watcher thread handles the events it has, and mpv (with its network
\* timeouts) finishes opening what it was given. Senders owe nothing.
Fairness ==
  /\ WF_vars(AsyncWatcher)
  /\ WF_vars(LifeWatcher)
  /\ WF_vars(EofWatcher)
  /\ WF_vars(MpvResolvesLoad)

FairSpec == Spec /\ Fairness

-----------------------------------------------------------------------------
\* Safety, for every interleaving of senders, watchers and mpv

\* The screen belongs to one engine at a time: while a web page is up, mpv is
\* not on a sender's item.  play_media takes the page down before mpv loads;
\* play_webpage and the fallback stop mpv.
PageExcludesMedia == page # Nothing => ~OnCast

\* The page on screen is always the item asked for last: no late fallback puts up
\* the page of a Play that was superseded, stopped or cleared (Routing::cancel,
\* and the daemon tracking its newest load only).
PageIsWanted == page # Nothing => page = wanted

\* When the error of the tracked load is the watcher's next event, the daemon
\* knows whether mpv had opened the file, however many loads raced: "once mpv
\* reports the file loaded, that URL is media" (README), and a load mpv never
\* opened is not taken for one, although FILE_LOADED carries no id.
ErrorFindsLoadKnown ==
  OnAsync("error") =>
    \A l \in Tracked(routing, Head(asyncQ).entry) : l.loaded = (l.entry \in opened)

\* A fallback takes the screen from nobody: when the browser engine comes up for
\* a failed probe, no page is up and mpv is on no sender's item, whatever was
\* played between the failure and the watcher getting the operation lock.
FallbackInterruptsNothing ==
  [][(\E f \in AllFaults \cup {"none"} : AsyncFallBack(f)) =>
       page = Nothing /\ ~OnCast]_vars

\* Who shows what, as far as senders are concerned: a wallpaper is nobody's cast.
OnScreen ==
  IF page # Nothing THEN [by |-> "browser", cast |-> page]
  ELSE IF OnCast THEN [by |-> "mpv", cast |-> mpv.item]
  ELSE [by |-> "nobody", cast |-> Nothing]

\* The tracked load may still go to the browser: nothing was asked for since, and mpv
\* has not opened it.
Undecided == \E l \in routing.current : l.probing /\ l.entry \notin opened

\* Whatever races, the screen passes from cast to cast as ScreenArbiter says: a cast
\* comes up when it is asked for, or as a web page when mpv could not open it, and
\* nothing that was superseded, stopped or already playing comes back.
Arbiter == INSTANCE ScreenArbiter WITH
  Casts <- 1..MaxItems, NoCast <- Nothing, asked <- wanted, screen <- OnScreen,
  again <- Undecided
ImplementsArbiter ==
  /\ Arbiter!Spec
  /\ [][RotateWallpaper \/ AsyncWatcher \/ LifeWatcher \/ Environment
        => Arbiter!ByItself]_(Arbiter!arbiterVars)

\* The spinner never turns over nothing: while the overlay is up, mpv has a load
\* that has not rendered yet, or the lifecycle watcher has an outcome to handle.
SpinnerHasCause ==
  overlay.active => mpv.phase \in Loading \/ lifeQ # <<>> \/ life # "wait"

-----------------------------------------------------------------------------
\* Safety, when senders wait for the watchers; the runs with Patient = FALSE show
\* which of these an impatient sender can break

\* The clock's opaque overlay is not up over an item that loads or plays: what
\* Player.operation is there for ("leave the clock painted over playing video").  One
\* thing alone puts it there: restore_idle_clock for an entry of a playlist that ended
\* before it rendered (or whose end is still unhandled when the queue advances), while
\* mpv goes on with what is behind it.
ClockNeverOverCast == idle.clock /\ CastLive => overtaken

\* The position sent as QueueState's current_index is an "index into `items`" or
\* None (fcast.rs), through jumps, clears and the undoing of failed loads.
PositionInQueue == queue.position = NoPosition \/ InQueue(queue, queue.position)

\* Once everything has settled, what is on screen is the queue's current item:
\* positions move before a load is known to succeed and back when it fails.
ScreenIsCurrentItem ==
  CaughtUp =>
    \A shown \in {page} \cup (IF mpv.phase = "playing" THEN {mpv.item} ELSE {}) :
      shown # Nothing =>
        /\ InQueue(queue, queue.position)
        /\ queue.items[queue.position].id = shown

\* The wallpaper rotation "must never clobber genuine playback that started in
\* the meantime" (maybe_rotate_wallpaper).  It trusts the clock, so it does where
\* an overtaken entry has raised the clock over the cast, and nowhere else.
RotationNeverClobbers == [][RotateWallpaper => ~CastLive \/ overtaken]_vars

-----------------------------------------------------------------------------
\* What the documentation says and the code does not keep

\* "If nothing is currently playing", a Play "starts immediately" (README): with
\* mpv idle, no page up and all events handled, is_idle holds.
NothingPlaysMeansIdle == CaughtUp /\ mpv.phase = "idle" /\ page = Nothing => IsIdle

\* The queue advances on a "genuine end-of-file (not a `Stop`)" (README): once a
\* Stop has been carried out, the end-of-file watcher starts nothing.
StopHolds == [][EofWatcher /\ wanted = Nothing => wanted' = Nothing]_vars

-----------------------------------------------------------------------------
\* Liveness, under FairSpec

\* No endless spinner (README): whatever load put it up, it comes down.
SpinnerEnds == overlay.active ~> ~overlay.active

\* A file that ran to its end gives way to the next item or to the clock: its last
\* frame, which keep-open holds, does not stay on screen.
Frozen == mpv.phase \in {"eof", "ended"} /\ ~idle.clock
FrozenFrameEnds == Frozen ~> ~Frozen
=============================================================================
