---------------------------- MODULE ScreenLayers ----------------------------
(***************************************************************************)
(* What is drawn on mpv's OSD, and by whom (daemon/src/overlay.rs,         *)
(* daemon/src/idle_screen.rs, and the parts of player.rs that drive them): *)
(* the clock, the black rectangle of the fades and the loading spinner.    *)
(*                                                                         *)
(* Three actors run the procedures of those files, each a sequence of steps*)
(* with a lock of its own: the holder of Player's operation lock, the      *)
(* lifecycle watcher and the end-of-file watcher.  Every spinner and every *)
(* clock shown adds a thread that redraws it until a newer generation of   *)
(* the overlay, or of the idle screen, supersedes it.                      *)
(*                                                                         *)
(* Generations are only ever compared with the current one, and only grow: *)
(* the model has who holds the current generation in place of its number.  *)
(* PlaybackOverlay's `restarted` decides nothing here; Casting has it.     *)
(***************************************************************************)
EXTENDS Integers, Sequences

CONSTANTS
  FadeSteps,   \* FADE_STEPS, the frames of one fade
  MaxCommands  \* bound: Plays, Stops and fallbacks

ASSUME LayersAssumption ==
  /\ FadeSteps \in Nat \ {0}
  /\ MaxCommands \in Nat

VARIABLES
  idle,        \* whether IdleScreenController has a current screen
  overlay,     \* PlaybackOverlay's state: [owner, active, opacity]
  osd,         \* what mpv draws above the video: [clock, fade, spinner]
  actor,       \* what each actor has still to do, and its fade's start and progress
  refreshers,  \* the clock's refresh threads
  turning,     \* whether a spinner thread has the overlay's current generation
  load,        \* mpv's file: "none", "loading" or "playing"
  events,      \* events the lifecycle watcher has not seen
  commands     \* commands so far

vars == <<idle, overlay, osd, actor, refreshers, turning, load, events, commands>>

Actors == {"operation", "lifecycle", "eof"}
Opaque == 255

\* The procedures, as the steps defined below.
Conceal == <<"begin", "fadeToBlack", "opaque">>
Spin    == <<"begin", "drawSpinner", "opaque", "spawnSpinner">>
ShowClock == <<"render", "shown">>
FadeInClock == <<"stopSpinner", "clearSpinner", "fadeClock", "clear">> \o ShowClock
\* play_media, and stop_locked in its three cases.
PlayMedia == Conceal \o <<"hide", "hidden">> \o Spin \o <<"loadfile">>
StopIdle    == <<"stop">> \o ShowClock
StopLoading == <<"stop", "backToClock">>
StopPlaying == Conceal \o StopLoading

Steps == {"begin", "fadeToBlack", "opaque", "drawSpinner", "spawnSpinner",
          "render", "shown", "stopSpinner", "clearSpinner", "fadeClock", "clear", "hide",
          "hidden", "loadfile", "stop", "backToClock", "reveal", "fadeAway",
          "clearIfCurrent", "restore"}
NoTask == [todo |-> <<>>, from |-> 0, frame |-> 0]
\* `newest`: its generation is the current one; `stray`: it has drawn when it was not.
Threads == [newest : BOOLEAN, at : {"sleep", "draw"}, stray : BOOLEAN]
NewThread == [newest |-> TRUE, at |-> "sleep", stray |-> FALSE]
Nobody  == "nobody"

TypeOK ==
  /\ idle \in BOOLEAN
  /\ overlay \in [owner : Actors \cup {Nobody}, active : BOOLEAN, opacity : 0..Opaque]
  /\ osd \in [clock : {"none", "dim", "full"}, fade : 0..Opaque,
              spinner : BOOLEAN]
  /\ actor \in [Actors -> [todo : Seq(Steps), from : 0..Opaque, frame : 0..FadeSteps]]
  /\ refreshers \in SUBSET Threads
  /\ turning \in BOOLEAN
  /\ load \in {"none", "loading", "playing"}
  /\ events \in Seq({"restart", "ended"})
  /\ commands \in 0..MaxCommands

\* Player::new: it shows the clock.
Init ==
  /\ idle = TRUE
  /\ overlay = [owner |-> Nobody, active |-> FALSE, opacity |-> 0]
  /\ osd = [clock |-> "full", fade |-> 0, spinner |-> FALSE]
  /\ actor = [a \in Actors |-> NoTask]
  /\ refreshers = {NewThread}
  /\ turning = FALSE
  /\ load = "none"
  /\ events = <<>>
  /\ commands = 0

-----------------------------------------------------------------------------
\* Steps

On(a, step) == actor[a].todo # <<>> /\ Head(actor[a].todo) = step

Goto(a, todo) == actor' = [actor EXCEPT ![a] = [NoTask EXCEPT !.todo = todo]]
Done(a) == Goto(a, Tail(actor[a].todo))

\* Mutant: one frame too far.
LerpBeyond(from, to, frame) ==
  IF to >= from THEN from + ((to - from) * (frame + 1)) \div FadeSteps
                ELSE from - ((from - to) * (frame + 1)) \div FadeSteps

\* lerp_u8, whose division truncates.
Lerp(from, to, frame) ==
  IF to >= from THEN from + ((to - from) * frame) \div FadeSteps
                ELSE from - ((from - to) * frame) \div FadeSteps

world == <<load, events, commands>>

\* PlaybackOverlay::begin, with the opacity a fade starts from.
Begin(a) ==
  /\ On(a, "begin")
  /\ overlay' = [overlay EXCEPT !.owner = a, !.active = TRUE]
  /\ turning' = FALSE
  /\ actor' = [actor EXCEPT ![a] = [todo |-> Tail(@.todo), frame |-> 1,
                                    from |-> overlay.opacity]]
  /\ UNCHANGED <<idle, osd, refreshers, world>>

\* Mutant: drawn whoever owns the overlay by now.
OwnsAnyway(a) == TRUE
\* draw_if_current's look, under the lock it holds while it draws.
Owns(a) == overlay.owner = a

\* One frame of conceal's or reveal's fade; a superseded fade is over.
Fade(a, step, to) ==
  /\ On(a, step)
  /\ IF Owns(a)
     THEN /\ osd' = [osd EXCEPT !.fade = Lerp(actor[a].from, to, actor[a].frame),
                                !.spinner = FALSE]
          /\ IF actor[a].frame < FadeSteps
             THEN actor' = [actor EXCEPT ![a].frame = @ + 1]
             ELSE Done(a)
     ELSE Done(a) /\ UNCHANGED osd
  /\ UNCHANGED <<idle, overlay, refreshers, turning, world>>

\* The opacity reached is recorded, if it is still one's own.
RecordOpaque(a) ==
  /\ On(a, "opaque")
  /\ overlay' = IF Owns(a) THEN [overlay EXCEPT !.opacity = Opaque] ELSE overlay
  /\ Done(a)
  /\ UNCHANGED <<idle, osd, refreshers, turning, world>>

\* spawn_spinner: the first frame, on opaque black; superseded, there will be no
\* thread ...
DrawSpinner(a) ==
  /\ On(a, "drawSpinner")
  /\ IF Owns(a)
     THEN osd' = [osd EXCEPT !.fade = Opaque, !.spinner = TRUE] /\ Done(a)
     ELSE Goto(a, <<"loadfile">>) /\ UNCHANGED osd
  /\ UNCHANGED <<idle, overlay, refreshers, turning, world>>

\* Mutant: a thread that starts out superseded.
SpawnStopped(a) ==
  /\ On(a, "spawnSpinner")
  /\ turning' = FALSE
  /\ Done(a)
  /\ UNCHANGED <<idle, overlay, osd, refreshers, world>>

\* ... and the thread that turns it.
SpawnSpinner(a) ==
  /\ On(a, "spawnSpinner")
  /\ turning' = Owns(a)
  /\ Done(a)
  /\ UNCHANGED <<idle, overlay, osd, refreshers, world>>

\* Mutant: the overlay goes without a new generation.
SameGeneration == UNCHANGED turning
\* What has no generation any more does not draw.
NewGeneration == turning' = FALSE

\* clear_if_current: state and screen under one lock.
Clear(a) ==
  /\ On(a, "clear") \/ On(a, "clearIfCurrent")
  /\ IF On(a, "clear") \/ Owns(a)
     THEN /\ overlay' = [owner |-> Nobody, active |-> FALSE, opacity |-> 0]
          /\ NewGeneration
          /\ osd' = [osd EXCEPT !.fade = 0, !.spinner = FALSE]
     ELSE UNCHANGED <<overlay, turning, osd>>
  /\ Done(a)
  /\ UNCHANGED <<idle, refreshers, world>>

\* stop_spinner: its thread is cancelled, then its layer removed without the lock.
StopSpinner(a) ==
  /\ On(a, "stopSpinner")
  /\ overlay' = [overlay EXCEPT !.owner = Nobody]
  /\ NewGeneration
  /\ Done(a)
  /\ UNCHANGED <<idle, osd, refreshers, world>>

ClearSpinner(a) ==
  /\ On(a, "clearSpinner")
  /\ osd' = [osd EXCEPT !.spinner = FALSE]
  /\ Done(a)
  /\ UNCHANGED <<idle, overlay, refreshers, turning, world>>

\* render_at, from invisible to opaque; no generation ends it.
FadeClock(a) ==
  /\ On(a, "fadeClock")
  /\ osd' = [osd EXCEPT !.clock = IF actor[a].frame = FadeSteps THEN "full" ELSE "dim"]
  /\ IF actor[a].frame < FadeSteps
     THEN actor' = [actor EXCEPT ![a].frame = @ + 1]
     ELSE Done(a)
  /\ UNCHANGED <<idle, overlay, refreshers, turning, world>>

\* IdleScreenController::show: the clock is drawn ...
Render(a) ==
  /\ On(a, "render")
  /\ osd' = [osd EXCEPT !.clock = "full"]
  /\ Done(a)
  /\ UNCHANGED <<idle, overlay, refreshers, turning, world>>

\* The threads under a new generation of the idle screen.
Superseded == {[t EXCEPT !.newest = FALSE] : t \in refreshers}

\* Mutant: the clock's thread is not started.
ShownOnce(a) ==
  /\ On(a, "shown")
  /\ idle' = TRUE
  /\ refreshers' = Superseded
  /\ Done(a)
  /\ UNCHANGED <<overlay, osd, turning, world>>

\* ... and becomes the current screen, with a thread of its own.
Shown(a) ==
  /\ On(a, "shown")
  /\ idle' = TRUE
  /\ refreshers' = Superseded \cup {NewThread}
  /\ Done(a)
  /\ UNCHANGED <<overlay, osd, turning, world>>

\* IdleScreenController::hide: the state, if there is a screen to hide ...
Hide(a) ==
  /\ On(a, "hide")
  /\ IF idle
     THEN /\ idle' = FALSE
          /\ refreshers' = Superseded
          /\ Done(a)
     ELSE Goto(a, Tail(Tail(actor[a].todo))) /\ UNCHANGED <<idle, refreshers>>
  /\ UNCHANGED <<overlay, osd, turning, world>>

\* ... then its layers, after the lock was released.
Hidden(a) ==
  /\ On(a, "hidden")
  /\ osd' = [osd EXCEPT !.clock = "none"]
  /\ Done(a)
  /\ UNCHANGED <<idle, overlay, refreshers, turning, world>>

\* mpv's loadfile and stop.
Command(a) ==
  /\ On(a, "loadfile") \/ On(a, "stop")
  /\ load' = IF On(a, "loadfile") THEN "loading" ELSE "none"
  /\ Done(a)
  /\ UNCHANGED <<idle, overlay, osd, refreshers, turning, events, commands>>

\* fade_in_idle_clock, which does not fade a clock that is current.
BackToClock(a) ==
  /\ On(a, "backToClock")
  /\ Goto(a, IF idle THEN <<"clear">> \o ShowClock ELSE FadeInClock)
  /\ UNCHANGED <<idle, overlay, osd, refreshers, turning, world>>

\* reveal and restore_idle_clock, which do nothing when nothing is up; the check
\* and what follows it take the lock one after the other.
IfActive(a) ==
  /\ \/ On(a, "reveal") /\ Goto(a, IF overlay.active
                                   THEN <<"begin", "fadeAway", "clearIfCurrent">> ELSE <<>>)
     \/ On(a, "restore") /\ Goto(a, IF overlay.active THEN FadeInClock ELSE <<>>)
  /\ UNCHANGED <<idle, overlay, osd, refreshers, turning, world>>

Step(a) ==
  \/ Begin(a)
  \/ Fade(a, "fadeToBlack", Opaque)
  \/ Fade(a, "fadeAway", 0)
  \/ RecordOpaque(a) \/ DrawSpinner(a) \/ SpawnSpinner(a)
  \/ Clear(a) \/ StopSpinner(a) \/ ClearSpinner(a)
  \/ FadeClock(a) \/ Render(a) \/ Shown(a) \/ Hide(a) \/ Hidden(a)
  \/ Command(a) \/ BackToClock(a) \/ IfActive(a)

-----------------------------------------------------------------------------
\* The threads that redraw

\* Mutant: any clock on screen keeps the thread going.
StillClock(t) == idle
StillCurrent(t) == idle /\ t.newest

\* A second has passed; the look at the state holds no lock on to the redraw.  The
\* wallpaper that may be loaded in between, under the operation lock, is Casting's.
RefreshWakes(t) ==
  /\ t.at = "sleep"
  /\ refreshers' = (refreshers \ {t}) \cup
       (IF StillCurrent(t) THEN {[t EXCEPT !.at = "draw"]} ELSE {})
  /\ UNCHANGED <<idle, overlay, osd, actor, turning, world>>

RefreshDraws(t) ==
  /\ t.at = "draw"
  /\ osd' = [osd EXCEPT !.clock = "full"]
  /\ refreshers' = (refreshers \ {t}) \cup
       {[t EXCEPT !.at = "sleep", !.stray = @ \/ ~t.newest]}
  /\ UNCHANGED <<idle, overlay, actor, turning, world>>

Refresh(t) == RefreshWakes(t) \/ RefreshDraws(t)

\* A turn of the spinner, drawn under the lock; a superseded thread only ends.
SpinnerTurn ==
  /\ turning
  /\ osd' = [osd EXCEPT !.spinner = TRUE]
  /\ UNCHANGED <<idle, overlay, actor, refreshers, turning, world>>

-----------------------------------------------------------------------------
\* Who sets the actors to work

Free(a) == actor[a].todo = <<>>

OnScreen == <<idle, overlay, osd, refreshers, turning>>

Operate(todo) ==
  /\ Free("operation")
  /\ commands < MaxCommands
  /\ commands' = commands + 1
  /\ Goto("operation", todo)
  /\ UNCHANGED <<OnScreen, load, events>>

Play == Operate(PlayMedia)

\* stop_locked looks at both screens first.
Stop == Operate(CASE overlay.active -> StopLoading
                  [] idle /\ ~overlay.active -> StopIdle
                  [] OTHER -> StopPlaying)

\* fall_back_to_browser, and play_webpage behind its page.
FallBack == Operate(StopIdle)
PlayWebpage == Operate(<<"stop", "clear">> \o ShowClock)

\* Seek takes no lock; mpv reports a restart for it too.
Seek ==
  /\ load = "playing"
  /\ commands < MaxCommands
  /\ commands' = commands + 1
  /\ events' = Append(events, "restart")
  /\ UNCHANGED <<OnScreen, actor, load>>

MpvPlays ==
  /\ load = "loading"
  /\ load' = "playing"
  /\ events' = Append(events, "restart")
  /\ UNCHANGED <<OnScreen, actor, commands>>

MpvFails ==
  /\ load # "none"
  /\ load' = "none"
  /\ events' = Append(events, "ended")
  /\ UNCHANGED <<OnScreen, actor, commands>>

\* handle_lifecycle_event.
Lifecycle ==
  /\ Free("lifecycle") /\ events # <<>>
  /\ events' = Tail(events)
  /\ Goto("lifecycle", IF Head(events) = "restart" THEN <<"reveal">> ELSE <<"restore">>)
  /\ UNCHANGED <<OnScreen, load, commands>>

\* The end of a file with nothing to follow it.
EndOfFile ==
  /\ Free("eof") /\ load = "playing"
  /\ load' = "none"
  /\ Goto("eof", ShowClock)
  /\ UNCHANGED <<OnScreen, events, commands>>

Next ==
  \/ \E a \in Actors : Step(a)
  \/ \E t \in refreshers : Refresh(t)
  \/ SpinnerTurn
  \/ Play \/ Stop \/ FallBack \/ PlayWebpage \/ Seek
  \/ MpvPlays \/ MpvFails \/ Lifecycle \/ EndOfFile

Spec == Init /\ [][Next]_vars

\* Actors finish what they began, and the threads get their turns: of the clock's
\* the one that belongs to the clock on screen.
Fairness ==
  /\ \A a \in Actors : WF_vars(Step(a))
  /\ WF_vars(Lifecycle)
  /\ WF_vars(\E t \in refreshers : StillCurrent(t) /\ Refresh(t))
  /\ WF_vars(SpinnerTurn)

FairSpec == Spec /\ Fairness

-----------------------------------------------------------------------------
\* What can be relied on

\* "A draw that passed the staleness check can never land after the overlays have
\* been removed" (draw_if_current): with the overlay inactive, neither its black
\* nor its spinner is on screen, whatever fades and spinner threads are still there.
NothingLeftBehind == ~overlay.active => osd.fade = 0 /\ ~osd.spinner

\* The spinner turns on opaque black only: no fade makes the screen show through
\* under it, in whatever order conceal, reveal and a new load's spinner meet.
SpinnerOnBlack == osd.spinner => osd.fade = Opaque

\* "A redraw thread from a superseded show notices it's stale and exits" (State of
\* idle_screen.rs): at most one of its redraws comes too late.
OneStrayEach == [][\A t \in refreshers : t.stray => ~RefreshDraws(t)]_vars

\* However the fades of two actors meet (the lifecycle watcher fades the clock in
\* without the operation lock, against render_at's contract), a clock that is the
\* current screen does not stay half transparent or erased.
ClockHeals == []<>(idle => osd.clock = "full")

\* A spinner on screen is being turned: one whose thread was superseded goes.
StoppedSpinner == osd.spinner /\ ~turning
SpinnerTurns == StoppedSpinner ~> ~StoppedSpinner
=============================================================================
