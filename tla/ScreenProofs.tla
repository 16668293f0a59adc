---------------------------- MODULE ScreenProofs -----------------------------
(***************************************************************************)
(* Proofs about ScreenLayers, for fades of any length and any number of    *)
(* commands: what an inactive overlay leaves on screen, what the spinner   *)
(* turns on, and how late a superseded clock thread may draw.              *)
(*                                                                         *)
(* What an actor does next depends on what it has just done.  The          *)
(* procedures are lists of steps; Chained says what of their order the     *)
(* proofs lean on, and is kept as the lists are worked off.                *)
(***************************************************************************)
EXTENDS ScreenLayers, TLAPS

-----------------------------------------------------------------------------
\* Procedures

\* A fade and a first spinner frame come right after the `begin` that took the
\* generation, a spinner's thread right after the record of its first frame; `hidden`
\* right after the `hide` that may skip it.
Chained(todo) ==
  \A k \in 1..Len(todo) :
    /\ todo[k] = "hide" => k < Len(todo) /\ todo[k + 1] = "hidden"
    /\ k > 1 /\ todo[k] \in {"fadeToBlack", "fadeAway", "drawSpinner"} =>
         todo[k - 1] = "begin"
    /\ k > 1 /\ todo[k] = "opaque" => todo[k - 1] \in {"fadeToBlack", "drawSpinner"}
    /\ k > 1 /\ todo[k] = "spawnSpinner" =>
         todo[k - 1] = "opaque" /\ (k > 2 => todo[k - 2] = "drawSpinner")

Tasks == {todo \in Seq(Steps) : Chained(todo)}

\* Steps that only make sense behind others of their procedure.
Inner == {"fadeToBlack", "fadeAway", "drawSpinner", "opaque", "spawnSpinner"}
Entries == {todo \in Tasks : todo # <<>> => todo[1] \notin Inner}

\* One procedure after another.
LEMMA ConcatTask ==
  ASSUME NEW s \in Entries, NEW t \in Entries
  PROVE  s \o t \in Entries
<1>1. /\ s \in Seq(Steps) /\ t \in Seq(Steps)
      /\ s \o t \in Seq(Steps)
      /\ Len(s \o t) = Len(s) + Len(t) /\ Len(s) \in Nat /\ Len(t) \in Nat
      /\ \A k \in 1..Len(s) + Len(t) :
           (s \o t)[k] = IF k <= Len(s) THEN s[k] ELSE t[k - Len(s)]
  BY DEF Entries, Tasks
<1>2. /\ Chained(s) /\ Chained(t)
      /\ Len(s) > 0 => s[1] \notin Inner
      /\ Len(t) > 0 => t[1] \notin Inner
  BY <1>1 DEF Entries, Tasks
<1>3. Chained(s \o t)
  BY <1>1, <1>2, SMTT(30) DEF Chained, Inner
<1>4. s \o t # <<>> => (s \o t)[1] \notin Inner
  <2>1. s \o t # <<>> => Len(s \o t) > 0
    BY <1>1
  <2> QED
    BY <1>1, <1>2, <2>1
<1> DEFINE r == s \o t
<1>5. r \in Seq(Steps) /\ Chained(r) /\ (r # <<>> => r[1] \notin Inner)
  BY <1>1, <1>3, <1>4
<1> HIDE DEF r
<1>6. r \in Entries
  BY <1>5 DEF Entries, Tasks
<1> QED
  BY <1>6 DEF r

\* A procedure worked off by one step.
LEMMA TailTask ==
  ASSUME NEW s \in Tasks, s # <<>>
  PROVE  /\ Tail(s) \in Tasks
         /\ Head(s) = s[1] /\ Len(s) \in Nat /\ Len(s) > 0
         /\ Len(Tail(s)) = Len(s) - 1
         /\ \A k \in 1..Len(s) - 1 : Tail(s)[k] = s[k + 1]
<1>1. /\ s \in Seq(Steps) /\ Len(s) \in Nat /\ Len(s) > 0 /\ Head(s) = s[1]
      /\ Tail(s) \in Seq(Steps)
      /\ Len(Tail(s)) = Len(s) - 1
  BY DEF Tasks
<1>2. \A k \in 1..Len(s) - 1 : Tail(s)[k] = s[k + 1]
  BY <1>1
<1>3. Chained(Tail(s))
  BY <1>1, <1>2 DEF Tasks, Chained
<1> QED
  BY <1>1, <1>2, <1>3 DEF Tasks

\* Hide finds nothing to hide and leaves out `hidden` too.
LEMMA SkipTask ==
  ASSUME NEW s \in Tasks, s # <<>>, Head(s) = "hide"
  PROVE  Tail(Tail(s)) \in Entries
<1> DEFINE r == Tail(s)
           t == Tail(r)
<1>1. /\ r \in Tasks /\ s[1] = "hide" /\ Chained(s)
      /\ Len(s) \in Nat /\ Len(s) > 0 /\ Len(r) = Len(s) - 1
      /\ \A k \in 1..Len(s) - 1 : r[k] = s[k + 1]
  BY TailTask DEF Tasks
<1>2. Len(s) > 1 /\ s[2] = "hidden"
  BY <1>1 DEF Chained
<1> HIDE DEF r
<1>3. r # <<>>
  <2>1. Len(r) # 0
    BY <1>1, <1>2
  <2> QED
    BY <2>1
<1>4. /\ t \in Tasks /\ Len(t) = Len(r) - 1
      /\ \A k \in 1..Len(r) - 1 : t[k] = r[k + 1]
  BY <1>1, <1>3, TailTask
<1> HIDE DEF t
<1>5. t # <<>> => Len(t) # 0
  BY <1>4 DEF Tasks
<1>6. Len(t) # 0 => Len(s) > 2 /\ t[1] = s[3]
  BY <1>1, <1>2, <1>4
<1>7. Len(s) > 2 => s[3] \notin Inner
  BY <1>1, <1>2 DEF Chained, Inner
<1>8. t \in Entries
  BY <1>4, <1>5, <1>6, <1>7 DEF Entries
<1> QED
  BY <1>8 DEF r, t

\* The procedures of the source.
LEMMA Procedures ==
  /\ {<<>>, PlayMedia, StopIdle, StopLoading, StopPlaying, FadeInClock, ShowClock,
      <<"stop", "clear">> \o ShowClock, <<"clear">> \o ShowClock} \subseteq Entries
  /\ {<<"begin", "fadeAway", "clearIfCurrent">>, <<"reveal">>, <<"restore">>,
      <<"loadfile">>} \subseteq Entries
<1> USE DEF Entries, Tasks, Chained, Steps, Inner
<1>1. /\ <<>> \in Entries /\ Conceal \in Entries /\ Spin \in Entries
      /\ ShowClock \in Entries
  BY DEF Conceal, Spin, ShowClock
<1>2. /\ <<"hide", "hidden">> \in Entries /\ <<"loadfile">> \in Entries
      /\ <<"stop">> \in Entries /\ StopLoading \in Entries
      /\ <<"stop", "clear">> \in Entries /\ <<"clear">> \in Entries
      /\ <<"reveal">> \in Entries /\ <<"restore">> \in Entries
  BY DEF StopLoading
<1>3. <<"begin", "fadeAway", "clearIfCurrent">> \in Entries
  OBVIOUS
<1>4. <<"stopSpinner", "clearSpinner", "fadeClock", "clear">> \in Entries
  OBVIOUS
<1> HIDE DEF Entries
<1>5. PlayMedia \in Entries
  BY <1>1, <1>2, ConcatTask DEF PlayMedia
<1>6. StopIdle \in Entries /\ StopPlaying \in Entries
  BY <1>1, <1>2, ConcatTask DEF StopIdle, StopPlaying
<1>7. /\ FadeInClock \in Entries /\ <<"clear">> \o ShowClock \in Entries
      /\ <<"stop", "clear">> \o ShowClock \in Entries
  BY <1>1, <1>2, <1>4, ConcatTask DEF FadeInClock
<1> QED
  BY <1>1, <1>2, <1>3, <1>5, <1>6, <1>7

-----------------------------------------------------------------------------
\* Type correctness

Frames == [todo : Seq(Steps), from : 0..Opaque, frame : 0..FadeSteps]

\* Every actor is somewhere in one of the procedures.
Scheduled == actor \in [Actors -> Frames] /\ \A a \in Actors : actor[a].todo \in Tasks

\* lerp_u8 stays between its ends.
LEMMA LerpRange ==
  ASSUME NEW from \in 0..Opaque, NEW to \in 0..Opaque, NEW frame \in 0..FadeSteps
  PROVE  Lerp(from, to, frame) \in 0..Opaque
<1>1. ASSUME NEW x \in 0..Opaque
      PROVE  (x * frame) \div FadeSteps \in 0..x
  <2> DEFINE q == (x * frame) \div FadeSteps
  <2>1. /\ FadeSteps \in Nat /\ FadeSteps > 0
        /\ x \in Nat /\ frame \in Nat /\ frame <= FadeSteps
    BY LayersAssumption DEF Opaque
  <2>2. x * frame \in Nat /\ x * frame <= x * FadeSteps
    BY <2>1
  <2>3. q \in Int /\ FadeSteps * q <= x * frame /\ x * frame < FadeSteps * (q + 1)
    BY <2>1, <2>2
  <2> HIDE DEF q
  <2>4. q >= 0
    BY <2>1, <2>2, <2>3
  <2>5. q <= x
    <3> SUFFICES ASSUME q >= x + 1 PROVE FALSE
      BY <2>1, <2>3
    <3>1. FadeSteps * q >= FadeSteps * (x + 1)
      BY <2>1, <2>3
    <3> QED
      BY <2>1, <2>2, <2>3, <3>1
  <2> QED
    BY <2>1, <2>3, <2>4, <2>5 DEF q
<1>2. CASE to >= from
  <2>1. to - from \in 0..Opaque
    BY <1>2 DEF Opaque
  <2> DEFINE r == ((to - from) * frame) \div FadeSteps
  <2>2. r \in 0..(to - from)
    BY <1>1, <2>1
  <2>3. Lerp(from, to, frame) = from + r
    BY <1>2 DEF Lerp
  <2> HIDE DEF r
  <2> QED
    BY <2>2, <2>3 DEF Opaque
<1>3. CASE ~(to >= from)
  <2>1. from - to \in 0..Opaque
    BY <1>3 DEF Opaque
  <2> DEFINE r == ((from - to) * frame) \div FadeSteps
  <2>2. r \in 0..(from - to)
    BY <1>1, <2>1
  <2>3. Lerp(from, to, frame) = from - r
    BY <1>3 DEF Lerp
  <2> HIDE DEF r
  <2> QED
    BY <2>2, <2>3 DEF Opaque
<1> QED
  BY <1>2, <1>3

\* Going on with some procedure, or with the rest of one's own.
LEMMA GotoSchedule ==
  ASSUME Scheduled, NEW a \in Actors, NEW todo \in Tasks, Goto(a, todo)
  PROVE  /\ Scheduled'
         /\ actor'[a].todo = todo
         /\ \A b \in Actors \ {a} : actor'[b] = actor[b]
<1>1. 0 \in 0..Opaque /\ 0 \in 0..FadeSteps /\ todo \in Seq(Steps)
  BY LayersAssumption DEF Opaque, Tasks
<1> DEFINE next == [NoTask EXCEPT !.todo = todo]
<1>2. next = [todo |-> todo, from |-> 0, frame |-> 0]
  BY DEF NoTask
<1>3. next \in Frames
  BY <1>1, <1>2 DEF Frames
<1>4. next.todo = todo
  BY <1>2
<1> HIDE DEF next
<1>5. actor' = [actor EXCEPT ![a] = next]
  BY DEF Goto, next
<1> QED
  BY <1>3, <1>4, <1>5 DEF Scheduled

LEMMA DoneSchedule ==
  ASSUME Scheduled, NEW a \in Actors, actor[a].todo # <<>>, Done(a)
  PROVE  /\ Scheduled'
         /\ actor'[a].todo = Tail(actor[a].todo)
         /\ \A b \in Actors \ {a} : actor'[b] = actor[b]
<1>1. Tail(actor[a].todo) \in Tasks
  BY TailTask DEF Scheduled
<1> QED
  BY <1>1, GotoSchedule DEF Done

\* An actor's fade goes one frame on, or starts.
LEMMA FrameSchedule ==
  ASSUME Scheduled, NEW a \in Actors, NEW next \in Frames, next.todo \in Tasks,
         actor' = [actor EXCEPT ![a] = next]
  PROVE  /\ Scheduled'
         /\ actor'[a].todo = next.todo
         /\ \A b \in Actors \ {a} : actor'[b] = actor[b]
BY DEF Scheduled

LEMMA NextFrame ==
  ASSUME NEW x \in Frames, x.frame < FadeSteps
  PROVE  /\ [x EXCEPT !.frame = @ + 1] \in Frames
         /\ [x EXCEPT !.frame = @ + 1].todo = x.todo
<1>1. x.frame + 1 \in 0..FadeSteps
  BY LayersAssumption DEF Frames
<1> QED
  BY <1>1 DEF Frames

\* What is left when the schedule is accounted for.
TypeRest ==
  /\ idle \in BOOLEAN
  /\ overlay \in [owner : Actors \cup {Nobody}, active : BOOLEAN, opacity : 0..Opaque]
  /\ osd \in [clock : {"none", "dim", "full"}, fade : 0..Opaque, spinner : BOOLEAN]
  /\ refreshers \in SUBSET Threads
  /\ turning \in BOOLEAN
  /\ load \in {"none", "loading", "playing"}
  /\ events \in Seq({"restart", "ended"})
  /\ commands \in 0..MaxCommands

LEMMA TypeParts == TypeRest /\ Scheduled => TypeOK
BY DEF TypeOK, TypeRest, Scheduled, Frames

\* A step on the overlay and the OSD keeps the types.
LEMMA DrawTypes ==
  ASSUME TypeRest, Scheduled, NEW a \in Actors,
         \/ Begin(a) \/ Fade(a, "fadeToBlack", Opaque) \/ Fade(a, "fadeAway", 0)
         \/ RecordOpaque(a) \/ DrawSpinner(a) \/ SpawnSpinner(a)
         \/ Clear(a) \/ StopSpinner(a) \/ ClearSpinner(a)
  PROVE  TypeRest' /\ Scheduled'
<1> USE DEF TypeRest, world, On
<1>0. /\ 0 \in 0..Opaque /\ Opaque \in 0..Opaque
      /\ actor[a] \in Frames /\ actor[a].todo \in Tasks
      /\ overlay.opacity \in 0..Opaque
      /\ Nobody \in Actors \cup {Nobody}
  BY DEF Opaque, Scheduled
<1>1. CASE Begin(a)
  <2> DEFINE next == [todo |-> Tail(actor[a].todo), frame |-> 1, from |-> overlay.opacity]
  <2>1. Tail(actor[a].todo) \in Tasks /\ 1 \in 0..FadeSteps
    BY <1>0, <1>1, TailTask, LayersAssumption DEF Begin
  <2>2. next \in Frames /\ next.todo \in Tasks
    BY <1>0, <2>1 DEF Frames, Tasks
  <2>3. actor' = [actor EXCEPT ![a] = next]
    BY <1>1 DEF Begin
  <2> HIDE DEF next
  <2> QED
    BY <1>1, <2>2, <2>3, FrameSchedule DEF Begin
<1>2. ASSUME NEW step, NEW to \in 0..Opaque, Fade(a, step, to)
      PROVE  TypeRest' /\ Scheduled'
  <2>1. Lerp(actor[a].from, to, actor[a].frame) \in 0..Opaque
    BY <1>0, LerpRange DEF Frames
  <2>2. TypeRest'
    BY <1>2, <2>1 DEF Fade
  <2>3. CASE actor' = [actor EXCEPT ![a].frame = @ + 1] /\ actor[a].frame < FadeSteps
    <3> DEFINE next == [actor[a] EXCEPT !.frame = @ + 1]
    <3>1. next \in Frames /\ next.todo = actor[a].todo
      BY <1>0, <2>3, NextFrame
    <3>2. actor' = [actor EXCEPT ![a] = next]
      BY <2>3
    <3> HIDE DEF next
    <3> QED
      BY <1>0, <2>2, <3>1, <3>2, FrameSchedule
  <2>4. CASE Done(a)
    BY <1>2, <2>2, <2>4, DoneSchedule DEF Fade
  <2> QED
    BY <1>2, <2>3, <2>4 DEF Fade
<1>3. CASE RecordOpaque(a)
  BY <1>0, <1>3, DoneSchedule DEF RecordOpaque
<1>4. CASE DrawSpinner(a)
  <2>1. <<"loadfile">> \in Tasks
    BY Procedures DEF Entries
  <2>2. Scheduled'
    BY <1>4, <2>1, DoneSchedule, GotoSchedule DEF DrawSpinner
  <2>3. osd' = [osd EXCEPT !.fade = Opaque, !.spinner = TRUE] \/ osd' = osd
    BY <1>4 DEF DrawSpinner
  <2> QED
    BY <1>0, <1>4, <2>2, <2>3 DEF DrawSpinner
<1>5. CASE SpawnSpinner(a)
  BY <1>0, <1>5, DoneSchedule DEF SpawnSpinner, Owns
<1>6. CASE Clear(a)
  <2>1. Scheduled'
    BY <1>6, DoneSchedule DEF Clear
  <2>2. CASE On(a, "clear") \/ Owns(a)
    <3>1. /\ overlay' = [owner |-> Nobody, active |-> FALSE, opacity |-> 0]
          /\ turning' = FALSE
          /\ osd' = [osd EXCEPT !.fade = 0, !.spinner = FALSE]
      BY <1>6, <2>2 DEF Clear, NewGeneration
    <3>2. UNCHANGED <<idle, refreshers, world>>
      BY <1>6 DEF Clear
    <3> QED
      BY <1>0, <2>1, <3>1, <3>2
  <2>3. CASE ~(On(a, "clear") \/ Owns(a))
    <3>1. UNCHANGED <<overlay, turning, osd, idle, refreshers, world>>
      BY <1>6, <2>3 DEF Clear
    <3> QED
      BY <2>1, <3>1
  <2> QED
    BY <2>2, <2>3
<1>7. CASE StopSpinner(a)
  BY <1>0, <1>7, DoneSchedule DEF StopSpinner, NewGeneration
<1>8. CASE ClearSpinner(a)
  BY <1>0, <1>8, DoneSchedule DEF ClearSpinner
<1> QED
  BY <1>0, <1>1, <1>2, <1>3, <1>4, <1>5, <1>6, <1>7, <1>8

\* A clock shown supersedes the threads there are.
LEMMA ThreadTypes ==
  ASSUME refreshers \in SUBSET Threads
  PROVE  Superseded \in SUBSET Threads /\ NewThread \in Threads
BY DEF Superseded, Threads, NewThread

\* So does a step on the clock, or one that only goes on elsewhere.
LEMMA ClockTypes ==
  ASSUME TypeRest, Scheduled, NEW a \in Actors,
         \/ FadeClock(a) \/ Render(a) \/ Shown(a) \/ Hide(a) \/ Hidden(a)
         \/ Command(a) \/ BackToClock(a) \/ IfActive(a)
  PROVE  TypeRest' /\ Scheduled'
<1> USE DEF TypeRest, world, On
<1>0. actor[a] \in Frames /\ actor[a].todo \in Tasks
  BY DEF Scheduled
<1>1. CASE FadeClock(a)
  <2>1. TypeRest'
    BY <1>1 DEF FadeClock
  <2>2. CASE actor' = [actor EXCEPT ![a].frame = @ + 1] /\ actor[a].frame < FadeSteps
    <3> DEFINE next == [actor[a] EXCEPT !.frame = @ + 1]
    <3>1. next \in Frames /\ next.todo = actor[a].todo
      BY <1>0, <2>2, NextFrame
    <3>2. actor' = [actor EXCEPT ![a] = next]
      BY <2>2
    <3> HIDE DEF next
    <3> QED
      BY <1>0, <2>1, <3>1, <3>2, FrameSchedule
  <2> QED
    BY <1>1, <2>1, <2>2, DoneSchedule DEF FadeClock
<1>2. CASE Render(a) \/ Hidden(a)
  BY <1>2, DoneSchedule DEF Render, Hidden
<1>3. CASE Shown(a)
  BY <1>3, DoneSchedule, ThreadTypes DEF Shown
<1>4. CASE Hide(a)
  <2>1. CASE idle
    BY <1>4, <2>1, DoneSchedule, ThreadTypes DEF Hide
  <2>2. CASE ~idle
    <3>1. Tail(Tail(actor[a].todo)) \in Tasks
      BY <1>0, <1>4, SkipTask DEF Hide, Entries
    <3> QED
      BY <1>4, <2>2, <3>1, GotoSchedule DEF Hide
  <2> QED
    BY <2>1, <2>2
<1>5. CASE Command(a)
  BY <1>5, DoneSchedule DEF Command
<1>6. CASE BackToClock(a)
  BY <1>6, GotoSchedule, Procedures DEF BackToClock, Entries
<1>7. CASE IfActive(a)
  BY <1>7, GotoSchedule, Procedures DEF IfActive, Entries
<1> QED
  BY <1>1, <1>2, <1>3, <1>4, <1>5, <1>6, <1>7

\* And so does everything else.
LEMMA OtherTypes ==
  ASSUME TypeRest, Scheduled,
         \/ \E t \in refreshers : Refresh(t)
         \/ SpinnerTurn
         \/ Play \/ Stop \/ FallBack \/ PlayWebpage \/ Seek
         \/ MpvPlays \/ MpvFails \/ Lifecycle \/ EndOfFile
         \/ UNCHANGED vars
  PROVE  TypeRest' /\ Scheduled'
<1> USE DEF TypeRest, world, OnScreen
<1>1. CASE UNCHANGED vars
  BY <1>1 DEF vars, Scheduled
<1>2. CASE \E t \in refreshers : Refresh(t)
  <2>1. PICK t \in refreshers : Refresh(t)
    BY <1>2
  <2>2. /\ t \in Threads
        /\ [t EXCEPT !.at = "draw"] \in Threads
        /\ [t EXCEPT !.at = "sleep", !.stray = @ \/ ~t.newest] \in Threads
    BY DEF Threads
  <2>3. CASE RefreshWakes(t)
    BY <2>2, <2>3 DEF RefreshWakes, Scheduled
  <2>4. CASE RefreshDraws(t)
    BY <2>2, <2>4 DEF RefreshDraws, Scheduled
  <2> QED
    BY <2>1, <2>3, <2>4 DEF Refresh
<1>3. CASE SpinnerTurn
  BY <1>3 DEF SpinnerTurn, Scheduled
<1>4. ASSUME NEW todo \in Entries, Operate(todo)
      PROVE  TypeRest' /\ Scheduled'
  <2>1. commands' \in 0..MaxCommands
    BY <1>4, LayersAssumption DEF Operate
  <2>2. Goto("operation", todo) /\ todo \in Tasks /\ "operation" \in Actors
    BY <1>4 DEF Operate, Entries, Actors
  <2> QED
    BY <1>4, <2>1, <2>2, GotoSchedule DEF Operate
<1>5. CASE Play \/ Stop \/ FallBack \/ PlayWebpage
  BY <1>4, <1>5, Procedures DEF Play, Stop, FallBack, PlayWebpage
<1>6. CASE Seek
  BY <1>6, LayersAssumption DEF Seek, Scheduled
<1>7. CASE MpvPlays \/ MpvFails
  <2>1. /\ Append(events, "restart") \in Seq({"restart", "ended"})
        /\ Append(events, "ended") \in Seq({"restart", "ended"})
    OBVIOUS
  <2>2. Scheduled'
    BY <1>7 DEF MpvPlays, MpvFails, Scheduled
  <2> QED
    BY <1>7, <2>1, <2>2 DEF MpvPlays, MpvFails
<1>8. CASE Lifecycle
  <2>1. "lifecycle" \in Actors
    BY DEF Actors
  <2>2. events' \in Seq({"restart", "ended"})
    BY <1>8 DEF Lifecycle
  <2> QED
    BY <1>8, <2>1, <2>2, GotoSchedule, Procedures DEF Lifecycle, Entries
<1>9. CASE EndOfFile
  <2>1. "eof" \in Actors
    BY DEF Actors
  <2> QED
    BY <1>9, <2>1, GotoSchedule, Procedures DEF EndOfFile, Entries
<1> QED
  BY <1>1, <1>2, <1>3, <1>5, <1>6, <1>7, <1>8, <1>9

LEMMA Schedules == Spec => [](TypeRest /\ Scheduled)
<1>1. Init => TypeRest /\ Scheduled
  <2> SUFFICES ASSUME Init PROVE TypeRest /\ Scheduled
    OBVIOUS
  <2>1. NoTask \in Frames /\ NoTask.todo \in Tasks
    BY LayersAssumption DEF NoTask, Frames, Tasks, Chained, Opaque
  <2>2. Scheduled
    BY <2>1 DEF Init, Scheduled
  <2>3. /\ 0 \in 0..Opaque /\ 0 \in 0..MaxCommands
        /\ {NewThread} \in SUBSET Threads
        /\ <<>> \in Seq({"restart", "ended"})
    BY LayersAssumption DEF Opaque, Threads, NewThread
  <2>4. /\ [owner |-> Nobody, active |-> FALSE, opacity |-> 0]
             \in [owner : Actors \cup {Nobody}, active : BOOLEAN, opacity : 0..Opaque]
        /\ [clock |-> "full", fade |-> 0, spinner |-> FALSE]
             \in [clock : {"none", "dim", "full"}, fade : 0..Opaque, spinner : BOOLEAN]
    BY <2>3
  <2>5. TypeRest
    BY <2>3, <2>4 DEF Init, TypeRest
  <2> QED
    BY <2>2, <2>5
<1>2. TypeRest /\ Scheduled /\ [Next]_vars => (TypeRest /\ Scheduled)'
  BY DrawTypes, ClockTypes, OtherTypes DEF Next, Step
<1> QED
  BY <1>1, <1>2, PTL DEF Spec

\* Every reachable state is well typed: no fade leaves the range of an opacity, whatever
\* fades it took over from, and no procedure runs off its end.
THEOREM TypeCorrect == Spec => []TypeOK
BY TypeParts, Schedules, PTL

-----------------------------------------------------------------------------
\* What is left behind, and what the spinner turns on

\* Next for an actor is a frame of a fade.
Fading(a) == On(a, "fadeToBlack") \/ On(a, "fadeAway")

\* Next for it is the spinner's thread, the first frame being drawn.
Spawning(a) ==
  \/ On(a, "spawnSpinner")
  \/ On(a, "opaque") /\ Len(actor[a].todo) > 1 /\ actor[a].todo[2] = "spawnSpinner"

\* A generation without an active overlay is no one's.
Generations == overlay.owner \in Actors \/ turning => overlay.active

\* Who turns the spinner, or is about to have it turned, does so on black; the owner of
\* a turning spinner does not fade, for a fade begins with a new generation.
SpinnersOnBlack ==
  /\ turning => osd.fade = Opaque /\ overlay.owner \in Actors /\ ~Fading(overlay.owner)
  /\ \A a \in Actors : Owns(a) /\ Spawning(a) => osd.fade = Opaque

IInv == Generations /\ NothingLeftBehind /\ SpinnersOnBlack /\ SpinnerOnBlack

\* A superseded thread that has drawn sleeps, and ends when it wakes.
StraysSleep == \A t \in refreshers : t.stray => ~t.newest /\ t.at = "sleep"

\* What may come after a step: a fade after a `begin` only, a spinner's thread after its
\* first frame only.
LEMMA NextInProcedure ==
  ASSUME Scheduled, NEW a \in Actors, NEW step, On(a, step),
         actor'[a].todo = Tail(actor[a].todo)
  PROVE  /\ Fading(a)' => step = "begin"
         /\ Spawning(a)' => step = "drawSpinner" \/ (step = "opaque" /\ Spawning(a))
<1> DEFINE todo == actor[a].todo
           rest == Tail(todo)
<1>1. todo \in Tasks /\ todo # <<>> /\ Head(todo) = step
  BY DEF Scheduled, On
<1>2. /\ rest \in Tasks /\ todo[1] = step
      /\ Len(todo) \in Nat /\ Len(todo) > 0 /\ Len(rest) = Len(todo) - 1
      /\ \A k \in 1..Len(todo) - 1 : rest[k] = todo[k + 1]
  BY <1>1, TailTask
<1>3. Chained(todo) /\ (rest # <<>> => Len(rest) > 0 /\ Head(rest) = rest[1])
  BY <1>1, <1>2, TailTask DEF Tasks
<1> HIDE DEF todo, rest
<1>4. rest # <<>> =>
        /\ Head(rest) \in {"fadeToBlack", "fadeAway"} => step = "begin"
        /\ Head(rest) = "spawnSpinner"
             => step = "opaque" /\ Len(todo) > 1 /\ todo[2] = "spawnSpinner"
        /\ Head(rest) = "opaque" /\ Len(rest) > 1 /\ rest[2] = "spawnSpinner"
             => step = "drawSpinner"
  <2> SUFFICES ASSUME rest # <<>>
               PROVE  /\ Head(rest) \in {"fadeToBlack", "fadeAway"} => step = "begin"
                      /\ Head(rest) = "spawnSpinner" =>
                           step = "opaque" /\ Len(todo) > 1 /\ todo[2] = "spawnSpinner"
                      /\ Head(rest) = "opaque" /\ Len(rest) > 1 /\ rest[2] = "spawnSpinner" =>
                           step = "drawSpinner"
    OBVIOUS
  <2>1. Len(todo) > 1 /\ Head(rest) = todo[2]
    BY <1>2, <1>3
  <2>2. Len(rest) > 1 => Len(todo) > 2 /\ rest[2] = todo[3]
    BY <1>2
  <2> QED
    BY <1>2, <1>3, <2>1, <2>2 DEF Chained
<1>5. actor'[a].todo = rest
  BY DEF todo, rest
<1>6. Fading(a)' => rest # <<>> /\ Head(rest) \in {"fadeToBlack", "fadeAway"}
  BY <1>5 DEF Fading, On
<1>7. Spawning(a)' =>
        /\ rest # <<>>
        /\ \/ Head(rest) = "spawnSpinner"
           \/ Head(rest) = "opaque" /\ Len(rest) > 1 /\ rest[2] = "spawnSpinner"
  BY <1>5 DEF Spawning, On
<1>8. step = "opaque" /\ Len(todo) > 1 /\ todo[2] = "spawnSpinner" => Spawning(a)
  BY <1>1 DEF Spawning, On, todo
<1> QED
  BY <1>4, <1>6, <1>7, <1>8

\* A procedure does not begin with either.
LEMMA FirstInProcedure ==
  ASSUME NEW a \in Actors, actor'[a].todo \in Entries
  PROVE  ~Fading(a)' /\ ~Spawning(a)'
<1> DEFINE todo == actor'[a].todo
<1>1. todo \in Tasks /\ (todo # <<>> => todo[1] \notin Inner)
  BY DEF Entries
<1>2. todo # <<>> => Head(todo) = todo[1]
  BY <1>1, TailTask
<1> QED
  BY <1>1, <1>2 DEF Fading, Spawning, On, Inner

\* What the others are about to do is not touched by an actor's step.
LEMMA OthersWait ==
  ASSUME NEW a \in Actors, \A b \in Actors \ {a} : actor'[b] = actor[b]
  PROVE  \A b \in Actors \ {a} : (Fading(b)' <=> Fading(b)) /\ (Spawning(b)' <=> Spawning(b))
BY DEF Fading, Spawning, On

\* A step of an actor that leaves the overlay, black and generations alone and gets it no
\* nearer to a fade or a thread.
LEMMA QuietStep ==
  ASSUME IInv, NEW a \in Actors, \A b \in Actors \ {a} : actor'[b] = actor[b],
         Fading(a)' => Fading(a), Spawning(a)' => Spawning(a),
         overlay'.owner = overlay.owner, overlay'.active = overlay.active, turning' = turning,
         osd'.fade = osd.fade, osd'.spinner => osd.spinner
  PROVE  IInv'
<1>1. Generations' /\ NothingLeftBehind' /\ SpinnerOnBlack'
  BY DEF IInv, Generations, NothingLeftBehind, SpinnerOnBlack
<1>2. \A b \in Actors : (Fading(b)' => Fading(b)) /\ (Spawning(b)' => Spawning(b))
  BY OthersWait
<1>3. SpinnersOnBlack'
  BY <1>2 DEF IInv, SpinnersOnBlack, Owns
<1> QED
  BY <1>1, <1>3 DEF IInv

\* One step of an actor's procedure keeps the invariant.
LEMMA ActorStep ==
  ASSUME TypeRest, Scheduled, IInv, NEW a \in Actors, Step(a)
  PROVE  IInv'
<1>0. /\ overlay = [owner |-> overlay.owner, active |-> overlay.active,
                    opacity |-> overlay.opacity]
      /\ osd = [clock |-> osd.clock, fade |-> osd.fade, spinner |-> osd.spinner]
      /\ actor[a] \in Frames /\ Nobody \notin Actors
  BY DEF TypeRest, Scheduled, Nobody, Actors
<1>1. ASSUME NEW step, On(a, step), Done(a)
      PROVE  /\ Fading(a)' => step = "begin"
             /\ Spawning(a)' => step = "drawSpinner" \/ (step = "opaque" /\ Spawning(a))
             /\ \A b \in Actors \ {a} : actor'[b] = actor[b]
  BY <1>1, DoneSchedule, NextInProcedure DEF On
<1>2. ASSUME NEW todo \in Entries, Goto(a, todo)
      PROVE  /\ ~Fading(a)' /\ ~Spawning(a)'
             /\ \A b \in Actors \ {a} : actor'[b] = actor[b]
  BY <1>2, GotoSchedule, FirstInProcedure DEF Entries
<1>3. CASE Begin(a)
  <2>1. /\ overlay'.owner = a /\ overlay'.active = TRUE /\ turning' = FALSE /\ osd' = osd
        /\ actor'[a].todo = Tail(actor[a].todo)
        /\ On(a, "begin")
    BY <1>0, <1>3 DEF Begin, Scheduled
  <2>2. ~Spawning(a)'
    BY <2>1, NextInProcedure
  <2> QED
    BY <2>1, <2>2
       DEF IInv, Generations, NothingLeftBehind, SpinnersOnBlack, SpinnerOnBlack, Owns
<1>4. ASSUME NEW step \in {"fadeToBlack", "fadeAway"}, NEW to, Fade(a, step, to)
      PROVE  IInv'
  <2>1. On(a, step) /\ Fading(a) /\ UNCHANGED <<overlay, turning>>
    BY <1>4 DEF Fade, Fading
  <2>2. ~Spawning(a)' /\ \A b \in Actors \ {a} : actor'[b] = actor[b]
    <3>1. CASE Done(a)
      BY <1>1, <2>1, <3>1
    <3>2. CASE actor' = [actor EXCEPT ![a].frame = @ + 1]
      <4>1. actor'[a].todo = actor[a].todo /\ \A b \in Actors \ {a} : actor'[b] = actor[b]
        BY <1>0, <3>2 DEF Scheduled, Frames
      <4> QED
        BY <2>1, <4>1 DEF Spawning, On
    <3> QED
      BY <1>4, <3>1, <3>2 DEF Fade
  <2>3. CASE Owns(a)
    <3>1. osd'.spinner = FALSE
      BY <1>0, <1>4, <2>3 DEF Fade
    <3>2. overlay.active /\ ~turning
      BY <2>1, <2>3 DEF IInv, Generations, SpinnersOnBlack, Owns
    <3> QED
      BY <2>1, <2>2, <2>3, <3>1, <3>2
         DEF IInv, Generations, NothingLeftBehind, SpinnersOnBlack, SpinnerOnBlack, Owns
  <2>4. CASE ~Owns(a)
    <3>1. osd' = osd
      BY <1>4, <2>4 DEF Fade
    <3>2. \A b \in Actors :
            Owns(b) => (Fading(b)' <=> Fading(b)) /\ (Spawning(b)' <=> Spawning(b))
      BY <2>2, <2>4, OthersWait
    <3> QED
      BY <2>1, <3>1, <3>2
         DEF IInv, Generations, NothingLeftBehind, SpinnersOnBlack, SpinnerOnBlack, Owns
  <2> QED
    BY <2>3, <2>4
<1>5. CASE RecordOpaque(a)
  <2>1. /\ overlay'.owner = overlay.owner /\ overlay'.active = overlay.active
        /\ UNCHANGED <<turning, osd>>
    BY <1>0, <1>5 DEF RecordOpaque
  <2> QED
    BY <1>1, <1>5, <2>1, QuietStep DEF RecordOpaque
<1>6. CASE DrawSpinner(a)
  <2>1. CASE Owns(a)
    <3>1. osd'.fade = Opaque /\ osd'.spinner = TRUE /\ UNCHANGED <<overlay, turning>>
      BY <1>0, <1>6, <2>1 DEF DrawSpinner
    <3>2. overlay.active /\ ~Fading(a)'
      BY <1>1, <1>6, <2>1 DEF DrawSpinner, IInv, Generations, Owns
    <3> QED
      BY <2>1, <3>1, <3>2
         DEF IInv, Generations, NothingLeftBehind, SpinnersOnBlack, SpinnerOnBlack, Owns
  <2>2. CASE ~Owns(a)
    <3>1. Goto(a, <<"loadfile">>) /\ UNCHANGED <<osd, overlay, turning>>
      BY <1>6, <2>2 DEF DrawSpinner
    <3> QED
      BY <1>2, <3>1, Procedures, QuietStep
  <2> QED
    BY <2>1, <2>2
<1>7. CASE SpawnSpinner(a)
  <2>1. /\ On(a, "spawnSpinner") /\ Spawning(a) /\ turning' = Owns(a)
        /\ UNCHANGED <<overlay, osd>> /\ Done(a)
    BY <1>7 DEF SpawnSpinner, Spawning
  <2>2. ~Fading(a)' /\ ~Spawning(a)' /\ \A b \in Actors \ {a} : actor'[b] = actor[b]
    BY <1>1, <2>1
  <2>3. \A b \in Actors : Owns(b)' /\ Spawning(b)' => Owns(b) /\ Spawning(b)
    BY <2>1, <2>2, OthersWait DEF Owns
  <2> QED
    BY <2>1, <2>2, <2>3
       DEF IInv, Generations, NothingLeftBehind, SpinnersOnBlack, SpinnerOnBlack, Owns
<1>8. CASE Clear(a)
  <2>1. CASE On(a, "clear") \/ Owns(a)
    <3>1. /\ overlay' = [owner |-> Nobody, active |-> FALSE, opacity |-> 0]
          /\ turning' = FALSE
          /\ osd' = [osd EXCEPT !.fade = 0, !.spinner = FALSE]
      BY <1>8, <2>1 DEF Clear, NewGeneration
    <3>2. osd'.fade = 0 /\ osd'.spinner = FALSE
      BY <1>0, <3>1
    <3> QED
      BY <1>0, <3>1, <3>2
         DEF IInv, Generations, NothingLeftBehind, SpinnersOnBlack, SpinnerOnBlack, Owns
  <2>2. CASE ~(On(a, "clear") \/ Owns(a))
    <3>1. UNCHANGED <<overlay, turning, osd>> /\ On(a, "clearIfCurrent") /\ Done(a)
      BY <1>8, <2>2 DEF Clear
    <3> QED
      BY <1>1, <3>1, QuietStep
  <2> QED
    BY <2>1, <2>2
<1>9. CASE StopSpinner(a)
  <2>1. /\ overlay'.owner = Nobody /\ overlay'.active = overlay.active
        /\ turning' = FALSE /\ osd' = osd
    BY <1>0, <1>9 DEF StopSpinner, NewGeneration
  <2> QED
    BY <1>0, <2>1
       DEF IInv, Generations, NothingLeftBehind, SpinnersOnBlack, SpinnerOnBlack, Owns
<1>10. CASE ClearSpinner(a)
  <2>1. osd'.fade = osd.fade /\ osd'.spinner = FALSE /\ UNCHANGED <<overlay, turning>>
    BY <1>0, <1>10 DEF ClearSpinner
  <2> QED
    BY <1>1, <1>10, <2>1, QuietStep DEF ClearSpinner
<1>11. CASE FadeClock(a)
  <2>1. osd'.fade = osd.fade /\ osd'.spinner = osd.spinner /\ UNCHANGED <<overlay, turning>>
    BY <1>0, <1>11 DEF FadeClock
  <2>2. CASE Done(a)
    BY <1>1, <1>11, <2>1, <2>2, QuietStep DEF FadeClock
  <2>3. CASE actor' = [actor EXCEPT ![a].frame = @ + 1]
    <3>1. actor'[a].todo = actor[a].todo /\ \A b \in Actors \ {a} : actor'[b] = actor[b]
      BY <1>0, <2>3 DEF Scheduled, Frames
    <3>2. (Fading(a)' => Fading(a)) /\ (Spawning(a)' => Spawning(a))
      BY <3>1 DEF Fading, Spawning, On
    <3> QED
      BY <2>1, <3>1, <3>2, QuietStep
  <2> QED
    BY <1>11, <2>2, <2>3 DEF FadeClock
<1>12. CASE Render(a) \/ Hidden(a)
  <2>1. osd'.fade = osd.fade /\ osd'.spinner = osd.spinner /\ UNCHANGED <<overlay, turning>>
    BY <1>0, <1>12 DEF Render, Hidden
  <2> QED
    BY <1>1, <1>12, <2>1, QuietStep DEF Render, Hidden
<1>13. CASE Shown(a) \/ Command(a)
  BY <1>1, <1>13, QuietStep DEF Shown, Command
<1>14. CASE Hide(a)
  <2>1. CASE idle
    BY <1>1, <1>14, <2>1, QuietStep DEF Hide
  <2>2. CASE ~idle
    <3>1. /\ On(a, "hide") /\ Goto(a, Tail(Tail(actor[a].todo)))
          /\ UNCHANGED <<overlay, osd, turning>>
      BY <1>14, <2>2 DEF Hide
    <3>2. Tail(Tail(actor[a].todo)) \in Entries
      BY <3>1, SkipTask DEF Scheduled, On
    <3> QED
      BY <1>2, <3>1, <3>2, QuietStep
  <2> QED
    BY <2>1, <2>2
<1>15. CASE BackToClock(a) \/ IfActive(a)
  BY <1>2, <1>15, Procedures, QuietStep DEF BackToClock, IfActive
<1> QED
  BY <1>3, <1>4, <1>5, <1>6, <1>7, <1>8, <1>9, <1>10, <1>11, <1>12, <1>13, <1>14, <1>15
     DEF Step

\* The threads that redraw.
LEMMA ThreadStep ==
  ASSUME TypeRest, IInv, (\E t \in refreshers : Refresh(t)) \/ SpinnerTurn
  PROVE  IInv'
<1>0. osd = [clock |-> osd.clock, fade |-> osd.fade, spinner |-> osd.spinner]
  BY DEF TypeRest
<1>1. UNCHANGED <<actor, overlay, turning>>
  BY DEF Refresh, RefreshWakes, RefreshDraws, SpinnerTurn
<1>2. \A a \in Actors : (Fading(a)' <=> Fading(a)) /\ (Spawning(a)' <=> Spawning(a))
  BY <1>1 DEF Fading, Spawning, On
<1>3. osd'.fade = osd.fade
  BY <1>0 DEF Refresh, RefreshWakes, RefreshDraws, SpinnerTurn
<1>4. osd'.spinner => osd.spinner \/ turning
  BY <1>0 DEF Refresh, RefreshWakes, RefreshDraws, SpinnerTurn
<1> QED
  BY <1>1, <1>2, <1>3, <1>4
     DEF IInv, Generations, NothingLeftBehind, SpinnersOnBlack, SpinnerOnBlack, Owns

\* Commands, events and mpv draw nothing, and set actors to the beginning of a procedure.
LEMMA OtherStep ==
  ASSUME Scheduled, IInv,
         \/ Play \/ Stop \/ FallBack \/ PlayWebpage \/ Seek
         \/ MpvPlays \/ MpvFails \/ Lifecycle \/ EndOfFile
         \/ UNCHANGED vars
  PROVE  IInv'
<1>1. UNCHANGED <<overlay, osd, turning>>
  BY DEF Play, Stop, FallBack, PlayWebpage, Operate, Seek, MpvPlays, MpvFails, Lifecycle,
         EndOfFile, OnScreen, vars
<1>2. actor' = actor \/ \E a \in Actors, todo \in Entries : Goto(a, todo)
  BY Procedures
     DEF Play, Stop, FallBack, PlayWebpage, Operate, Seek, MpvPlays, MpvFails, Lifecycle,
         EndOfFile, OnScreen, vars, Actors
<1>3. CASE actor' = actor
  <2>1. \A a \in Actors : (Fading(a)' <=> Fading(a)) /\ (Spawning(a)' <=> Spawning(a))
    BY <1>3 DEF Fading, Spawning, On
  <2> QED
    BY <1>1, <2>1
       DEF IInv, Generations, NothingLeftBehind, SpinnersOnBlack, SpinnerOnBlack, Owns
<1>4. ASSUME NEW a \in Actors, NEW todo \in Entries, Goto(a, todo)
      PROVE  IInv'
  BY <1>1, <1>4, GotoSchedule, FirstInProcedure, QuietStep DEF Entries
<1> QED
  BY <1>2, <1>3, <1>4

LEMMA Inductive == Spec => []IInv
<1>1. Init => IInv
  BY DEF Init, IInv, Generations, NothingLeftBehind, SpinnersOnBlack, SpinnerOnBlack, Nobody,
         Actors, Owns
<1>2. TypeRest /\ Scheduled /\ IInv /\ [Next]_vars => IInv'
  BY ActorStep, ThreadStep, OtherStep DEF Next
<1> QED
  BY <1>1, <1>2, Schedules, PTL DEF Spec

\* "A draw that passed the staleness check can never land after the overlays have been
\* removed" (draw_if_current): an inactive overlay shows neither black nor a spinner.
THEOREM NothingLeft == Spec => []NothingLeftBehind
<1>1. IInv => NothingLeftBehind
  BY DEF IInv
<1> QED
  BY <1>1, Inductive, PTL

\* The spinner turns on opaque black only, in whatever order the fades of a Stop, of a
\* first frame and of a new load meet, and however long they are.
THEOREM SpinnerBlack == Spec => []SpinnerOnBlack
<1>1. IInv => SpinnerOnBlack
  BY DEF IInv
<1> QED
  BY <1>1, Inductive, PTL

-----------------------------------------------------------------------------
\* Threads of the clock

LEMMA StrayStep ==
  ASSUME TypeRest, StraysSleep, [Next]_vars
  PROVE  StraysSleep'
<1>1. CASE UNCHANGED refreshers
  BY <1>1 DEF StraysSleep
<1>2. ASSUME NEW a, Shown(a) \/ Hide(a), ~UNCHANGED refreshers
      PROVE  StraysSleep'
  <2>1. refreshers' \subseteq Superseded \cup {NewThread}
    BY <1>2 DEF Shown, Hide
  <2>2. \A t \in Threads : LET s == [t EXCEPT !.newest = FALSE]
                           IN  s.stray = t.stray /\ s.at = t.at /\ ~s.newest
    BY DEF Threads
  <2>3. \A s \in Superseded : s.stray => ~s.newest /\ s.at = "sleep"
    BY <2>2 DEF Superseded, TypeRest, StraysSleep
  <2> QED
    BY <2>1, <2>3 DEF StraysSleep, NewThread
<1>3. ASSUME NEW t \in refreshers, Refresh(t)
      PROVE  StraysSleep'
  <2>1. t \in Threads
    BY DEF TypeRest
  <2>2. CASE RefreshWakes(t)
    <3>1. t.newest => [t EXCEPT !.at = "draw"].stray = FALSE
      BY <2>1 DEF StraysSleep, Threads
    <3> QED
      BY <2>2, <3>1 DEF RefreshWakes, StillCurrent, StraysSleep
  <2>3. CASE RefreshDraws(t)
    <3> DEFINE s == [t EXCEPT !.at = "sleep", !.stray = @ \/ ~t.newest]
    <3>1. ~t.stray
      BY <2>1, <2>3 DEF RefreshDraws, StraysSleep, Threads
    <3>2. s.at = "sleep" /\ s.newest = t.newest /\ s.stray = ~t.newest
      BY <2>1, <3>1 DEF Threads
    <3> HIDE DEF s
    <3>3. refreshers' = (refreshers \ {t}) \cup {s}
      BY <2>3 DEF RefreshDraws, s
    <3> QED
      BY <3>2, <3>3 DEF StraysSleep
  <2> QED
    BY <1>3, <2>2, <2>3 DEF Refresh
<1> QED
  BY <1>1, <1>2, <1>3
     DEF Next, Step, Begin, Fade, RecordOpaque, DrawSpinner, SpawnSpinner, Clear,
         StopSpinner, ClearSpinner, FadeClock, Render, Hidden, Command, BackToClock, IfActive,
         SpinnerTurn, Play, Stop, FallBack, PlayWebpage, Operate, Seek, MpvPlays, MpvFails,
         Lifecycle, EndOfFile, OnScreen, vars

\* A redraw thread of a clock that was superseded draws at most once more, however many
\* clocks were shown and hidden in the meantime.
THEOREM OneStray == Spec => OneStrayEach
<1>1. Init => StraysSleep
  BY DEF Init, StraysSleep, NewThread
<1>2. TypeRest /\ StraysSleep => [\A t \in refreshers : t.stray => ~RefreshDraws(t)]_vars
  BY DEF StraysSleep, RefreshDraws
<1> QED
  BY <1>1, <1>2, StrayStep, Schedules, PTL DEF Spec, OneStrayEach
=============================================================================
