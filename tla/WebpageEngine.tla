--------------------------- MODULE WebpageEngine ----------------------------
(***************************************************************************)
(* The browser engine's life (daemon/src/webpage.rs): WebpageController    *)
(* starts it, takes it down with bounded patience, and has one reaper      *)
(* thread per engine.                                                      *)
(*                                                                         *)
(* `show` and `hide` are only called under Player's operation lock, so one *)
(* of them runs at a time; they release the controller's state lock while  *)
(* they wait or spawn.  Reapers and the engines themselves run beside them.*)
(***************************************************************************)
EXTENDS Naturals

CONSTANTS
  MaxEngines,     \* bound: engines ever spawned
  MaxGeneration,  \* bound: changes of the controller's generation
  Faults          \* what may go wrong, of AllFaults

\* An engine may exit unasked, ignore SIGTERM, or outlive SIGKILL by more than the
\* grace; spawning, and removing the profile's singleton files, may fail.
AllFaults == {"exits", "ignoresTerm", "slowToDie", "spawn", "clear"}

ASSUME EngineAssumption ==
  /\ MaxEngines \in Nat
  /\ MaxGeneration \in Nat
  /\ Faults \subseteq AllFaults

VARIABLES
  current,     \* State.current, the engine whose page counts as displayed
  generation,  \* State.generation
  op,          \* the show or hide under way: [kind, at, victim]
  spawned,     \* engines spawned so far; the last is the newest
  proc,        \* what each engine process does
  stopped,     \* engines sent SIGTERM
  reaper,      \* where each engine's reaper thread is
  mine,        \* the generation each reaper was given
  profile,     \* the engine named by the profile's singleton files
  lost         \* engines reported to have exited on their own

vars == <<current, generation, op, spawned, proc, stopped, reaper, mine, profile, lost>>

Engines  == 1..MaxEngines
NoEngine == 0
\* A process runs once it has claimed the profile; a killed one only has to vanish.
ProcStates   == {"none", "starting", "running", "killed", "gone"}
Alive        == {"starting", "running", "killed"}
ReaperStates == {"none", "waiting", "reaped", "telling", "done"}
Idle         == [kind |-> "none", at |-> "none", victim |-> NoEngine]
Terminating  == {"term", "termWait", "killWait"}
Starting     == {"clear", "spawn", "install"}
Operations   ==
  {Idle} \cup [kind : {"show", "hide"}, at : Terminating, victim : Engines]
         \cup [kind : {"show"}, at : Starting, victim : Engines \cup {NoEngine}]

TypeOK ==
  /\ current \in Engines \cup {NoEngine}
  /\ generation \in Nat
  /\ op \in Operations
  /\ spawned \in 0..MaxEngines
  /\ proc \in [Engines -> ProcStates]
  /\ stopped \in SUBSET Engines
  /\ reaper \in [Engines -> ReaperStates]
  /\ mine \in [Engines -> Nat]
  /\ profile \in Engines \cup {NoEngine}
  /\ lost \in SUBSET Engines

Init ==
  /\ current = NoEngine
  /\ generation = 0
  /\ op = Idle
  /\ spawned = 0
  /\ proc = [e \in Engines |-> "none"]
  /\ stopped = {}
  /\ reaper = [e \in Engines |-> "none"]
  /\ mine = [e \in Engines |-> 0]
  /\ profile = NoEngine
  /\ lost = {}

-----------------------------------------------------------------------------
\* WebpageController::show and ::hide, under the operation lock

\* The incumbent leaves `current` under a new generation, before anything is done
\* to it; there may be none.  A URL that validate_url refuses changes nothing.
Begin(kind, next) ==
  /\ op = Idle
  /\ generation < MaxGeneration
  /\ generation' = generation + 1
  /\ current' = NoEngine
  /\ op' = IF current = NoEngine THEN next
           ELSE [kind |-> kind, at |-> "term", victim |-> current]
  /\ UNCHANGED <<spawned, proc, stopped, reaper, mine, profile, lost>>

Show ==
  /\ spawned < MaxEngines
  /\ Begin("show", [kind |-> "show", at |-> "clear", victim |-> NoEngine])

Hide == Begin("hide", Idle)

At(step) == op.at = step
MoveTo(step) == op' = [op EXCEPT !.at = step]
Finish == op' = Idle

\* Mutant: hide takes show's path.
HideGoesOn == MoveTo("clear")

\* `terminate` returns: hide is done, show goes on.
Terminated == IF op.kind = "show" THEN MoveTo("clear") ELSE Finish

controller == <<current, generation, spawned, mine, lost>>

\* terminate: SIGTERM to the process group ...
Term ==
  /\ At("term")
  /\ stopped' = stopped \cup {op.victim}
  /\ MoveTo("termWait")
  /\ UNCHANGED <<controller, proc, reaper, profile>>

\* ... and a wait for the reaper's word, here and after SIGKILL ...
Told ==
  /\ At("termWait") \/ At("killWait")
  /\ reaper[op.victim] = "done"
  /\ Terminated
  /\ UNCHANGED <<controller, proc, stopped, reaper, profile>>

\* Mutant: the grace is over and the engine is left to itself.
TermGivesUp ==
  /\ At("termWait") /\ "ignoresTerm" \in Faults
  /\ reaper[op.victim] # "done"
  /\ Terminated
  /\ UNCHANGED <<controller, proc, stopped, reaper, profile>>

\* Mutant: the wait for SIGTERM to take effect has no end.
TermPatient ==
  /\ At("termWait") /\ FALSE
  /\ UNCHANGED vars

\* ... of TERM_GRACE, then SIGKILL ...
TermExpires ==
  /\ At("termWait") /\ "ignoresTerm" \in Faults
  /\ reaper[op.victim] # "done"
  /\ proc' = [proc EXCEPT ![op.victim] = IF @ = "gone" THEN @ ELSE "killed"]
  /\ MoveTo("killWait")
  /\ UNCHANGED <<controller, stopped, reaper, profile>>

\* ... and KILL_GRACE, after which it returns whatever became of the engine.
KillExpires ==
  /\ At("killWait") /\ "slowToDie" \in Faults
  /\ reaper[op.victim] # "done"
  /\ Terminated
  /\ UNCHANGED <<controller, proc, stopped, reaper, profile>>

\* Browser::clear_singleton_artifacts; a failure is logged only.
ClearSingleton ==
  /\ At("clear")
  /\ \/ profile' = NoEngine
     \/ "clear" \in Faults /\ UNCHANGED profile
  /\ MoveTo("spawn")
  /\ UNCHANGED <<controller, proc, stopped, reaper>>

\* Browser::spawn: a process for the new engine ...
SpawnEngine ==
  /\ At("spawn")
  /\ spawned' = spawned + 1
  /\ proc' = [proc EXCEPT ![spawned + 1] = "starting"]
  /\ MoveTo("install")
  /\ UNCHANGED <<current, generation, stopped, reaper, mine, profile, lost>>

\* ... or an error: a path too long for its socket, no temp dir, no browser.
SpawnFails ==
  /\ At("spawn") /\ "spawn" \in Faults
  /\ Finish
  /\ UNCHANGED <<controller, proc, stopped, reaper, profile>>

\* Mutant: the reaper is given the generation from before its engine's.
InstallStale ==
  /\ At("install")
  /\ generation' = generation + 1
  /\ current' = spawned
  /\ mine' = [mine EXCEPT ![spawned] = generation]
  /\ reaper' = [reaper EXCEPT ![spawned] = "waiting"]
  /\ Finish
  /\ UNCHANGED <<spawned, proc, stopped, profile, lost>>

\* The page counts as displayed, under another new generation, and gets its reaper.
Install ==
  /\ At("install")
  /\ generation' = generation + 1
  /\ current' = spawned
  /\ mine' = [mine EXCEPT ![spawned] = generation + 1]
  /\ reaper' = [reaper EXCEPT ![spawned] = "waiting"]
  /\ Finish
  /\ UNCHANGED <<spawned, proc, stopped, profile, lost>>

Proceed ==
  \/ Term \/ Told \/ TermExpires \/ KillExpires
  \/ ClearSingleton \/ SpawnEngine \/ SpawnFails \/ Install

-----------------------------------------------------------------------------
\* The reaper threads

\* Child::wait returns.
Reap(e) ==
  /\ reaper[e] = "waiting" /\ proc[e] = "gone"
  /\ reaper' = [reaper EXCEPT ![e] = "reaped"]
  /\ UNCHANGED <<current, generation, op, spawned, proc, stopped, mine, profile, lost>>

\* Mutant: whoever is current is taken for the engine that is gone.
ReaperClears(e) ==
  /\ reaper[e] = "reaped"
  /\ current' = NoEngine
  /\ lost' = IF current # NoEngine THEN lost \cup {e} ELSE lost
  /\ reaper' = [reaper EXCEPT ![e] = "telling"]
  /\ UNCHANGED <<generation, op, spawned, proc, stopped, mine, profile>>

\* Under the state lock: the page is gone, unless it was superseded.
ReaperLooks(e) ==
  /\ reaper[e] = "reaped"
  /\ IF mine[e] = generation
     THEN current' = NoEngine /\ lost' = lost \cup {e}
     ELSE UNCHANGED <<current, lost>>
  /\ reaper' = [reaper EXCEPT ![e] = "telling"]
  /\ UNCHANGED <<generation, op, spawned, proc, stopped, mine, profile>>

\* The word `terminate` waits for.
ReaperTells(e) ==
  /\ reaper[e] = "telling"
  /\ reaper' = [reaper EXCEPT ![e] = "done"]
  /\ UNCHANGED <<current, generation, op, spawned, proc, stopped, mine, profile, lost>>

Reaper(e) == Reap(e) \/ ReaperLooks(e) \/ ReaperTells(e)

-----------------------------------------------------------------------------
\* The engines, as the comments on Browser describe Chromium

daemonState == <<current, generation, op, spawned, stopped, reaper, mine, lost>>

\* Chromium admits one browser per profile; a lock whose owner is dead is stale.
ProfileFree == ~(profile \in Engines /\ proc[profile] \in Alive)

EngineStarts(e) ==
  /\ proc[e] = "starting"
  /\ ProfileFree
  /\ proc' = [proc EXCEPT ![e] = "running"]
  /\ profile' = e
  /\ UNCHANGED daemonState

\* ... and hands its URL to a living owner.
EngineHandsOver(e) ==
  /\ proc[e] = "starting"
  /\ ~ProfileFree
  /\ proc' = [proc EXCEPT ![e] = "gone"]
  /\ UNCHANGED <<profile, daemonState>>

\* It exits, on SIGTERM or by itself, with or without removing its files.
EngineExits(e) ==
  /\ proc[e] \in {"starting", "running"}
  /\ e \in stopped \/ "exits" \in Faults
  /\ proc' = [proc EXCEPT ![e] = "gone"]
  /\ profile' \in {profile, IF profile = e THEN NoEngine ELSE profile}
  /\ UNCHANGED daemonState

\* SIGKILL takes effect.
EngineDies(e) ==
  /\ proc[e] = "killed"
  /\ proc' = [proc EXCEPT ![e] = "gone"]
  /\ UNCHANGED <<profile, daemonState>>

Engine(e) == EngineStarts(e) \/ EngineHandsOver(e) \/ EngineExits(e) \/ EngineDies(e)

-----------------------------------------------------------------------------
Next ==
  \/ Show
  \/ Hide
  \/ Proceed
  \/ \E e \in Engines : Reaper(e) \/ Engine(e)

Spec == Init /\ [][Next]_vars

\* Threads run, and a wait with a time limit ends. Of the engines only those that
\* heed SIGTERM or die of SIGKILL in time owe anything.
Fairness ==
  /\ WF_vars(Proceed)
  /\ \A e \in Engines :
       /\ WF_vars(Reaper(e))
       /\ "ignoresTerm" \notin Faults => WF_vars(e \in stopped /\ EngineExits(e))
       /\ "slowToDie" \notin Faults => WF_vars(EngineDies(e))

FairSpec == Spec /\ Fairness

-----------------------------------------------------------------------------
\* What the daemon relies on

\* No two engines live side by side: one is started only when its predecessor has
\* exited or has at least been sent SIGKILL, whatever signals it ignored and
\* however late its reaper is.
OneEngine ==
  \A d, e \in Engines : {proc[d], proc[e]} \subseteq {"starting", "running"} => d = e

\* A reaper that reports late touches no newer page and reports no exit that was
\* asked for: pages come and go as PageSlot says.
Slot == INSTANCE PageSlot WITH
          shown <- current, past <- {e \in Engines : reaper[e] # "none"}
ImplementsSlot == Slot!Spec

\* "Stop (or a superseding Play) can never hang on a wedged browser" (TERM_GRACE):
\* show and hide return, with engines that ignore every signal.
ControllerReturns == op # Idle ~> op = Idle

\* "If the engine exits by itself, the daemon notices without any incoming
\* command" (README): is_active does not stay TRUE over a page that is gone.
CrashNoticed ==
  \A e \in Engines : current = e /\ proc[e] = "gone" ~> current # e
=============================================================================
