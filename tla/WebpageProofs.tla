--------------------------- MODULE WebpageProofs ----------------------------
(***************************************************************************)
(* Proofs about WebpageEngine, for every number of engines and every set of*)
(* faults: its types, that no two engines live side by side, and that it   *)
(* implements PageSlot.                                                    *)
(***************************************************************************)
EXTENDS WebpageEngine, TLAPS

\* A page is up under the current generation only, and while no operation is under
\* way; its reaper has not looked yet.
CurrentIsWatched ==
  /\ op # Idle => current = NoEngine
  /\ current # NoEngine => mine[current] = generation
                           /\ reaper[current] \in {"waiting", "reaped"}

\* A reaper that still has the current generation belongs to the current page.
ReaperIsCurrents ==
  \A e \in Engines :
    /\ mine[e] <= generation
    /\ reaper[e] \in {"waiting", "reaped"} /\ mine[e] = generation => current = e

\* Processes and reapers exist for the engines spawned; the newest may still wait
\* for its reaper.
SpawnedInOrder ==
  /\ At("install") => spawned \in Engines
  /\ \A e \in Engines :
       reaper[e] # "none" => e <= spawned /\ ~(At("install") /\ e = spawned)

\* An engine that has not been killed is the current one, the one being taken down
\* or the one just spawned.
LivingIsKnown ==
  /\ \A e \in Engines :
       /\ proc[e] \in {"starting", "running"} =>
            \/ e = current
            \/ op.at \in {"term", "termWait"} /\ e = op.victim
            \/ At("install") /\ e = spawned
       /\ reaper[e] \in {"reaped", "telling", "done"} => proc[e] = "gone"

Inv ==
  /\ TypeOK
  /\ op.kind = "show" /\ ~At("install") => spawned < MaxEngines
  /\ CurrentIsWatched
  /\ ReaperIsCurrents
  /\ SpawnedInOrder
  /\ LivingIsKnown

-----------------------------------------------------------------------------
\* The records op takes have the fields the steps read.
LEMMA OpFields ==
  ASSUME op \in Operations, op # Idle
  PROVE  /\ op.kind \in {"show", "hide"}
         /\ op.at \in Terminating => op.victim \in Engines
         /\ op.at \in Terminating \cup Starting
         /\ op.at \in Starting => op.kind = "show"
         /\ op.victim \in Engines \cup {NoEngine}
BY DEF Operations, Idle, Terminating, Starting

\* The initial state.
LEMMA InitInv == Init => Inv
BY EngineAssumption DEF Init, Inv, TypeOK, CurrentIsWatched, ReaperIsCurrents, SpawnedInOrder,
  LivingIsKnown, At, Operations, Idle, Engines, NoEngine, ProcStates, ReaperStates

\* What becomes of op in each step, by its fields.
LEMMA MoveOp ==
  ASSUME op \in Operations, op # Idle, NEW step, MoveTo(step),
         \/ op.at \in Terminating /\ step \in Terminating
         \/ op.kind = "show" /\ step \in Starting
  PROVE  /\ op' \in Operations /\ op' # Idle
         /\ op'.kind = op.kind /\ op'.at = step /\ op'.victim = op.victim
BY DEF MoveTo, Operations, Idle, Terminating, Starting

LEMMA BeginOp ==
  ASSUME current \in Engines \cup {NoEngine}, Show \/ Hide
  PROVE  /\ op' \in Operations
         /\ op' = Idle \/ op'.at \in {"term", "clear"}
         /\ op'.kind = "show" => Show
         /\ op'.at = "term" => op'.victim = current /\ current # NoEngine
         /\ op'.at # "term" => current = NoEngine
BY DEF Show, Hide, Begin, Operations, Idle, Terminating, Starting, NoEngine

\* show and hide begin: the incumbent, if any, becomes the victim.
LEMMA BeginInv ==
  ASSUME Inv, Show \/ Hide
  PROVE  Inv'
<1>1. /\ TypeOK /\ op = Idle /\ current' = NoEngine /\ generation' = generation + 1
      /\ UNCHANGED <<spawned, proc, stopped, reaper, mine, profile, lost>>
  BY DEF Inv, Show, Hide, Begin
<1>2. current \in Engines \cup {NoEngine}
  BY <1>1 DEF TypeOK
<1>3. TypeOK'
  BY <1>1, <1>2, BeginOp DEF TypeOK
<1>4. op'.kind = "show" => spawned' < MaxEngines
  BY <1>1, <1>2, BeginOp DEF Show
<1>5. CurrentIsWatched'
  BY <1>1 DEF CurrentIsWatched
<1>6. ReaperIsCurrents'
  BY <1>1 DEF Inv, TypeOK, ReaperIsCurrents
<1>7. op'.at # "install"
  BY <1>2, BeginOp DEF Idle
<1>8. SpawnedInOrder'
  BY <1>1, <1>7 DEF Inv, SpawnedInOrder, At
<1>9. LivingIsKnown'
  BY <1>1, <1>2, BeginOp DEF Inv, LivingIsKnown, At, Idle, Engines, NoEngine
<1> QED
  BY <1>3, <1>4, <1>5, <1>6, <1>8, <1>9 DEF Inv

\* SIGTERM is sent.
LEMMA TermInv ==
  ASSUME Inv, Term
  PROVE  Inv'
<1>1. /\ TypeOK /\ At("term") /\ MoveTo("termWait") /\ stopped' = stopped \cup {op.victim}
      /\ UNCHANGED <<current, generation, spawned, mine, lost, proc, reaper, profile>>
  BY DEF Inv, Term, controller
<1>2. op # Idle /\ op \in Operations
  BY <1>1 DEF TypeOK, At, Idle
<1>3. /\ op' \in Operations /\ op' # Idle
      /\ op'.kind = op.kind /\ op'.at = "termWait" /\ op'.victim = op.victim
  BY <1>1, <1>2, MoveOp DEF At, Terminating
<1>4. op.victim \in Engines
  BY <1>1, <1>2, OpFields DEF At, Terminating
<1>5. TypeOK'
  BY <1>1, <1>3, <1>4 DEF TypeOK
<1>6. CurrentIsWatched' /\ ReaperIsCurrents'
  BY <1>1, <1>2, <1>3 DEF Inv, CurrentIsWatched, ReaperIsCurrents
<1>7. SpawnedInOrder' /\ LivingIsKnown'
  BY <1>1, <1>3 DEF Inv, SpawnedInOrder, LivingIsKnown, At
<1> QED
  BY <1>1, <1>3, <1>5, <1>6, <1>7 DEF Inv, At

\* terminate returns once the victim is gone or killed.
LEMMA TerminatedInv ==
  ASSUME Inv, At("termWait") \/ At("killWait"), Terminated,
         proc[op.victim] \notin {"starting", "running"},
         UNCHANGED <<current, generation, spawned, mine, lost, proc, stopped, reaper, profile>>
  PROVE  Inv'
<1>1. op # Idle /\ op \in Operations
  BY DEF Inv, TypeOK, At, Idle
<1>2. /\ op' \in Operations
      /\ \/ op' = Idle
         \/ op' # Idle /\ op'.kind = op.kind /\ op'.at = "clear"
  BY <1>1, MoveOp, OpFields DEF Terminated, Finish, Starting, Operations
<1>3. TypeOK'
  BY <1>2 DEF Inv, TypeOK
<1>4. op'.kind = "show" /\ ~At("install")' => spawned' < MaxEngines
  BY <1>1, <1>2 DEF Inv, At, Idle
<1>5. CurrentIsWatched' /\ ReaperIsCurrents'
  BY <1>1, <1>2 DEF Inv, CurrentIsWatched, ReaperIsCurrents
<1>6. SpawnedInOrder'
  BY <1>2 DEF Inv, SpawnedInOrder, At, Idle
<1>7. LivingIsKnown'
  BY <1>1, <1>2 DEF Inv, LivingIsKnown, At, Idle
<1> QED
  BY <1>3, <1>4, <1>5, <1>6, <1>7 DEF Inv

LEMMA ToldInv ==
  ASSUME Inv, Told \/ KillExpires
  PROVE  Inv'
<1>1. /\ At("termWait") \/ At("killWait")
      /\ UNCHANGED <<current, generation, spawned, mine, lost, proc, stopped, reaper, profile>>
  BY DEF Told, KillExpires, controller
<1>2. op # Idle /\ op.victim \in Engines /\ current = NoEngine
  BY <1>1, OpFields DEF Inv, TypeOK, CurrentIsWatched, At, Idle, Terminating
<1>3. Terminated
  BY DEF Told, KillExpires
<1>4. proc[op.victim] \notin {"starting", "running"}
  BY <1>2 DEF Told, KillExpires, Inv, LivingIsKnown, At, Engines, NoEngine
<1> QED
  BY <1>1, <1>3, <1>4, TerminatedInv

\* SIGKILL is sent.
LEMMA TermExpiresInv ==
  ASSUME Inv, TermExpires
  PROVE  Inv'
<1>1. /\ TypeOK /\ At("termWait") /\ MoveTo("killWait")
      /\ reaper[op.victim] # "done"
      /\ proc' = [proc EXCEPT ![op.victim] = IF @ = "gone" THEN @ ELSE "killed"]
      /\ UNCHANGED <<current, generation, spawned, mine, lost, stopped, reaper, profile>>
  BY DEF Inv, TermExpires, controller
<1>2. op # Idle /\ op \in Operations
  BY <1>1 DEF TypeOK, At, Idle
<1>3. /\ op' \in Operations /\ op' # Idle
      /\ op'.kind = op.kind /\ op'.at = "killWait" /\ op'.victim = op.victim
  BY <1>1, <1>2, MoveOp DEF At, Terminating
<1>4. op.victim \in Engines
  BY <1>1, <1>2, OpFields DEF At, Terminating
<1>5. proc' \in [Engines -> ProcStates]
  BY <1>1, <1>4 DEF TypeOK, ProcStates
<1>6. TypeOK'
  BY <1>1, <1>3, <1>5 DEF TypeOK
<1>7. CurrentIsWatched' /\ ReaperIsCurrents'
  BY <1>1, <1>2, <1>3 DEF Inv, CurrentIsWatched, ReaperIsCurrents
<1>8. SpawnedInOrder'
  BY <1>1, <1>3 DEF Inv, SpawnedInOrder, At
<1>9. LivingIsKnown'
  <2>1. ASSUME NEW e \in Engines
        PROVE  /\ proc'[e] \in {"starting", "running"} => proc[e] = proc'[e] /\ e # op.victim
               /\ proc[e] = "gone" => proc'[e] = "gone"
    BY <1>1, <1>4 DEF TypeOK
  <2> QED
    BY <1>1, <1>3, <2>1 DEF Inv, LivingIsKnown, At
<1> QED
  BY <1>1, <1>3, <1>6, <1>7, <1>8, <1>9 DEF Inv, At

\* The profile is cleared.
LEMMA ClearInv ==
  ASSUME Inv, ClearSingleton
  PROVE  Inv'
<1>1. /\ TypeOK /\ At("clear") /\ MoveTo("spawn") /\ profile' \in {profile, NoEngine}
      /\ UNCHANGED <<current, generation, spawned, mine, lost, proc, stopped, reaper>>
  BY DEF Inv, ClearSingleton, controller
<1>2. op # Idle /\ op \in Operations
  BY <1>1 DEF TypeOK, At, Idle
<1>3. op.kind = "show"
  BY <1>1, <1>2, OpFields DEF At, Starting
<1>4. /\ op' \in Operations /\ op' # Idle
      /\ op'.kind = op.kind /\ op'.at = "spawn" /\ op'.victim = op.victim
  BY <1>1, <1>2, <1>3, MoveOp DEF Starting
<1>5. TypeOK'
  BY <1>1, <1>4 DEF TypeOK
<1>6. CurrentIsWatched' /\ ReaperIsCurrents'
  BY <1>1, <1>2, <1>4 DEF Inv, CurrentIsWatched, ReaperIsCurrents
<1>7. SpawnedInOrder' /\ LivingIsKnown'
  BY <1>1, <1>4 DEF Inv, SpawnedInOrder, LivingIsKnown, At
<1> QED
  BY <1>1, <1>4, <1>5, <1>6, <1>7 DEF Inv, At

\* A new process, which no reaper watches yet.
LEMMA SpawnInv ==
  ASSUME Inv, SpawnEngine
  PROVE  Inv'
<1>1. /\ TypeOK /\ At("spawn") /\ MoveTo("install") /\ spawned' = spawned + 1
      /\ proc' = [proc EXCEPT ![spawned + 1] = "starting"]
      /\ UNCHANGED <<current, generation, stopped, reaper, mine, profile, lost>>
  BY DEF Inv, SpawnEngine
<1>2. op # Idle /\ op \in Operations
  BY <1>1 DEF TypeOK, At, Idle
<1>3. op.kind = "show"
  BY <1>1, <1>2, OpFields DEF At, Starting
<1>4. /\ op' \in Operations /\ op' # Idle
      /\ op'.kind = op.kind /\ op'.at = "install" /\ op'.victim = op.victim
  BY <1>1, <1>2, <1>3, MoveOp DEF Starting
<1>5. spawned < MaxEngines
  BY <1>1, <1>3 DEF Inv, At
<1>6. spawned' \in Engines /\ spawned' \in 0..MaxEngines
  BY <1>1, <1>5, EngineAssumption DEF TypeOK, Engines
<1>7. proc' \in [Engines -> ProcStates]
  BY <1>1, <1>6 DEF TypeOK, ProcStates
<1>8. TypeOK'
  BY <1>1, <1>4, <1>6, <1>7 DEF TypeOK
<1>9. CurrentIsWatched' /\ ReaperIsCurrents'
  BY <1>1, <1>2, <1>4 DEF Inv, CurrentIsWatched, ReaperIsCurrents
<1>10. SpawnedInOrder'
  BY <1>1, <1>4, <1>6, EngineAssumption DEF Inv, TypeOK, SpawnedInOrder, At, Engines
<1>11. LivingIsKnown'
  <2>1. ASSUME NEW e \in Engines
        PROVE  /\ e # spawned' => proc'[e] = proc[e]
               /\ e = spawned' => reaper[e] = "none"
    BY <1>1, <1>6, EngineAssumption DEF Inv, TypeOK, SpawnedInOrder, Engines
  <2> QED
    BY <1>1, <1>4, <2>1 DEF Inv, LivingIsKnown, At
<1> QED
  BY <1>4, <1>8, <1>9, <1>10, <1>11 DEF Inv, At

LEMMA SpawnFailsInv ==
  ASSUME Inv, SpawnFails
  PROVE  Inv'
<1>1. /\ op' = Idle /\ op' \in Operations /\ At("spawn")
      /\ UNCHANGED <<current, generation, spawned, mine, lost, proc, stopped, reaper, profile>>
  BY DEF SpawnFails, Finish, controller, Operations
<1>2. op # Idle
  BY <1>1 DEF At, Idle
<1>3. TypeOK' /\ CurrentIsWatched' /\ ReaperIsCurrents'
  BY <1>1, <1>2 DEF Inv, TypeOK, CurrentIsWatched, ReaperIsCurrents
<1>4. SpawnedInOrder' /\ LivingIsKnown'
  BY <1>1 DEF Inv, SpawnedInOrder, LivingIsKnown, At, Idle
<1> QED
  BY <1>1, <1>3, <1>4 DEF Inv, Idle

\* The page takes the slot: no older reaper has its generation.
LEMMA InstallInv ==
  ASSUME Inv, Install
  PROVE  Inv'
<1>1. /\ TypeOK /\ At("install") /\ op' = Idle /\ op' \in Operations
      /\ generation' = generation + 1 /\ current' = spawned
      /\ mine' = [mine EXCEPT ![spawned] = generation + 1]
      /\ reaper' = [reaper EXCEPT ![spawned] = "waiting"]
      /\ UNCHANGED <<spawned, proc, stopped, profile, lost>>
  BY DEF Inv, Install, Finish, Operations
<1>2. spawned \in Engines /\ spawned # NoEngine /\ op # Idle /\ current = NoEngine
  BY <1>1 DEF Inv, SpawnedInOrder, CurrentIsWatched, At, Idle, Engines, NoEngine
<1>3. TypeOK'
  BY <1>1, <1>2 DEF TypeOK, ReaperStates
<1>4. ASSUME NEW e \in Engines
      PROVE  /\ e = spawned => mine'[e] = generation' /\ reaper'[e] = "waiting"
             /\ e # spawned => mine'[e] = mine[e] /\ reaper'[e] = reaper[e]
  BY <1>1, <1>2 DEF TypeOK
<1>5. CurrentIsWatched'
  BY <1>1, <1>2, <1>4 DEF CurrentIsWatched
<1>6. ReaperIsCurrents'
  BY <1>1, <1>4 DEF Inv, TypeOK, ReaperIsCurrents
<1>7. SpawnedInOrder'
  BY <1>1, <1>4 DEF Inv, TypeOK, SpawnedInOrder, At, Idle
<1>8. LivingIsKnown'
  BY <1>1, <1>2, <1>4 DEF Inv, LivingIsKnown, At, Engines, NoEngine
<1> QED
  BY <1>1, <1>3, <1>5, <1>6, <1>7, <1>8 DEF Inv, Idle

\* A reaper's steps.
LEMMA ReapInv ==
  ASSUME Inv, NEW e \in Engines, Reap(e) \/ ReaperTells(e)
  PROVE  Inv'
<1>1. /\ TypeOK
      /\ UNCHANGED <<current, generation, op, spawned, proc, stopped, mine, profile, lost>>
      /\ \/ reaper[e] = "waiting" /\ proc[e] = "gone" /\ reaper' = [reaper EXCEPT ![e] = "reaped"]
         \/ reaper[e] = "telling" /\ reaper' = [reaper EXCEPT ![e] = "done"]
  BY DEF Inv, Reap, ReaperTells
<1>2. TypeOK'
  BY <1>1 DEF TypeOK, ReaperStates
<1>3. ASSUME NEW d \in Engines
      PROVE  /\ d = e => \/ reaper[d] = "waiting" /\ proc[d] = "gone" /\ reaper'[d] = "reaped"
                         \/ reaper[d] = "telling" /\ reaper'[d] = "done"
             /\ d # e => reaper'[d] = reaper[d]
  BY <1>1 DEF TypeOK
<1>4. CurrentIsWatched'
  <2>1. current # NoEngine => current \in Engines
    BY <1>1 DEF TypeOK
  <2> QED
    BY <1>1, <1>3, <2>1 DEF Inv, CurrentIsWatched
<1>5. ReaperIsCurrents'
  BY <1>1, <1>3 DEF Inv, ReaperIsCurrents
<1>6. SpawnedInOrder' /\ LivingIsKnown'
  BY <1>1, <1>3 DEF Inv, SpawnedInOrder, LivingIsKnown, At
<1> QED
  BY <1>1, <1>2, <1>4, <1>5, <1>6 DEF Inv, At

\* A reaper that finds its own generation finds its own page.
LEMMA LooksAtOwn ==
  ASSUME Inv, NEW e \in Engines, ReaperLooks(e)
  PROVE  \/ mine[e] = generation /\ current = e /\ current' = NoEngine /\ lost' = lost \cup {e}
         \/ mine[e] # generation /\ UNCHANGED <<current, lost>>
BY DEF Inv, ReaperIsCurrents, ReaperLooks

LEMMA LooksInv ==
  ASSUME Inv, NEW e \in Engines, ReaperLooks(e)
  PROVE  Inv'
<1>1. /\ TypeOK /\ reaper[e] = "reaped"
      /\ UNCHANGED <<generation, op, spawned, proc, stopped, mine, profile>>
      /\ reaper' = [reaper EXCEPT ![e] = "telling"]
  BY DEF Inv, ReaperLooks
<1>2. TypeOK'
  BY <1>1, LooksAtOwn DEF TypeOK, ReaperStates
<1>3. ASSUME NEW d \in Engines
      PROVE  /\ d = e => reaper'[d] = "telling"
             /\ d # e => reaper'[d] = reaper[d]
  BY <1>1 DEF TypeOK
<1>4. CurrentIsWatched'
  <2>1. current # NoEngine => current \in Engines
    BY <1>1 DEF TypeOK
  <2> QED
    BY <1>1, <1>3, <2>1, LooksAtOwn DEF Inv, CurrentIsWatched
<1>5. ReaperIsCurrents'
  BY <1>1, <1>3, LooksAtOwn DEF Inv, ReaperIsCurrents
<1>6. SpawnedInOrder'
  BY <1>1, <1>3 DEF Inv, SpawnedInOrder, At
<1>7. LivingIsKnown'
  <2>1. proc[e] = "gone"
    BY <1>1 DEF Inv, LivingIsKnown
  <2> QED
    BY <1>1, <1>3, <2>1, LooksAtOwn DEF Inv, LivingIsKnown, At
<1> QED
  BY <1>1, <1>2, <1>4, <1>5, <1>6, <1>7 DEF Inv, At

\* What engines do leaves the daemon's state alone.
LEMMA EngineInv ==
  ASSUME Inv, NEW e \in Engines, Engine(e)
  PROVE  Inv'
<1>1. /\ TypeOK
      /\ UNCHANGED <<current, generation, op, spawned, stopped, reaper, mine, lost>>
      /\ profile' \in Engines \cup {NoEngine}
      /\ \/ proc[e] = "starting" /\ proc' = [proc EXCEPT ![e] = "running"]
         \/ proc' = [proc EXCEPT ![e] = "gone"]
  BY DEF Inv, TypeOK, Engine, EngineStarts, EngineHandsOver, EngineExits, EngineDies, daemonState
<1>2. TypeOK'
  BY <1>1 DEF TypeOK, ProcStates
<1>3. ASSUME NEW d \in Engines
      PROVE  /\ proc'[d] \in {"starting", "running"} => proc[d] \in {"starting", "running"}
             /\ proc[d] = "gone" => proc'[d] = "gone"
  BY <1>1 DEF TypeOK
<1>4. CurrentIsWatched' /\ ReaperIsCurrents' /\ SpawnedInOrder'
  BY <1>1 DEF Inv, CurrentIsWatched, ReaperIsCurrents, SpawnedInOrder, At
<1>5. LivingIsKnown'
  BY <1>1, <1>3 DEF Inv, LivingIsKnown, At
<1> QED
  BY <1>1, <1>2, <1>4, <1>5 DEF Inv, At

LEMMA StutterInv ==
  ASSUME Inv, UNCHANGED vars
  PROVE  Inv'
BY DEF Inv, vars, TypeOK, CurrentIsWatched, ReaperIsCurrents, SpawnedInOrder, LivingIsKnown, At

\* The invariant is inductive.
LEMMA NextInv == Inv /\ [Next]_vars => Inv'
BY BeginInv, TermInv, ToldInv, TermExpiresInv, ClearInv, SpawnInv, SpawnFailsInv, InstallInv,
   ReapInv, LooksInv, EngineInv, StutterInv
   DEF Next, Proceed, Reaper

-----------------------------------------------------------------------------
\* Every reachable state is well typed, and op only takes steps its kind has.
THEOREM TypeCorrect == Spec => []TypeOK
<1>1. Inv => TypeOK
  BY DEF Inv
<1> QED
  BY <1>1, InitInv, NextInv, PTL DEF Spec

\* No two engines that have not been sent SIGKILL live side by side, for every set
\* of faults: terminate, however its waits end, leaves none behind for show.
THEOREM OneEngineAlive == Spec => []OneEngine
<1>1. Inv => OneEngine
  BY DEF Inv, TypeOK, LivingIsKnown, CurrentIsWatched, OneEngine, At, Idle, Engines, NoEngine
<1> QED
  BY <1>1, InitInv, NextInv, PTL DEF Spec

\* Pages come and go as PageSlot says: up only into an empty slot and once each,
\* and reported lost only when their own engine's exit took them down.
THEOREM Implementation == Spec => ImplementsSlot
<1> DEFINE past == {e \in Engines : reaper[e] # "none"}
<1>1. Init => Slot!Init
  BY DEF Init, Slot!Init
<1>2. ASSUME Inv, [Next]_vars
      PROVE  [Slot!Next]_<<current, past, lost>>
  <2>1. CASE Show \/ Hide
    BY <2>1 DEF Show, Hide, Begin, Slot!Next, Slot!TakeDown
  <2>2. CASE Install
    <3>1. spawned \in Engines /\ reaper[spawned] = "none" /\ current = NoEngine
      BY <1>2, <2>2 DEF Inv, SpawnedInOrder, CurrentIsWatched, Install, At, Idle
    <3>2. past' = past \cup {spawned}
      BY <1>2, <2>2, <3>1 DEF Inv, TypeOK, Install
    <3>3. \E e \in Engines : Slot!PutUp(e)
      BY <2>2, <3>1, <3>2 DEF Slot!PutUp, Install
    <3> QED
      BY <3>3 DEF Slot!Next
  <2>3. ASSUME NEW e \in Engines, ReaperLooks(e)
        PROVE  [Slot!Next]_<<current, past, lost>>
    <3>1. past' = past
      BY <1>2, <2>3 DEF Inv, TypeOK, ReaperLooks
    <3>2. e # NoEngine
      BY DEF Engines, NoEngine
    <3> QED
      BY <1>2, <2>3, <3>1, <3>2, LooksAtOwn DEF Slot!Next, Slot!Lose
  <2>4. ASSUME NEW e \in Engines, Reap(e) \/ ReaperTells(e)
        PROVE  UNCHANGED <<current, past, lost>>
    BY <1>2, <2>4 DEF Inv, TypeOK, Reap, ReaperTells
  <2>5. ASSUME NEW e \in Engines, Engine(e)
        PROVE  UNCHANGED <<current, past, lost>>
    BY <2>5 DEF Engine, EngineStarts, EngineHandsOver, EngineExits, EngineDies, daemonState
  <2>6. CASE Term \/ Told \/ TermExpires \/ KillExpires \/ ClearSingleton \/ SpawnEngine \/ SpawnFails
    BY <2>6 DEF Term, Told, TermExpires, KillExpires, ClearSingleton, SpawnEngine, SpawnFails,
       controller
  <2>7. CASE UNCHANGED vars
    BY <2>7 DEF vars
  <2> QED
    BY <1>2, <2>1, <2>2, <2>3, <2>4, <2>5, <2>6, <2>7 DEF Next, Proceed, Reaper
<1> QED
  BY <1>1, <1>2, InitInv, NextInv, PTL DEF Spec, ImplementsSlot, Slot!Spec
=============================================================================
