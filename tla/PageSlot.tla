------------------------------ MODULE PageSlot -------------------------------
(***************************************************************************)
(* What WebpageController promises the daemon: at most one page is up; each *)
(* engine's page is put up once and leaves the screen once, either because *)
(* it was taken down or by itself, and only the latter is reported as lost. *)
(***************************************************************************)
CONSTANTS
  Engines,
  NoEngine  \* none of them

VARIABLES
  shown,  \* the engine whose page is up, or NoEngine
  past,   \* the engines whose page has been put up
  lost    \* those reported to have exited on their own

Init == shown = NoEngine /\ past = {} /\ lost = {}

PutUp(e) ==
  /\ shown = NoEngine
  /\ e \in Engines \ past
  /\ shown' = e
  /\ past' = past \cup {e}
  /\ UNCHANGED lost

TakeDown ==
  /\ shown # NoEngine
  /\ shown' = NoEngine
  /\ UNCHANGED <<past, lost>>

Lose ==
  /\ shown # NoEngine
  /\ lost' = lost \cup {shown}
  /\ shown' = NoEngine
  /\ UNCHANGED past

Next == (\E e \in Engines : PutUp(e)) \/ TakeDown \/ Lose

Spec == Init /\ [][Next]_<<shown, past, lost>>
=============================================================================
