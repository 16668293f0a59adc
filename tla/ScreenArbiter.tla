---------------------------- MODULE ScreenArbiter ----------------------------
(***************************************************************************)
(* What the daemon promises of the screen, however casts race.  When it is *)
(* asked to, it gives the screen to a cast in one step, whoever had it.  By *)
(* itself it shows the cast asked for last, and that a second time at most: *)
(* as a web page, because mpv could not open it, and over nothing.         *)
(***************************************************************************)
CONSTANTS
  Casts,  \* what senders may ask for
  NoCast  \* none of them

VARIABLES
  asked,  \* the cast asked for last, or NoCast after a stop
  screen, \* who shows what
  again   \* whether that cast may still come up a second time

arbiterVars == <<asked, screen, again>>

Blank == [by |-> "nobody", cast |-> NoCast]

Init == asked = NoCast /\ screen = Blank /\ again = FALSE

\* Only what mpv is to find out about may come up again.
Show(c) ==
  /\ asked' = c
  /\ \/ screen' = [by |-> "browser", cast |-> c] /\ again' = FALSE
     \/ screen' = [by |-> "mpv", cast |-> c] /\ again' \in BOOLEAN

Stop == asked' = NoCast /\ screen' = Blank /\ again' = FALSE

\* The cast came up as media, or it failed for good, or something else was asked for.
Settle == again /\ again' = FALSE /\ UNCHANGED <<asked, screen>>

\* The cast on screen ends or fails, or was taken down for one that was refused.
Lose == screen # Blank /\ screen' = Blank /\ UNCHANGED <<asked, again>>

ShowAgain ==
  /\ again
  /\ screen = Blank
  /\ screen' = [by |-> "browser", cast |-> asked]
  /\ again' = FALSE
  /\ UNCHANGED asked

\* What needs nobody to ask.
ByItself == Settle \/ Lose \/ ShowAgain

Next == ByItself \/ Stop \/ \E c \in Casts : Show(c)

Spec == Init /\ [][Next]_arbiterVars

-----------------------------------------------------------------------------
\* Whoever has the screen shows what was asked for last, so it is never shown what
\* was superseded or stopped.
ShownIsAsked == screen # Blank => screen.cast = asked
=============================================================================
