------------------------------ MODULE MCCasting ------------------------------
(***************************************************************************)
(* Casting on the small instances of the MC*.cfg files: the sets of        *)
(* targets, activities and faults they choose from, by name.               *)
(***************************************************************************)
EXTENDS Casting

MediaOnly      == {"media"}
ProbeOrPage    == {"probe", "page"}

\* Senders that replace each other's casts, and clear the queue under a load.
Replacing      == {"play", "jumpTo", "clear"}
\* No jump, so that loads are bounded by the items queued.
Unattended     == {"play", "stop", "eof"}

JustPlay       == {"play"}
NoFaults       == {}
PlayFails      == {"playFails"}
\* Calls of a Play that fail, and loads that fail before or after they opened.
Refusals       == {"unpause", "entryId", "badUrl", "spawn", "openFails", "loadFails"}
\* What may go wrong with a page or a load, of a file or of a playlist.
LoadMishaps    == {"badUrl", "spawn", "openFails", "loadFails", "playFails", "endEarly",
                   "redirect", "engineExits"}
\* Mishaps of single files: a playlist's expansion would use up the bound on loads.
SingleFiles    == {"loadfile", "mpvStop", "openFails", "playFails", "endEarly",
                   "engineExits"}
=============================================================================
