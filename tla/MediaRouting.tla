----------------------------- MODULE MediaRouting -----------------------------
(***************************************************************************)
(* `Routing` of daemon/src/player.rs: the newest `loadfile` the daemon     *)
(* handed to mpv, the question whether its URL is media or a web page, and *)
(* the attribution of mpv's events to it by playlist entry id.             *)
(* Entry ids start at 1; 0 is the source's `None`: an id that could not be *)
(* read, or no file started yet. A load's URL is the id of its queue item. *)
(***************************************************************************)
EXTENDS Naturals

Rollbacks == [index : Nat, previous : Nat]
Loads     == [entry : Nat, item : Nat, probing : BOOLEAN, loaded : BOOLEAN,
              rollback : Rollbacks]
\* `current` is a set of at most one load, the source's Option<Load>.
Routings  == [current : SUBSET Loads, lastStarted : Nat]

NoRouting == [current |-> {}, lastStarted |-> 0]

\* Routing::submit.
Submit(r, entry, item, probing, rollback) ==
  [r EXCEPT !.current = {[entry |-> entry, item |-> item, probing |-> probing,
                          loaded |-> FALSE, rollback |-> rollback]}]

\* Routing::start_file.
StartFile(r, entry) == [r EXCEPT !.lastStarted = entry]

\* Mutant: every FileLoaded is taken for the tracked load's.
LoadedUnattributed(r) == [r EXCEPT !.current = {[l EXCEPT !.loaded = TRUE] : l \in r.current}]

\* Routing::file_loaded: the event has no id, the start before it gives one.
FileLoaded(r) ==
  [r EXCEPT !.current =
     {[l EXCEPT !.loaded = @ \/ l.entry = r.lastStarted] : l \in r.current}]

\* Mutant: attribution by submission order instead of entry id.
TrackedByOrder(r, entry) == r.current

\* The load an end event with this id belongs to, if any.
Tracked(r, entry) == {l \in r.current : l.entry = entry}

\* Routing::resolve_end, and what resolve_error does to the state.
Resolve(r, entry) == [r EXCEPT !.current = @ \ Tracked(r, entry)]

\* Mutant: a probe that opened and failed later goes to the browser all the same.
FallsBackAnyway(l) == l.probing

\* Routing::resolve_error: only a probe that never loaded goes to the browser.
FallsBack(l) == l.probing /\ ~l.loaded

\* Mutant: an undecided probe stays eligible for the browser.
NoCancel(r) == r

\* Routing::cancel.
Cancel(r) == [r EXCEPT !.current = {[l EXCEPT !.probing = FALSE] : l \in r.current}]
=============================================================================
