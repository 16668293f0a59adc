# castoff: TLA+ models, checks and proofs

castoff turns a box behind a TV into a cast receiver. Its daemon (`src/daemon`) embeds mpv,
starts Chromium for web pages, and takes commands from any number of FCast senders. This
directory models what the daemon decides: who owns the screen, which item of the queue is
current, and what becomes of a cast that fails, ends or is overtaken.

## The system

| Component | State | Operations | Talks to |
|---|---|---|---|
| Play queue (`queue.rs`) | items with ids, current position, next id; a JSON file | push, jumps, clear, set_position, set_metadata, save, load | owned by Player under a mutex of its own |
| Routing (`player.rs`) | the newest `loadfile` submission, the last started entry id | submit, start_file, file_loaded, resolve_end, resolve_error, cancel | Player's commands write it, the async event watcher resolves it |
| Player (`player.rs`) | the handles below, the `operation` lock, two watch channels | play, the jumps, queue_clear, stop, pause, resume, seek, volume, speed | mpv by command, everything else by call |
| Idle screen (`idle_screen.rs`) | clock shown or not, wallpaper active, a generation | show, hide, rotation, end-of-file watcher | mpv's OSD; calls auto_advance_queue |
| Playback overlay (`overlay.rs`) | active, restarted, opacity, a generation | conceal, spawn_spinner, reveal, stop_spinner, clear | mpv's OSD |
| Web page engine (`webpage.rs`) | current process and its reaper channel, a generation | show, hide, terminate; the reaper thread | Chromium |
| Connections (`main.rs`) | per sender: writer with the last generations written, push task | dispatch, push_updates | Player; FCast frames |
| FCast (`fcast.rs`) | none | framing, message shapes, `explicit_target` | - |
| Image store, upload endpoint (`images.rs`, `upload.rs`) | manifest and files, the wallpaper tag | add, tag, pick; one HTTP request at a time | the rotation's tick |
| Metadata lookup (`metadata.rs`) | none | runs yt-dlp | a thread per queued YouTube URL |
| Senders, packaging (`scripts`, `nix`) | none | one command, one reply | - |

What is hard about it is that four kinds of actor share the screen. **Command handlers** (one
per connection), the **async event watcher** and the **end-of-file watcher** serialize on
`Player::operation`; the **lifecycle watcher** does not, and the end-of-file watcher shows its
clock after it has let go of the lock. Each watcher has a client handle of mpv's to itself and
so its own event queue: events are in order within one queue and unrelated between two. Events
outlive what they are about: by the time an error is handled the load may have been replaced,
stopped, or cleared from the queue.

What makes the components correct:

- routing: each error is resolved for the load it belongs to, and a URL goes to the browser only
  if it is still wanted and mpv never opened it;
- screen: one engine at a time; the clock and the spinner up only while nothing is being cast;
  neither a spinner nor a finished file's last frame for ever;
- queue: the position is an index of the queue, moves when a cast starts and back when it fails;
- feeds: a sender gets every reply, is sent what was published last unless something stamped later
  came before it, and its tick ends with playback; queue items, position and titles reach senders
  and the file as they are in memory;
- connections: one reply per request, in turn; neither a failing command whose error fits a frame
  nor another sender that stops reading costs a connection;
- web pages: one engine alive at a time, a page leaves the screen once, and nothing waits for an
  engine for ever;
- drawing: nothing of an overlay that was taken down stays, and a spinner turns on black only;
- images: what is listed has its file, what a sender was told is kept, the rotation does not repeat.

## Modules

| Module | Models |
|---|---|
| `PlayQueue` | the queue as operators on `[items, position, nextId]`, with `revert_queue_position` |
| `MediaRouting` | `Routing` as operators on `[current, lastStarted]` |
| `Casting` | the daemon: commands, watchers, idle screen, overlay, page; mpv and the engine as environment |
| `QueueStore` | the queue's file, its broadcast and the metadata lookups, over `PlayQueue` |
| `StatusFeed` | the status broadcast, and each connection's replies, pushes and ticks |
| `PageSlot` | abstract: what `WebpageController` promises of the pages it shows |
| `WebpageEngine` | `WebpageController`: show, hide, terminate, reapers, engines; implements `PageSlot` |
| `ScreenLayers` | what is drawn above the video: fades, spinner, clock, their locks, generations and threads |
| `ImageStore` | the image manifest and files, the upload thread, tags, the rotation's picks |
| `Connection` | the read loop and push task of each connection, the writer's lock, frames that fit or do not |
| `ScreenArbiter` | abstract: who gets the screen, and what may come up unasked; `Casting` implements it |
| `MCCasting` | named constant sets for the instances of `Casting` in the `.cfg` files |
| `CastingProofs`, `QueueProofs`, `StatusProofs`, `WebpageProofs`, `ScreenProofs`, `ImageProofs`, `ConnectionProofs` | theorems about the module each is named for |
| `PatientProofs` | theorems about `Casting` when senders wait for the watchers |

`Casting` decides what is on screen; it has whole commands as steps, a page that is up or down, and an
overlay of three bits. The other modules open up one part each and take the rest of the daemon as a
source of arbitrary changes, so that what they show holds whatever the rest does:

- `QueueStore` keeps `Casting`'s queue operations but lets any Play start or not and any load fail;
- `StatusFeed` and `Connection` share the connections out: the former has the status frames with
  their clock, the latter the requests, the socket and the queue's frames;
- `WebpageEngine` is the page of `Casting` in steps; who calls it when is left to `Casting`, except
  that calls do not overlap (the operation lock);
- `ScreenLayers` is `Casting`'s `overlay` and `idle` in steps, with the commands cut into the calls
  they make;
- `ImageStore` has `Casting`'s wallpaper rotation with the pictures it chooses from.

### How Casting corresponds to the code

- **State.** `queue` and `routing` are the structs of those names. `idle` has IdleScreen's
  `current` (clock) and `wallpaper_active`; `overlay` has `active`, `restarted`, and `revealing`:
  whether the running reveal still holds the current generation. Every other overlay operation
  takes a new generation, so one bit is what remains of the counter. `page` is the item whose
  page is up. `asyncQ` and `lifeQ` are the two client handles' event queues; `life` and `eof` are
  program counters of the two watchers that are not atomic.
- **Atomic actions.** All that runs under `Player::operation` is one action: Play, the jumps, Stop,
  ClearQueue, the rotation's critical section, each END_FILE and FILE_LOADED event, and
  `auto_advance_queue`, with the fades and the overlay calls inside. START_FILE takes no
  lock but only writes `last_started`.
- **Split actions.** The lifecycle watcher handles PlaybackRestart in three steps (mark, begin the
  reveal, clear if still current) and a failure in three (stop the spinner, clear, show the
  clock); the fades between them last 400 ms and any command fits in. `reveal`'s first look at
  `is_active` and its `begin` are one step here, two in `ScreenLayers`. The end-of-file watcher
  takes the event, then the lock, then shows the clock after the lock. The lifecycle watcher
  getting in between two calls *inside* a command is left out: commands are atomic
  to it.
- **Positions and ids** are shifted by one, so 0 is the source's `None`: no position, an entry id
  that could not be read, no file started. A load's URL is its item's id, an item is its id
  and what the sender said of the URL (`explicit_target`).
- **Errors.** A call that fails is a nondeterministic outcome `f`, from the instance's `Faults`:
  `loadfile` (or the spinner failing to come up before it), `entryId` (the id cannot be read),
  `unpause`, `badUrl` and `spawn` of the engine, `mpvStop` (and, in Stop, the fade before it).
  OSD calls that fail after mpv has already done its part are left out.
- **mpv** is on one entry at a time: queued, starting, opened, playing, at its end, idle. A
  `loadfile ... replace` or `stop` ends a started entry cleanly for the async watcher; the
  lifecycle watcher ignores that reason, so nothing is queued for it. `keep-open=yes` means that a
  natural end of the last entry sends no END_FILE; `eof` is that end before the end-of-file watcher
  has fetched it, `ended` after. An error goes to both event queues. A playlist URL ends its entry
  and puts up to `MaxMore` + 1 others in its place: the first is up, and `mpv.more` are behind it. When
  an entry ends or fails mpv goes on to the next (`MpvGoesOn`), which no tracked load has the id of; the
  async watcher passes over its events, the lifecycle watcher takes them for the cast's. A wallpaper
  is an image and has no end; it can fail as a cast can. The engine may exit by itself, which publishes
  nothing. An entry gets its id when mpv gets to it, since ids are only compared. Two things about
  playlists are left out: one that mpv has expanded before `play_media` reads the id back (the id is
  then the first entry's, whose failure would move the position back, or open the browser, while mpv
  goes on; `ImplementsArbiter` and `ScreenIsCurrentItem` are not claimed there), and one without entries.
- **The start** is that of a daemon whose state file is missing. A queue that was saved is loaded with
  its position and nothing on screen; that start is in `QueueStore`.
- **History.** `opened` collects what mpv did since the last submission, `wanted` is the item of
  the last play that took effect, and `overtaken` that the lifecycle watcher may take the end of an entry
  before for that of the one mpv is on; no guard reads them.
- **As `ScreenArbiter`.** `wanted` is the cast asked for; the screen is the page's, else mpv's if it
  is on a sender's item, else nobody's; and a cast may come up again while the tracked load is
  eligible for the browser and mpv has not opened it. Commands and auto-advance may be any step of
  the arbiter; all other actions must be steps it takes by itself.

### How QueueStore corresponds to the code

A command changes the queue under its mutex, then saves it (`persist_queue`), then copies it
(`queue_state`), then sends the copy: four steps, between which a lookup thread may add a title,
save and send, all under the mutex. `op` is what the holder of `Player::operation` has still to
do; auto-advance, the rollback of a failed load and the lookup save and send in one step, as
they do under the mutex. A load outlives its operation as `tracked`, the rollback the async
event watcher applies when the error comes. An entry's title is the id it was looked up for, so that
a title on the wrong entry shows. A save replaces the file or leaves the old one (write, then
rename). `Restart` may happen between any two steps and starts from what `Load` makes of the file: its
queue, or an empty one if it cannot be read or parsed, in which case the file stays as it is until the
next save. `fileOk` is history: the last save or load succeeded. A missing file is `Init`.

### How StatusFeed corresponds to the code

A publisher is a sender's command or one of the daemon's threads (the lifecycle watcher,
the two others through `on_change`, the fallback). It changes the state, reads it
(`snapshot_status`), takes the time and sends, in four steps: most of them hold no common lock.
The watch channel is its latest value and a version. A connection is a push task
(`push`, `frame`, `seen`, `last`) and the reply to its sender's command (`reply`, `answer`); the
reply holds the writer's lock from before its snapshot, the push task only to write. `written` is
`last_generation`. `snapshot_status` reads one state at one moment; its several mpv properties
can be torn in the code, which lasts until the change under way is published. `QueueState`
frames pass the same guard by their own generation; they are in `Connection`.

### How WebpageEngine corresponds to the code

`current` and `generation` are `State`'s; `op` is the show or hide under way, by the call it is about
to make (`Term` to `KillExpires` are `terminate`, then `clear_singleton_artifacts`, `spawn`, and the
second critical section of `show`). They hold the operation lock throughout, so there is one `op`;
the controller's own lock is held for one action each. An engine is a number, in the order of
spawning; `proc`, `stopped` and `profile` are the processes, the signals sent and the profile's
singleton files, after what the comments on `Browser` say of Chromium. `reaper[e]` is the thread
that waits for engine `e`, with the generation it was given in `mine[e]`: it returns from `wait`, looks
at the state under the lock, and then sends the word `terminate` waits for, in three steps. A grace
time is an action that may happen while the reaper has not reported; it needs an engine that
ignores the signal (`ignoresTerm`, `slowToDie`).

### How ScreenLayers corresponds to the code

An actor (the holder of the operation lock, the lifecycle watcher, the end-of-file watcher) has a list of
steps still to do; each step is what the code does under one lock or with one mpv command. The lists
are the procedures of the source: `Conceal`, `Spin`, `ShowClock`, `FadeInClock`. A fade is
`FadeSteps` steps with `lerp_u8`'s arithmetic, from the opacity `begin` found. The overlay's
generation number becomes `owner`, the actor whose sequence has the current one, and `turning`,
whether a spinner thread has it; the idle screen's becomes `newest` of a refresh thread: the code
only compares a number with the current one, and numbers only grow. `refreshers` is a set of thread
states; two threads in the same state act alike. OSD calls that fail are left out here: they are
faults of `Casting`, where they end in the clock.

### How ImageStore corresponds to the code

`images` is the manifest under the store's lock, `disk` what the last successful save left in
`images.json`, `files` the image files, which are written outside the lock and may be cut short.
A rotation loads its pick, or finds it superseded, or has it refused by mpv (a path that is no UTF-8
is the same): the pick is spent in each case, and `missed` remembers a refusal until the next load.
The upload thread takes a request, reads its body, writes the file, registers it, answers: one
action each, and a `Restart` (a crash at any of them) may come between. A request is one of
the kinds `handle_request` tells apart. `last` is `last_wallpaper_id`; `pending` is a pick of
the refresh thread between `tick()` and the operation lock, and whether the clock it was made for is
still the current screen. `told` collects what senders were answered, `unsaved` that the last save
failed; no guard reads them.

### How Connection corresponds to the code

A connection is a loop (`loop`, `request`), a push task (`push`, `seen`, `tooLarge`), the lock they
share (`writer`, `written` for `last_queue_generation`) and a socket that holds `Buffer` unread frames. A
request is one of the classes `dispatch` treats alike, by what it does and is answered with. The
queue is its size in short items: more than `MaxInFrame` of them, or one with a long URL, do not fit
`MAX_PACKET_SIZE`, so that `write_frame` refuses the frame after the generation was recorded, as in
the code. The reply takes its snapshot under the lock, the push task before it. `version` counts
changes of the queue; a frame's time is the version it knows of, which leaves the order of two
changes in one millisecond to `StatusFeed`.
An error's text repeats the sender's URL, so a failed Play with a long one (`longFails`) has a
`PlaybackError` that is refused, and `?` ends the loop. `abort` ends the push task wherever it waits.

## What is checked

Passing runs. Deadlock is not checked in any: once the bound on items and loads is used up a run
really has nothing left to do.

| Run | Instance | Shows |
|---|---|---|
| `routing` | 2 items, 3 loads, probes and pages, plays, jumps and clears, refusals of a Play | one engine at a time (`PageExcludesMedia`); the page on screen is the one asked for last (`PageIsWanted`); an error finds its load and knows whether it had opened (`ErrorFindsLoadKnown`); casts pass the screen on as promised, and none comes back but a probe mpv could not open, once and over nothing (`ImplementsArbiter`, a refinement) |
| `patient` | 2 items, 3 loads, every command and target, all load mishaps, senders that wait | `TypeOK`; clock, queue, screen and wallpaper agree, but for entries of a playlist overtaken by the next (below): `ClockNeverOverCast`, `PositionInQueue`, `ScreenIsCurrentItem`, `RotationNeverClobbers` |
| `fair` | 3 items, 6 loads, plays, stops and ends of file, with fairness | something on its way will end every spinner (`SpinnerHasCause`), and it does (`SpinnerEnds`); no last frame stays (`FrozenFrameEnds`) |
| `queue_store` | 3 items (2 with the restart), one restart, a file that may fail to be written, read or parsed | `TypeOK`; titles stay on their own entries (`TitlesBelong`); the file is never behind (`FileIsCurrent`); senders learn of every item and position (`FeedHasItems`) |
| `status_feed` | 1 sender that commands, 1 watcher, 3 publications, 3 instants, with fairness | `TypeOK`; no reply is dropped (`RepliesArrive`); what is published last is written, or was preceded by something stamped later (`PublishedReaches`); no tick without playback (`TickEnds`) |
| `web_engine` | 3 engines, 6 generations, every fault, with fairness | `TypeOK`; one live engine (`OneEngine`); pages as promised, whatever late reapers do (`ImplementsSlot`, a refinement); show and hide return (`ControllerReturns`); a crash is noticed (`CrashNoticed`) |
| `screen_layers` | fades of 2 frames, 3 commands, with fairness | `TypeOK` (opacities stay in range); `NothingLeftBehind`; `SpinnerOnBlack`; a superseded clock thread draws at most once more (`OneStrayEach`); a current clock is opaque again and again (`ClockHeals`); a spinner on screen turns or goes (`SpinnerTurns`) |
| `images` | 3 images, 3 tag changes, 1 restart, every fault (writes, reads, mpv's load), with fairness | `TypeOK`; `EntriesHaveFiles`; `ToldIsKept`; `RotationChanges`; `NextIsServed` |
| `connection` | 2 senders, one of which stops reading, 2 requests of seven classes, with fairness | `TypeOK` (only the lock's holder writes); `RepliesInTurn`; `EndsForCause`; `ReadersAnswered` |

**Bounds.** `MaxItems` bounds Plays, `MaxLoads` the entries mpv ever gets to and `MaxMore` those a
playlist has behind its first: one entry that ends and one that mpv goes on to is all there is to tell
apart. Three loads are what attribution needs: a load whose error is in flight, the one that replaced
it, and a wallpaper or a playlist's entry that goes between. Two items give each load a previous and a next position.
In `fair` the bound on loads is never reached (no run of it creates more than five), so no
cast is cut off by it and the liveness properties are not about the bound. In `queue_store` three
items are an entry, one at its index after a clear, and one more; the restart lets an id that
was lost with its save be handed out again, or all of them if the file could not be read, and costs one
of the items. In `status_feed` connections share nothing but the
channel, so one is enough; three instants are a publication, the reply that overtakes it and the
publication after that. After its last publication a run still has ticks, silent ends and
pushes, so liveness is not cut off either.

In `web_engine` three engines are the incumbent, its replacement and one after that, so that a reaper
can be two pages late; six generations let each of them be shown and one be hidden. The
bounds stop only new shows and hides, which nothing waits for. In `screen_layers` three commands
are a Play, what overtakes it, and a third to which the first one's threads are two generations old; two
frames are the least fade with a frame that is not its last. The three actors together never draw
more than the commands and their events ask for, and what is asked for is finished: the clock
that must heal is the one left when the commands are used up. In `images` three images
are one pick, the other and a newcomer. In `connection` two requests and two senders are a
change by one that the other's push task writes, before, after or during its own request; a socket
with room for one frame fills with the first. `PositionKnown` in `FileIsCurrent` and
`FeedHasItems` leaves out a queue whose position is outside its items: a jump back from there
moves the position, finds no item, and neither saves nor sends.

**Patient senders.** With `Patient` senders act only when all events have been handled. The four
properties of that run fail without it (below), so the run separates what the daemon does
wrong in a race from what it would do wrong anyway. mpv, the rotation and the watchers
still interleave freely.

**Fairness.** Weak fairness of each watcher (threads in blocking waits with no other duty) and of
mpv resolving what it was given: opening, rendering, failing, each step of it; mpv's network
timeouts make it so. Ends of file, errors during playback, engine exits, rotations and senders owe
nothing. `FrozenFrameEnds` therefore leans on the end-of-file watcher only. In `StatusFeed` threads
and tasks that can run do (weak fairness), and a push task takes from its channel even if a tick
is always ready too (strong fairness): `tokio::select!` picks among ready branches at random.
The clock owes nothing.

In `WebpageEngine` the operation under way proceeds, since each of its waits has a time limit, and each
reaper runs; an engine owes nothing unless the faults say that it heeds SIGTERM or dies of SIGKILL in
time. In `ScreenLayers` each actor finishes what it began, spinner threads take their turns, and so
does the refresh thread of the clock on screen; superseded threads owe nothing. In `ImageStore`
the upload thread runs once it has the body: the code puts no limit on how long a body takes, so
nothing is promised of the wait before. In `Connection` loops and push tasks run when they can, and
the senders that are not `Stalled` read.

### Where the code and its documentation differ

Each of these runs is expected to find its property violated; PROJECT.json quotes the lines.

| Run | What happens |
|---|---|
| `nothing_plays` | A playing item fails: no clock comes back, and `is_idle` is false with nothing playing, so the next Play only queues. |
| `advance_after_stop` | The end-of-file watcher has the event but not the lock; Stop; then the watcher plays the next item. |
| `push_dies` | A queue outgrows the 32 KiB of a frame. `push_updates` takes the refused write for a dead socket and returns; the connection stays open and its commands are answered, but neither queue nor status is pushed on it again. |

The models show six more things the code does, which limit what the passing runs can claim:

- **Clock over a cast.** Play A; A fails; before the lifecycle watcher handles it, Play B. The watcher
  finds B's spinner up, clears it and raises the clock over B; the rotation, which trusts the clock, may then
  load its image in the cast's place. Hence the waiting senders of `patient`.
- **Clock over a playlist.** A playlist's entry fails before its first frame and mpv goes on to the next.
  The lifecycle watcher, which knows no entry, ends the spinner and raises the clock, over the cast
  and with senders that wait; the rotation follows as above. The same happens when such an end is still
  unhandled as the queue advances. `overtaken` marks both cases, and `ClockNeverOverCast` and
  `RotationNeverClobbers` say that there is no third.
- **Position taken back.** A load stays tracked after its first frame, so an item that fails in the
  middle of playback is undone like one that never played. `ScreenIsCurrentItem` does not see it:
  the screen is empty by then.
- **Position outside the queue.** A load fails behind a web page, the queue is cleared and refilled to
  the same index, and the late error "undoes" a position to an index that no longer exists.
  `PositionInQueue` is checked for waiting senders, `QueueStore` goes through such positions.
- **The older status last.** Two threads publish at once and the older snapshot is sent last; the
  channel, and a sender that commands nothing, are left with it. Or a reply reads the state, a newer one
  is read, stamped and published by another thread, and the reply takes its stamp after that: the newer
  push is dropped as stale. `PublishedReaches` is about the frame sent last, whichever snapshot it is, and
  about what becomes of it by its stamp.
- **An error too large.** A failing Play with a URL near 32 KiB ends its sender's connection:
  `dispatch`'s error repeats the URL, and the refusal of that frame leaves the loop. `EndsForCause`
  counts it among the causes.

## What is proved

For every set of targets, commands and faults, any number of connections, publishers, engines, images
and frames of a fade, and every bound. The assumptions are the modules' own ASSUMEs, which say what
kind of constants these are; where a theorem needs more, the text below it says what and why. Every
invariant, action property and refinement of the passing runs is the statement of a theorem.

| Theorem of `CastingProofs` | Statement |
|---|---|
| `TypeCorrect` | `Spec => []TypeOK` |
| `OneEngine` | `Spec => []PageExcludesMedia`, if `"mpvStop"` is not among the faults |
| `PageWanted` | `Spec => []PageIsWanted` |
| `FallbackHarmless` | `Spec => FallbackInterruptsNothing` |
| `SpinnerCaused` | `Spec => []SpinnerHasCause` |
| `ErrorAttributed` | `Spec => []ErrorFindsLoadKnown` |
| `Arbitration` | `Spec => ImplementsArbiter`, if `"mpvStop"` is not among the faults |
| `ScreenWanted` | `Spec => []Arbiter!ShownIsAsked`, on the same condition |

`OneEngine` needs mpv to obey `stop`: `play_webpage` brings the page up first, and if mpv then
refuses to stop, both are on screen.

`PageIsWanted` is not inductive: a fallback shows the page of a load tracked long before, and
what must be known is that nobody asked for anything since. `AttributionInv` says it: the daemon
tracks one load (`OneLoad`); a tracked load still eligible for the browser is of the wanted item
and no page is up (`ProbeIsWanted`); every event in flight bears an id mpv has handed out
(`EntriesKnown`), so that a new load, whose id is new, is met by no old event; and the error of
the tracked load in flight means mpv is on nothing else of a sender's (`FailureLeftMpv`).
That it is kept is proved over ten kinds of step (`StepKinds`) instead of some thirty actions:
each action is shown to be of one of the kinds, and each kind to keep the invariant. The case
that carries the weight is a submission: it replaces the tracked load, and no event in flight can
be about the new one.

`SpinnerHasCause` holds because a loading screen comes up only with a new load, and each step of mpv that
ends loading puts an event into the lifecycle watcher's queue. `SpinnerInv` says of the watcher's own steps
which of them are on the way to take the spinner down (`Settling`), and that without one the tracked
load's error is not in flight: a fallback would stop mpv, of which the lifecycle watcher hears nothing.

`ErrorFindsLoadKnown` is about an event without an id, so it rests on the order of the events in flight.
`OrderInv`: each FILE_LOADED comes right behind its entry's START_FILE, which the watcher may have
handled already (`StartsLead`), and nothing of an entry follows its error (`ErrorsLast`).
`KnownInv`: a tracked load mpv has opened is marked as loaded or its FILE_LOADED is still in
flight, and none that mpv has not opened is either. With its error at the head of the queue, no
FILE_LOADED of its own can be behind it.

`FallbackInterruptsNothing`, which no run lists because `ImplementsArbiter` implies it there, is proved
without asking mpv to obey `stop`.

`Arbitration` is proved step by step: a play is `Show`, or `Lose` or `Settle` if it was refused; the
fallback is `ShowAgain`, which needs what the other theorems give: the item is the one wanted and the
screen is empty (`AttributionInv`), no page is up with media (`OneEngine`), and a probe the daemon takes
for unopened is one (`ErrorAttributed`). Items also need numbers in range (`IdsGiven`). `ScreenWanted` is then
an invariant of the abstract module alone, and extends `PageIsWanted` to what mpv shows. Both need
mpv to obey `stop`: after a page Play it refused, page and media are up together, and after a
refused Stop the item plays on.

| Theorem of `PatientProofs` | Statement, for `Patient` senders |
|---|---|
| `ClockUnder` | `Spec => []ClockNeverOverCast`, if `loadfile`, `unpause` and `mpvStop` succeed |
| `SingleFileClock` | `Spec => [](idle.clock => ~CastLive)`, on the same condition and with `MaxMore = 0` |
| `RotationHarmless` | `Spec => RotationNeverClobbers`, on the same condition |
| `PositionValid` | `Spec => []PositionInQueue` |
| `ScreenCurrent` | `Spec => []ScreenIsCurrentItem`, if `unpause` and `mpvStop` succeed |

These are the properties an impatient sender can break (above), so `Patient` is in every hypothesis. The calls that
must succeed are those whose failure breaks the property too: `play_media`'s error paths put the
clock back while what mpv was on plays on, as do Stop and the fallback when mpv refuses to stop; a failed
`unpause` moves the position back under an item that mpv has taken. The run's faults leave them
out as well; every other fault is allowed.

- `ClockInv`: while mpv is on a cast that is not overtaken, no watcher is on its way to the clock, and the lifecycle watcher has
  nothing to hear but that playback restarted. The end-of-file watcher, once it has noticed an end, finds
  the cast still frozen there when it gets the lock, or has left it to the clock. `SingleFileClock` shows
  what the exception is worth: where no playlist has a second entry (`SingleInv`), an advance too finds
  no end unhandled, nothing is ever overtaken and the clock is over no cast at all.
- `PositionInv`: whatever load may still fail (`MayFail`: mpv is on it, or its error is in flight), the
  position it would go back to is that of an item or none. Clearing the queue empties it with no
  error in flight, which is where waiting matters.
- `ScreenInv`: what loads, plays or may yet fall back is the current item; a page is up, or an end of file
  noticed, only with no failure in flight, since undoing that would move the position away.


| Theorem of `StatusProofs` | Statement |
|---|---|
| `TypeCorrect` | `Spec => []TypeOK` |
| `ReplyOnWire` | `Spec => []RepliesArrive` |

`RepliesArrive` says that a stamped reply is not older than what its connection has written. A step
that writes something newer would break it, so the invariant adds that no frame, in the making or
written, is from the future (`NoFutureFrames`): a reply is then at least as new as anything when it
is stamped, and until it is written it holds the writer. The clock of the model does not go back;
the daemon's wall clock can be set back, and then the guarantee ends.

| Theorem of `QueueProofs` | Statement |
|---|---|
| `TypeCorrect` | `Spec => []TypeOK` |
| `TitlesRight` | `Spec => []TitlesBelong` |
| `FileCurrent` | `Spec => []FileIsCurrent` |
| `FeedCurrent` | `Spec => []FeedHasItems` |

What is saved or sent is the queue in memory or the snapshot of `publish_queue_state`, so the invariant
has to bound how far that snapshot may be behind: not in items and position, which only the holder
of the operation lock changes (`SnapshotFresh`), and nowhere with a foreign title (`TitlesEverywhere`).
`FeedFresh` carries `FeedHasItems` through the playing of an item, to where its failure moves the
position back. Restarts are harmless because the file is one of the copies the titles are right in, and an
empty queue has none; after one that could not make sense of the file, `fileOk` is false and nothing is
claimed of it until the next save.

| Theorem of `WebpageProofs` | Statement |
|---|---|
| `TypeCorrect` | `Spec => []TypeOK` |
| `OneEngineAlive` | `Spec => []OneEngine` |
| `Implementation` | `Spec => ImplementsSlot` |

`OneEngine` needs to know who may be alive unkilled: the current engine, the one being taken down
until its SIGKILL, or the one just spawned (`LivingIsKnown`); at most one of the three exists.
The refinement needs that a reaper whose generation is still the current one is the current page's
(`ReaperIsCurrents`) and that a page is up only between operations, with its reaper still
to look (`CurrentIsWatched`): the reaper's look is then `Lose` of the page it belongs to or a stutter.

| Theorem of `ScreenProofs` | Statement |
|---|---|
| `TypeCorrect` | `Spec => []TypeOK` |
| `NothingLeft` | `Spec => []NothingLeftBehind` |
| `SpinnerBlack` | `Spec => []SpinnerOnBlack` |
| `OneStray` | `Spec => OneStrayEach` |

Types are the least of it here: that an opacity stays in range leans on what each actor has still to do,
which keeps the order of the code's procedures (`Chained`): a fade follows the step that took its
generation, a spinner's thread the record of its first frame. Whoever draws has the current generation, and a
generation without an active overlay is nobody's (`Generations`): the argument of the comments in
`overlay.rs`, here for any number of actors' steps in between. `SpinnersOnBlack`: who turns the spinner, or
is about to have it turned, does so on full black, and does not fade, for a fade begins with a new
generation. `OneStray` needs that a superseded clock thread which has drawn is asleep, and ends when it
wakes (`StraysSleep`).

| Theorem of `ImageProofs` | Statement |
|---|---|
| `TypeCorrect` | `Spec => []TypeOK` |
| `FilesAreWhole` | `Spec => []EntriesHaveFiles` |
| `ToldHolds` | `Spec => []ToldIsKept` |
| `PicksChange` | `Spec => RotationChanges` |

An entry is made only of a file that is whole (`InHand`), and a file is begun only under an id that no
entry has (`Fresh`), so no write can damage an entry's file. `ToldIsKept` adds that the manifest on
disk is the one in memory unless a save failed (`Saved`). `RotationChanges` needs that the image on
screen is the rotation's last pick, which the next one leaves out of the pool; `PickInv` follows the pick
from when it is made to when mpv has loaded it, over screens and restarts in between. A pick that mpv
refused is the last one all the same, and not on screen: `missed` says so until the next load.

| Theorem of `ConnectionProofs` | Statement |
|---|---|
| `TypeCorrect` | `Spec => []TypeOK` |
| `InTurn` | `Spec => []RepliesInTurn` |
| `EndsOnlyForCause` | `Spec => []EndsForCause` |

The three invariants are inductive together, once it is known that a frame out of bounds is the last a
connection takes up, and an error too large the last it sends (`CauseIsLast`): otherwise the cause of an
ended push task could be forgotten.

Only model-checked: liveness, which is out of the prover's reach with its fairness (`SpinnerEnds`,
`FrozenFrameEnds`, `TickEnds`, `PublishedReaches`, `ControllerReturns`, `CrashNoticed`, `ClockHeals`,
`SpinnerTurns`, `NextIsServed`, `ReadersAnswered`), and the three properties that are refuted.

## Not modelled, and what comes next

- **Composition.** `Casting` with `WebpageEngine` in the place of its page, or with `ScreenLayers` in
  that of its overlay: each alone fills TLC's time.
- **Pause, Resume, Seek, volume, speed.** They set a property of mpv and publish. `StatusFeed` has them as
  changes of the state, `Connection` as commands that are answered with a status, `ScreenLayers` has the restart
  event of a Seek; a model of what mpv does with them would be a model of mpv.
- **Accepting connections** (`main`): no state. An error of `accept` ends the daemon.
- **A stalled upload** holds up all others, for as long as its sender likes: `handle_request` has no time
  limit. `NextIsServed` starts after the body for that reason.
- **Pids.** `terminate` signals a process group by a number that may have been reaped and reused.
- **The wall clock set back.** Frames are ordered by it; `StatusFeed`'s clock does not go back.
- **Proofs left**: that `WebpageEngine` keeps what `Casting` takes for granted of its page, stated between
  the two modules.

Left out for good: the shapes drawn and the timing of fades; bytes of a frame, JSON, HTTP; names and
content types of images; logging; yt-dlp's output; the shell and Perl senders, which are sequential;
NixOS packaging, which has no behaviour of its own.
