----------------------------- MODULE ImageStore -----------------------------
(***************************************************************************)
(* Uploaded images and their wallpaper tags (daemon/src/images.rs), the    *)
(* HTTP endpoint they come in by (daemon/src/upload.rs), and the rotation's*)
(* picks.                                                                  *)
(*                                                                         *)
(* One upload thread serves one request after the other; tag changes come  *)
(* in on the senders' connections and picks from the clock's refresh       *)
(* thread.  The manifest is saved as a whole under the store's lock, the   *)
(* image files are written outside it.  The daemon may die at any step.    *)
(*                                                                         *)
(* Of the idle screen there is what the picks need: whether the clock is   *)
(* the current screen, and the wallpaper behind it.  A refresh thread's    *)
(* looks and its pick follow each other without a pause that another clock *)
(* and its first rotation would fit in.                                    *)
(***************************************************************************)
EXTENDS Naturals, FiniteSets

CONSTANTS
  MaxImages,   \* bound: ids ever generated
  MaxCrashes,  \* bound: restarts
  MaxTags,     \* bound: tag changes
  Faults       \* what may go wrong, of AllFaults

\* The image's file or the manifest may not be written, the manifest not be read, and mpv
\* may refuse to load a wallpaper.
AllFaults == {"write", "save", "unreadable", "loadfile"}

ASSUME ImagesAssumption ==
  /\ MaxImages \in Nat
  /\ MaxCrashes \in Nat
  /\ MaxTags \in Nat
  /\ Faults \subseteq AllFaults

VARIABLES
  images,   \* the manifest in memory: its ids, each with its wallpaper tag
  disk,     \* images.json
  files,    \* the image files: "none", "partial" or "whole"
  upload,   \* what the upload thread does
  last,     \* State.last_wallpaper_id
  idle,     \* the clock is the current screen
  wallpaper,\* the image behind it
  pending,  \* maybe_rotate_wallpaper's pick, until it has the operation lock
  missed,   \* history: a pick made since the last load was refused by mpv
  told,     \* history: the ids answered to senders, with the tag last set
  unsaved,  \* history: the last save failed
  crashes,  \* restarts so far
  tags      \* tag changes so far

rotation == <<last, idle, wallpaper, pending, missed>>
vars == <<images, disk, files, upload, rotation, told, unsaved, crashes, tags>>

Ids       == 1..MaxImages
NoImage   == 0
Manifests == UNION {[S -> BOOLEAN] : S \in SUBSET Ids}
NoImages  == [i \in {} |-> FALSE]
NoPick    == [id |-> NoImage, choice |-> FALSE, current |-> FALSE]
\* Requests, by what handle_request makes of them.
Requests  == {"elsewhere", "tooLong", "broken", "tooLarge", "notImage", "image"}
Waiting   == [at |-> "waiting", request |-> "none", id |-> NoImage]
UploadSteps == {"waiting", "reading", "writing", "written", "stored"}

TypeOK ==
  /\ images \in Manifests
  /\ disk \in Manifests
  /\ files \in [Ids -> {"none", "partial", "whole"}]
  /\ upload \in [at : UploadSteps, request : Requests \cup {"none"}, id : Ids \cup {NoImage}]
  /\ (upload.id = NoImage) <=> (upload.at \in {"waiting", "reading"})
  /\ {last, wallpaper} \subseteq Ids \cup {NoImage}
  /\ idle \in BOOLEAN
  /\ pending \in [id : Ids \cup {NoImage}, choice : BOOLEAN, current : BOOLEAN]
  /\ missed \in BOOLEAN
  /\ told \in Manifests
  /\ unsaved \in BOOLEAN
  /\ crashes \in 0..MaxCrashes
  /\ tags \in 0..MaxTags

\* from_env on a first start.
Init ==
  /\ images = NoImages
  /\ disk = NoImages
  /\ files = [i \in Ids |-> "none"]
  /\ upload = Waiting
  /\ last = NoImage
  /\ idle = TRUE
  /\ wallpaper = NoImage
  /\ pending = NoPick
  /\ missed = FALSE
  /\ told = NoImages
  /\ unsaved = FALSE
  /\ crashes = 0
  /\ tags = 0

-----------------------------------------------------------------------------
\* Mutant: what is written is the manifest from before the change.
SaveEarlier(manifest) == disk' = images /\ unsaved' = FALSE

\* Manifest::save, by write and rename: all of it, or a failure that is logged.
Save(manifest) ==
  \/ disk' = manifest /\ unsaved' = FALSE
  \/ "save" \in Faults /\ UNCHANGED disk /\ unsaved' = TRUE

With(manifest, id, tag) ==
  [i \in DOMAIN manifest \cup {id} |-> IF i = id THEN tag ELSE manifest[i]]

-----------------------------------------------------------------------------
\* The upload thread

bounds == <<crashes, tags>>

Unused == {i \in Ids : files[i] = "none"}

\* A request is taken up; one that is refused by its head is answered at once.
Accept(request) ==
  /\ upload = Waiting
  /\ Unused # {}  \* the bound
  /\ request \notin {"elsewhere", "tooLong"}
  /\ upload' = [at |-> "reading", request |-> request, id |-> NoImage]
  /\ UNCHANGED <<images, disk, files, rotation, told, unsaved, bounds>>

\* The id is new and the file is about to be written.
StartFile(id) ==
  /\ upload' = [upload EXCEPT !.at = "writing", !.id = id]
  /\ files' = [files EXCEPT ![id] = "partial"]
  /\ UNCHANGED <<images, disk, rotation, told, unsaved, bounds>>

\* The body is in; a broken or too large one, or one that is no image, is answered
\* with an error. Otherwise ImageStore::store creates the file.
ReadBody ==
  /\ upload.at = "reading"
  /\ \/ /\ upload.request # "image"
        /\ upload' = Waiting
        /\ UNCHANGED <<images, disk, files, rotation, told, unsaved, bounds>>
     \/ /\ upload.request = "image"
        /\ \E id \in Unused : (\A i \in Unused : id <= i) /\ StartFile(id)

\* Mutant: a write that fails panics, and with it the only upload thread.
WriteOrPanic ==
  /\ upload.at = "writing"
  /\ \/ /\ upload' = [upload EXCEPT !.at = "written"]
        /\ files' = [files EXCEPT ![upload.id] = "whole"]
     \/ upload' = [upload EXCEPT !.at = "panicked"] /\ UNCHANGED files
  /\ UNCHANGED <<images, disk, rotation, told, unsaved, bounds>>

\* The whole image is in its file, or an error leaves what was written.
WriteFile ==
  /\ upload.at = "writing"
  /\ \/ /\ upload' = [upload EXCEPT !.at = "written"]
        /\ files' = [files EXCEPT ![upload.id] = "whole"]
     \/ "write" \in Faults /\ upload' = Waiting /\ UNCHANGED files
  /\ UNCHANGED <<images, disk, rotation, told, unsaved, bounds>>

\* Mutant: the manifest takes the image in before its file is complete.
RegisterEarly ==
  /\ upload.at \in {"writing", "written"}
  /\ upload.id \notin DOMAIN images
  /\ images' = With(images, upload.id, FALSE)
  /\ Save(images')
  /\ upload' = [upload EXCEPT !.at = IF @ = "written" THEN "stored" ELSE @]
  /\ UNCHANGED <<files, rotation, told, bounds>>

\* Under the lock: a new entry, not tagged, and the manifest saved.
Register ==
  /\ upload.at = "written"
  /\ images' = With(images, upload.id, FALSE)
  /\ Save(images')
  /\ upload' = [upload EXCEPT !.at = "stored"]
  /\ UNCHANGED <<files, rotation, told, bounds>>

\* Mutant: the next request finds the last one's id.
AnswerKeepsId ==
  /\ upload.at = "stored"
  /\ upload' = [upload EXCEPT !.at = "waiting"]
  /\ UNCHANGED <<images, disk, files, rotation, told, unsaved, bounds>>

\* The answer with the id, and the URL file_url_for finds for it; it may get lost.
Answer ==
  /\ upload.at = "stored"
  /\ told' \in {told, With(told, upload.id, images[upload.id])}
  /\ upload' = Waiting
  /\ UNCHANGED <<images, disk, files, rotation, unsaved, bounds>>

Store == WriteFile \/ Register \/ Answer

-----------------------------------------------------------------------------
\* Tags and picks

\* SetImageWallpaper: Player::set_image_wallpaper answers an unknown id with an error.
SetWallpaper(id, tag) ==
  /\ tags < MaxTags
  /\ tags' = tags + 1
  /\ id \in DOMAIN images
  /\ images' = With(images, id, tag)
  /\ Save(images')
  /\ told' = IF id \in DOMAIN told THEN With(told, id, tag) ELSE told
  /\ UNCHANGED <<files, upload, rotation, crashes>>

Tagged == {i \in DOMAIN images : images[i]}

\* Mutant: any tagged image.
PoolAll == Tagged
\* pick_random_avoiding_repeat.
Pool == IF Cardinality(Tagged) > 1 THEN Tagged \ {last} ELSE Tagged

\* pick_next_wallpaper, called with no lock held; `choice` records that there was one.
Pick ==
  /\ idle
  /\ pending = NoPick
  /\ \E i \in Pool :
       /\ last' = i
       /\ pending' = [id |-> i, choice |-> Cardinality(Tagged) > 1, current |-> TRUE]
  /\ UNCHANGED <<images, disk, files, upload, idle, wallpaper, missed, told, unsaved, bounds>>

\* The rest of maybe_rotate_wallpaper, under the operation lock.  A pick that was
\* superseded, or that mpv refuses to load (or whose path is no UTF-8), is spent and
\* changes nothing.
Rotate ==
  /\ pending # NoPick
  /\ pending' = NoPick
  /\ \/ pending.current /\ wallpaper' = pending.id /\ missed' = FALSE
     \/ pending.current /\ "loadfile" \in Faults /\ missed' = TRUE /\ UNCHANGED wallpaper
     \/ ~pending.current /\ UNCHANGED <<wallpaper, missed>>
  /\ UNCHANGED <<images, disk, files, upload, last, idle, told, unsaved, bounds>>

\* A cast takes the screen (hide) or the clock is shown, again too (show); both bring a
\* new generation and start without a wallpaper.
TurnScreen ==
  /\ idle' \in {TRUE, ~idle}
  /\ wallpaper' = NoImage
  /\ pending' = [pending EXCEPT !.current = FALSE]
  /\ UNCHANGED <<images, disk, files, upload, last, missed, told, unsaved, bounds>>

-----------------------------------------------------------------------------
\* The daemon dies and is started again; what was never saved is not owed any more.
Restart ==
  /\ crashes < MaxCrashes
  /\ crashes' = crashes + 1
  /\ \/ images' = disk
     \/ "unreadable" \in Faults /\ images' = NoImages
  /\ upload' = Waiting
  /\ last' = NoImage
  /\ idle' = TRUE
  /\ wallpaper' = NoImage
  /\ pending' = NoPick
  /\ missed' = FALSE
  /\ told' = IF unsaved \/ images' # disk
             THEN [i \in DOMAIN told \cap DOMAIN images' |-> images'[i]]
             ELSE told
  /\ unsaved' = (images' # disk)
  /\ UNCHANGED <<disk, files, tags>>

Next ==
  \/ \E request \in Requests : Accept(request)
  \/ ReadBody
  \/ Store
  \/ \E id \in Ids, tag \in BOOLEAN : SetWallpaper(id, tag)
  \/ Pick
  \/ Rotate
  \/ TurnScreen
  \/ Restart

Spec == Init /\ [][Next]_vars

\* The upload thread runs once it has the body. That the body arrives is the sender's
\* affair: nothing bounds the time it may take.
FairSpec == Spec /\ WF_vars(Store)

-----------------------------------------------------------------------------
\* Every image the store knows, in memory or in the manifest the next start reads,
\* has its whole file: neither a write cut short by a crash nor one that failed
\* leaves an entry that mpv cannot open.
EntriesHaveFiles ==
  \A i \in DOMAIN images \cup DOMAIN disk : files[i] = "whole"

\* What a sender was told stays true across restarts: the id of its upload is known
\* and has the tag last set, unless the manifest could not be saved or read.
ToldIsKept ==
  \A i \in DOMAIN told : i \in DOMAIN images /\ images[i] = told[i]

\* The rotation changes the picture, "never immediately repeating the previous pick
\* when more than one is tagged" (README): what is tagged, untagged or uploaded while
\* a wallpaper is up does not bring it up again, and no wallpaper is loaded over a cast.
\* Only a pick that mpv refused to load, which is spent all the same, lets the next one
\* be the picture that is still up.
RotationChanges ==
  [][Rotate =>
       /\ wallpaper' # NoImage => idle
       /\ pending.choice /\ pending.current => wallpaper' # wallpaper \/ missed \/ missed']_vars

\* With the body in, the thread gets back to the next request, whatever fails on the
\* way: every error of store is answered, and none ends the thread.
NextIsServed == upload.at \in {"writing", "written", "stored"} ~> upload = Waiting
=============================================================================
