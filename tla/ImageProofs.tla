----------------------------- MODULE ImageProofs -----------------------------
(***************************************************************************)
(* Theorems about ImageStore, for any number of images, tags and restarts. *)
(*                                                                         *)
(* EntriesHaveFiles needs to know what the upload thread has in hand: an   *)
(* entry is made only of a file that is whole (InHand), and a file is      *)
(* begun only under an id that no entry has (Fresh).  ToldIsKept needs     *)
(* that the manifest on disk is the one in memory unless a save failed     *)
(* (Saved), and that what is about to be answered has its entry (InHand).  *)
(* RotationChanges compares a pick with the picture that is up when it is  *)
(* loaded, not when it was made: PickInv follows both in between.          *)
(***************************************************************************)
EXTENDS ImageStore, TLAPS

InHand ==
  /\ upload.at \in {"written", "stored"} => files[upload.id] = "whole"
  /\ upload.at = "stored" => upload.id \in DOMAIN images

Fresh == upload.at \in {"writing", "written"} => upload.id \notin DOMAIN images

Saved == ~unsaved => disk = images

IInv == TypeOK /\ EntriesHaveFiles /\ ToldIsKept /\ InHand /\ Fresh /\ Saved

-----------------------------------------------------------------------------
\* Manifests

\* What it is to be a manifest, in terms a function is used by.
LEMMA ManifestIs ==
  ASSUME NEW m \in Manifests
  PROVE  /\ DOMAIN m \subseteq Ids
         /\ m = [i \in DOMAIN m |-> m[i]]
         /\ \A i \in DOMAIN m : m[i] \in BOOLEAN
  BY DEF Manifests

LEMMA IsManifest ==
  ASSUME NEW S \in SUBSET Ids, NEW f \in [S -> BOOLEAN]
  PROVE  f \in Manifests
  BY DEF Manifests

LEMMA NoImagesIs == NoImages \in Manifests /\ DOMAIN NoImages = {}
<1>1. NoImages \in [{} -> BOOLEAN]
  BY DEF NoImages
<1>2. NoImages \in Manifests
  BY <1>1, IsManifest
<1> QED  BY <1>1, <1>2

\* An entry added or changed, and the others as they were.
LEMMA WithEntry ==
  ASSUME NEW m \in Manifests, NEW id \in Ids, NEW tag \in BOOLEAN
  PROVE  /\ With(m, id, tag) \in Manifests
         /\ DOMAIN With(m, id, tag) = DOMAIN m \cup {id}
         /\ With(m, id, tag)[id] = tag
         /\ \A i \in DOMAIN m \ {id} : With(m, id, tag)[i] = m[i]
<1> DEFINE w == With(m, id, tag)
<1>1. /\ DOMAIN m \subseteq Ids
      /\ \A i \in DOMAIN m : m[i] \in BOOLEAN
  BY ManifestIs
<1>2. /\ DOMAIN w = DOMAIN m \cup {id}
      /\ w[id] = tag
      /\ \A i \in DOMAIN m \ {id} : w[i] = m[i]
  BY DEF With
<1>3. w \in [DOMAIN m \cup {id} -> BOOLEAN]
  BY <1>1 DEF With
<1>4. w \in Manifests
  BY <1>1, <1>3, IsManifest
<1> QED  BY <1>2, <1>4

-----------------------------------------------------------------------------
LEMMA InitIInv == Init => IInv
<1> SUFFICES ASSUME Init PROVE IInv
  OBVIOUS
<1>1. TypeOK
  <2>1. idle \in BOOLEAN /\ unsaved \in BOOLEAN /\ missed \in BOOLEAN
    BY DEF Init
  <2>2. /\ images \in Manifests /\ disk \in Manifests /\ told \in Manifests
        /\ files \in [Ids -> {"none", "partial", "whole"}]
    BY NoImagesIs DEF Init
  <2>3. /\ upload \in [at : UploadSteps, request : Requests \cup {"none"},
                       id : Ids \cup {NoImage}]
        /\ (upload.id = NoImage) <=> (upload.at \in {"waiting", "reading"})
    BY DEF Init, Waiting, UploadSteps
  <2>4. pending \in [id : Ids \cup {NoImage}, choice : BOOLEAN, current : BOOLEAN]
    BY DEF Init, NoPick
  <2>5. /\ {last, wallpaper} \subseteq Ids \cup {NoImage}
        /\ crashes \in 0..MaxCrashes /\ tags \in 0..MaxTags
    BY ImagesAssumption DEF Init
  <2> QED  BY <2>1, <2>2, <2>3, <2>4, <2>5 DEF TypeOK
<1>2. EntriesHaveFiles /\ ToldIsKept
  BY NoImagesIs DEF Init, EntriesHaveFiles, ToldIsKept
<1>3. InHand /\ Fresh /\ Saved
  BY DEF Init, InHand, Fresh, Saved, Waiting
<1> QED  BY <1>1, <1>2, <1>3 DEF IInv

\* The steps of the upload thread.
LEMMA UploadStep ==
  ASSUME IInv, (\E request \in Requests : Accept(request)) \/ ReadBody \/ Store
  PROVE  IInv'
<1> USE DEF IInv, rotation, bounds
<1>1. CASE \E request \in Requests : Accept(request)
  BY <1>1 DEF Accept, TypeOK, EntriesHaveFiles, ToldIsKept, InHand, Fresh, Saved,
     Waiting, UploadSteps, Requests, NoImage, Ids
<1>2. CASE ReadBody
  <2>1. CASE upload' = Waiting /\ UNCHANGED <<images, disk, files, rotation, told, unsaved, bounds>>
    BY <2>1 DEF TypeOK, EntriesHaveFiles, ToldIsKept, InHand, Fresh, Saved,
       Waiting, UploadSteps, NoImage, Ids
  <2>2. CASE upload.at = "reading" /\ \E id \in Unused : StartFile(id)
    <3>1. PICK id \in Unused : StartFile(id)
      BY <2>2
    <3>2. id \in Ids /\ files[id] = "none" /\ id # NoImage
      BY <3>1 DEF Unused, Ids, NoImage
    <3>3. id \notin DOMAIN images \cup DOMAIN disk
      BY <3>2 DEF EntriesHaveFiles
    <3>4. /\ upload' = [upload EXCEPT !.at = "writing", !.id = id]
          /\ files' = [files EXCEPT ![id] = "partial"]
          /\ UNCHANGED <<images, disk, last, idle, wallpaper, pending, missed, told, unsaved,
                         crashes, tags>>
      BY <3>1 DEF StartFile
    <3>5. TypeOK'
      BY <3>2, <3>4 DEF TypeOK, UploadSteps
    <3>6. EntriesHaveFiles'
      BY <3>2, <3>3, <3>4 DEF EntriesHaveFiles, TypeOK
    <3>7. ToldIsKept' /\ Saved'
      BY <3>4 DEF ToldIsKept, Saved
    <3>8. InHand' /\ Fresh'
      BY <3>3, <3>4 DEF InHand, Fresh, TypeOK
    <3> QED  BY <3>5, <3>6, <3>7, <3>8
  <2> QED  BY <1>2, <2>1, <2>2 DEF ReadBody
<1>3. CASE WriteFile
  <2>1. /\ upload.at = "writing" /\ upload.id \in Ids /\ upload.id # NoImage
        /\ UNCHANGED <<images, disk, last, idle, wallpaper, pending, missed, told, unsaved,
                       crashes, tags>>
    BY <1>3 DEF WriteFile, TypeOK, NoImage, Ids
  <2>2. CASE /\ upload' = [upload EXCEPT !.at = "written"]
             /\ files' = [files EXCEPT ![upload.id] = "whole"]
    <3>1. TypeOK'
      BY <2>1, <2>2 DEF TypeOK, UploadSteps
    <3>2. EntriesHaveFiles'
      BY <2>1, <2>2 DEF EntriesHaveFiles, TypeOK
    <3>3. ToldIsKept' /\ Saved'
      BY <2>1 DEF ToldIsKept, Saved
    <3>4. InHand' /\ Fresh'
      BY <2>1, <2>2 DEF InHand, Fresh, TypeOK
    <3> QED  BY <3>1, <3>2, <3>3, <3>4
  <2>3. CASE upload' = Waiting /\ UNCHANGED files
    BY <2>1, <2>3 DEF TypeOK, EntriesHaveFiles, ToldIsKept, InHand, Fresh, Saved,
       Waiting, UploadSteps, NoImage, Ids
  <2> QED  BY <1>3, <2>2, <2>3 DEF WriteFile
<1>4. CASE Register
  <2>1. /\ upload.at = "written"
        /\ upload.id \in Ids
        /\ images \in Manifests
        /\ upload' = [upload EXCEPT !.at = "stored"]
        /\ images' = With(images, upload.id, FALSE)
        /\ UNCHANGED <<files, last, idle, wallpaper, pending, missed, told, crashes, tags>>
    BY <1>4 DEF Register, TypeOK, NoImage
  <2>2. /\ images' \in Manifests
        /\ DOMAIN images' = DOMAIN images \cup {upload.id}
        /\ \A i \in DOMAIN images : images'[i] = images[i]
    <3> DEFINE id == upload.id
    <3>1. id \in Ids /\ FALSE \in BOOLEAN /\ id \notin DOMAIN images
      BY <2>1 DEF Fresh
    <3> HIDE DEF id
    <3>2. /\ With(images, id, FALSE) \in Manifests
          /\ DOMAIN With(images, id, FALSE) = DOMAIN images \cup {id}
          /\ \A i \in DOMAIN images \ {id} : With(images, id, FALSE)[i] = images[i]
      BY <2>1, <3>1, WithEntry
    <3> QED  BY <2>1, <3>1, <3>2 DEF id
  <2>3. (disk' = images' /\ unsaved' = FALSE) \/ (UNCHANGED disk /\ unsaved' = TRUE)
    BY <1>4 DEF Register, Save
  <2>4. TypeOK'
    BY <2>1, <2>2, <2>3 DEF TypeOK, UploadSteps
  <2>5. EntriesHaveFiles'
    BY <2>1, <2>2, <2>3 DEF EntriesHaveFiles, InHand
  <2>6. ToldIsKept'
    BY <2>1, <2>2 DEF ToldIsKept
  <2>7. InHand' /\ Fresh' /\ Saved'
    BY <2>1, <2>2, <2>3 DEF InHand, Fresh, Saved, TypeOK
  <2> QED  BY <2>4, <2>5, <2>6, <2>7
<1>5. CASE Answer
  <2>1. /\ upload.id \in Ids /\ upload.id \in DOMAIN images
        /\ upload' = Waiting
        /\ told' \in {told, With(told, upload.id, images[upload.id])}
        /\ UNCHANGED <<images, disk, files, last, idle, wallpaper, pending, missed, unsaved,
                       crashes, tags>>
    BY <1>5 DEF Answer, TypeOK, InHand, NoImage
  <2>2. /\ told \in Manifests /\ images \in Manifests
        /\ images[upload.id] \in BOOLEAN
    BY <2>1, ManifestIs DEF TypeOK
  <2>3. told' \in Manifests /\ ToldIsKept'
    <3>1. CASE told' = told
      BY <2>1, <2>2, <3>1 DEF ToldIsKept
    <3>2. CASE told' = With(told, upload.id, images[upload.id])
      <4>1. /\ told' \in Manifests
            /\ DOMAIN told' = DOMAIN told \cup {upload.id}
            /\ told'[upload.id] = images[upload.id]
            /\ \A i \in DOMAIN told \ {upload.id} : told'[i] = told[i]
        <5>1. PICK id \in Ids, tag \in BOOLEAN :
                id = upload.id /\ tag = images[upload.id]
          BY <2>1, <2>2
        <5>2. /\ With(told, id, tag) \in Manifests
              /\ DOMAIN With(told, id, tag) = DOMAIN told \cup {id}
              /\ With(told, id, tag)[id] = tag
              /\ \A i \in DOMAIN told \ {id} : With(told, id, tag)[i] = told[i]
          BY <2>2, WithEntry
        <5> QED  BY <3>2, <5>1, <5>2
      <4> QED  BY <2>1, <4>1 DEF ToldIsKept
    <3> QED  BY <2>1, <3>1, <3>2
  <2> QED
    BY <2>1, <2>3
    DEF TypeOK, EntriesHaveFiles, InHand, Fresh, Saved, Waiting, UploadSteps, NoImage, Ids
<1> QED  BY <1>1, <1>2, <1>3, <1>4, <1>5 DEF Store

\* Tags, from the senders' connections.
LEMMA TagStep ==
  ASSUME IInv, NEW id \in Ids, NEW tag \in BOOLEAN, SetWallpaper(id, tag)
  PROVE  IInv'
<1> USE DEF IInv, rotation
<1>1. /\ id \in DOMAIN images
      /\ images \in Manifests /\ told \in Manifests
      /\ tags' \in 0..MaxTags
      /\ images' = With(images, id, tag)
      /\ told' = IF id \in DOMAIN told THEN With(told, id, tag) ELSE told
      /\ UNCHANGED <<files, upload, last, idle, wallpaper, pending, missed, crashes>>
  BY ImagesAssumption DEF SetWallpaper, TypeOK
<1>2. /\ images' \in Manifests
      /\ DOMAIN images' = DOMAIN images
      /\ images'[id] = tag
      /\ \A i \in DOMAIN images \ {id} : images'[i] = images[i]
  BY <1>1, WithEntry, SMTT(30)
<1>3. (disk' = images' /\ unsaved' = FALSE) \/ (UNCHANGED disk /\ unsaved' = TRUE)
  BY DEF SetWallpaper, Save
<1>4. told' \in Manifests /\ ToldIsKept'
  <2>1. CASE id \in DOMAIN told
    <3>1. /\ told' \in Manifests
          /\ DOMAIN told' = DOMAIN told
          /\ told'[id] = tag
          /\ \A i \in DOMAIN told \ {id} : told'[i] = told[i]
      BY <1>1, <2>1, WithEntry
    <3> QED  BY <1>2, <3>1 DEF ToldIsKept
  <2>2. CASE id \notin DOMAIN told
    BY <1>1, <1>2, <2>2 DEF ToldIsKept
  <2> QED  BY <2>1, <2>2
<1>5. TypeOK'
  BY <1>1, <1>2, <1>3, <1>4 DEF TypeOK
<1>6. EntriesHaveFiles' /\ InHand' /\ Fresh' /\ Saved'
  BY <1>1, <1>2, <1>3 DEF EntriesHaveFiles, InHand, Fresh, Saved
<1> QED  BY <1>4, <1>5, <1>6

\* Picks and the screen, which leave the store alone.
LEMMA RotationStep ==
  ASSUME IInv, Pick \/ Rotate \/ TurnScreen
  PROVE  IInv'
<1>1. /\ UNCHANGED <<images, disk, files, upload, told, unsaved, crashes, tags>>
      /\ TypeOK
  BY DEF Pick, Rotate, TurnScreen, IInv, bounds
<1>2. /\ {last, wallpaper}' \subseteq Ids \cup {NoImage}
      /\ idle' \in BOOLEAN /\ missed' \in BOOLEAN
      /\ pending' \in [id : Ids \cup {NoImage}, choice : BOOLEAN, current : BOOLEAN]
  <2>1. CASE Pick
    <3>1. Pool \subseteq Ids
      BY ManifestIs, <1>1 DEF Pool, Tagged, TypeOK
    <3> QED  BY <1>1, <2>1, <3>1 DEF Pick, TypeOK
  <2>2. CASE Rotate
    <3>1. /\ last' = last /\ idle' = idle /\ pending' = NoPick
          /\ wallpaper' \in {wallpaper, pending.id} /\ missed' \in {missed, TRUE, FALSE}
      BY <2>2 DEF Rotate
    <3>2. pending.id \in Ids \cup {NoImage} /\ missed \in BOOLEAN
      BY <1>1 DEF TypeOK
    <3>3. {last, wallpaper}' \subseteq Ids \cup {NoImage}
      BY <1>1, <3>1, <3>2 DEF TypeOK
    <3>4. idle' \in BOOLEAN /\ missed' \in BOOLEAN
      BY <1>1, <3>1, <3>2 DEF TypeOK
    <3> QED  BY <3>1, <3>3, <3>4 DEF NoPick
  <2>3. CASE TurnScreen
    BY <1>1, <2>3 DEF TurnScreen, TypeOK
  <2> QED  BY <2>1, <2>2, <2>3
<1>3. TypeOK'
  BY <1>1, <1>2 DEF TypeOK
<1> QED
  BY <1>1, <1>3 DEF IInv, EntriesHaveFiles, ToldIsKept, InHand, Fresh, Saved

\* A crash and the next start.
LEMMA RestartStep ==
  ASSUME IInv, Restart
  PROVE  IInv'
<1> USE DEF IInv
<1>1. /\ images' = disk \/ images' = NoImages
      /\ crashes' \in 0..MaxCrashes
      /\ upload' = Waiting /\ last' = NoImage /\ idle' = TRUE
      /\ wallpaper' = NoImage /\ pending' = NoPick /\ missed' = FALSE
      /\ unsaved' = (images' # disk)
      /\ UNCHANGED <<disk, files, tags>>
  BY ImagesAssumption DEF Restart, TypeOK
<1>2. /\ images' \in Manifests
      /\ DOMAIN images' \subseteq DOMAIN disk
  BY <1>1, NoImagesIs DEF TypeOK
<1>3. told' \in Manifests /\ ToldIsKept'
  <2>1. CASE unsaved \/ images' # disk
    <3> DEFINE kept == DOMAIN told \cap DOMAIN images'
    <3>1. told' = [i \in kept |-> images'[i]]
      BY <2>1 DEF Restart
    <3>2. kept \in SUBSET Ids /\ \A i \in kept : images'[i] \in BOOLEAN
      BY <1>2, ManifestIs
    <3>3. told' \in [kept -> BOOLEAN]
      BY <3>1, <3>2
    <3> QED  BY <3>1, <3>2, <3>3, IsManifest DEF ToldIsKept
  <2>2. CASE ~unsaved /\ images' = disk
    <3>1. told' = told /\ images' = images
      BY <2>2 DEF Restart, Saved
    <3> QED  BY <3>1 DEF ToldIsKept, TypeOK
  <2> QED  BY <1>1, <2>1, <2>2
<1>4. TypeOK'
  BY <1>1, <1>2, <1>3 DEF TypeOK, Waiting, UploadSteps, NoImage, NoPick, Ids
<1>5. EntriesHaveFiles' /\ InHand' /\ Fresh' /\ Saved'
  BY <1>1, <1>2 DEF EntriesHaveFiles, InHand, Fresh, Saved, Waiting
<1> QED  BY <1>3, <1>4, <1>5

LEMMA StutterStep ==
  ASSUME IInv, UNCHANGED vars
  PROVE  IInv'
BY DEF IInv, TypeOK, EntriesHaveFiles, ToldIsKept, InHand, Fresh, Saved, vars, rotation

LEMMA Invariance == Spec => []IInv
<1>1. IInv /\ [Next]_vars => IInv'
  BY UploadStep, TagStep, RotationStep, RestartStep, StutterStep DEF Next
<1> QED  BY InitIInv, <1>1, PTL DEF Spec

-----------------------------------------------------------------------------
\* Every reachable state of the store is well typed.
THEOREM TypeCorrect == Spec => []TypeOK
  BY Invariance, PTL DEF IInv

\* No entry is without its whole file, in memory or on disk, whatever writes failed
\* and wherever the daemon died (ImageStore::store writes the file first).
THEOREM FilesAreWhole == Spec => []EntriesHaveFiles
  BY Invariance, PTL DEF IInv

\* What senders were told of their images survives restarts (Manifest::save under the
\* store's lock, after each change).
THEOREM ToldHolds == Spec => []ToldIsKept
  BY Invariance, PTL DEF IInv

-----------------------------------------------------------------------------
\* The rotation

\* A wallpaper is behind a clock, and is the last pick but for one under way, or one mpv
\* refused.  A pick under way is the last one; as long as its clock is the current screen it
\* is not what is up, if there was a choice and none was refused before it, and once it is
\* not, nothing is up before the pick is spent.
PickInv ==
  /\ wallpaper # NoImage \/ pending.current => idle
  /\ pending = NoPick => wallpaper \in {NoImage, last} \/ missed
  /\ pending # NoPick =>
       /\ pending.id = last
       /\ IF pending.current THEN pending.choice => wallpaper # pending.id \/ missed
                             ELSE wallpaper = NoImage

LEMMA PickStep ==
  ASSUME IInv, PickInv, [Next]_vars
  PROVE  PickInv'
<1>0. /\ pending = [id |-> pending.id, choice |-> pending.choice, current |-> pending.current]
      /\ pending.choice \in BOOLEAN /\ pending.current \in BOOLEAN /\ idle \in BOOLEAN
  BY DEF IInv, TypeOK
<1>1. CASE UNCHANGED rotation
  BY <1>1 DEF PickInv, rotation
<1>2. CASE Pick
  <2>1. PICK i \in Pool :
          /\ last' = i
          /\ pending' = [id |-> i, choice |-> Cardinality(Tagged) > 1, current |-> TRUE]
    BY <1>2 DEF Pick
  <2>2. i \in Ids /\ i # NoImage /\ (Cardinality(Tagged) > 1 => i # last)
    <3>1. Tagged \subseteq Ids
      BY ManifestIs DEF Tagged, IInv, TypeOK
    <3> QED
      BY <3>1 DEF Pool, Ids, NoImage
  <2>3. idle /\ pending = NoPick /\ UNCHANGED <<idle, wallpaper, missed>>
    BY <1>2 DEF Pick
  <2>4. /\ pending' # NoPick /\ pending'.id = i /\ pending'.current
        /\ pending'.choice => i # last
    BY <2>1, <2>2 DEF NoPick
  <2> QED
    BY <2>1, <2>2, <2>3, <2>4 DEF PickInv
<1>3. CASE Rotate
  BY <1>0, <1>3 DEF Rotate, PickInv, NoPick
<1>4. CASE TurnScreen
  <2>1. wallpaper' = NoImage /\ last' = last /\ missed' = missed
    BY <1>4 DEF TurnScreen
  <2>2. pending' = [pending EXCEPT !.current = FALSE]
    BY <1>4 DEF TurnScreen
  <2>3. pending' = [id |-> pending.id, choice |-> pending.choice, current |-> FALSE]
    BY <1>0, <2>2
  <2>4. pending'.current = FALSE /\ pending'.id = pending.id
    BY <2>3
  <2>5. pending = NoPick => pending' = NoPick
    BY <2>3 DEF NoPick
  <2> QED
    BY <2>1, <2>4, <2>5 DEF PickInv
<1>5. CASE Restart
  BY <1>5 DEF Restart, PickInv, NoPick
<1> QED
  BY <1>1, <1>2, <1>3, <1>4, <1>5
     DEF Next, Accept, ReadBody, StartFile, Store, WriteFile, Register, Answer, SetWallpaper,
         rotation, vars

\* The rotation never brings up the picture it replaces when there is another, whatever is
\* tagged, untagged, uploaded or shown between the pick and the load, unless mpv refused
\* the pick before; and it loads nothing over a cast (pick_random_avoiding_repeat,
\* maybe_rotate_wallpaper).
THEOREM PicksChange == Spec => RotationChanges
<1>1. Init => PickInv
  BY DEF Init, PickInv, NoPick
<1>2. ASSUME IInv, PickInv, Rotate
      PROVE  /\ wallpaper' # NoImage => idle
             /\ pending.choice /\ pending.current
                  => wallpaper' # wallpaper \/ missed \/ missed'
  BY <1>2 DEF Rotate, PickInv
<1>3. IInv /\ PickInv =>
        [Rotate => /\ wallpaper' # NoImage => idle
                   /\ pending.choice /\ pending.current
                        => wallpaper' # wallpaper \/ missed \/ missed']_vars
  BY <1>2
<1> QED
  BY <1>1, <1>3, PickStep, Invariance, PTL DEF Spec, RotationChanges
=============================================================================
