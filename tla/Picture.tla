------------------------------ MODULE Picture ------------------------------
(***************************************************************************)
(* The member's profile picture: stored with the time of its upload, which *)
(* is the version in the address a page loads it from.  The time is taken  *)
(* before the picture is stored, so pictures need not be stored in the     *)
(* order of their versions; a page loads what is stored when it asks,      *)
(* whatever version the address names.                                     *)
(***************************************************************************)
EXTENDS Integers, FiniteSets

CONSTANTS
  Editors,  \* open profile pages of the member
  Images,   \* files that are PNG, JPEG or WebP and small enough
  Unfit,   \* files that are not
  MaxClock  \* bound: milliseconds

ASSUME PictureAssumption == MaxClock \in Nat \ {0} /\ Images \cap Unfit = {}

VARIABLES
  stored,  \* UserAvatar.data with User.avatarUpdatedAt
  editor,  \* each tab's ProfileEditor: what is under way, on which file, with which stamp
  image,   \* each tab's AvatarImage: the version rendered, and what was loaded for it
  clock,
  stamps,  \* history: every stamp taken
  clash    \* history: two uploads took the same stamp

pvars == <<stored, editor, image, clock, stamps, clash>>

NoImage == "none"
NoPicture == [version |-> 0, data |-> NoImage]
Still == [step |-> "idle", file |-> NoImage, stamp |-> 0]
Loading == "loading"

PictureType ==
  /\ stored \in [version : 0..MaxClock, data : Images \cup {NoImage}]
  /\ editor \in [Editors -> [step : {"idle", "posted", "stamped", "removing", "refresh"},
                          file : Images \cup Unfit \cup {NoImage}, stamp : 0..MaxClock]]
  /\ image \in [Editors -> [version : 0..MaxClock, data : Images \cup {NoImage, Loading}]]
  /\ clock \in 1..MaxClock /\ stamps \subseteq 1..MaxClock /\ clash \in BOOLEAN

PictureInit ==
  /\ stored = NoPicture /\ editor = [t \in Editors |-> Still] /\ image = [t \in Editors |-> NoPicture]
  /\ clock = 1 /\ stamps = {} /\ clash = FALSE

Step(t, step) == editor' = [editor EXCEPT ![t] = [Still EXCEPT !.step = step]]

\* onPickFile; the buttons are off while an upload or a removal is under way.
PickFile(t) ==
  /\ editor[t].step = "idle"
  /\ \E file \in Images \cup Unfit :
       editor' = [editor EXCEPT ![t] = [Still EXCEPT !.step = "posted", !.file = file]]
  /\ UNCHANGED <<stored, image, clock, stamps, clash>>

\* removePicture: the button is there when the page shows a picture.
RemovePicture(t) ==
  /\ editor[t].step = "idle" /\ image[t].version # 0
  /\ Step(t, "removing")
  /\ UNCHANGED <<stored, image, clock, stamps, clash>>

\* setAvatar looks at the size and the first bytes, whatever type the file claims to have.
SniffImageType(file) == file \in Images

SetAvatar(t) ==
  /\ editor[t].step = "posted" /\ SniffImageType(editor[t].file)
  /\ editor' = [editor EXCEPT ![t] = [@ EXCEPT !.step = "stamped", !.stamp = clock]]
  /\ stamps' = stamps \cup {clock} /\ clash' = (clash \/ clock \in stamps)
  /\ UNCHANGED <<stored, image, clock>>

RefuseFile(t) ==
  /\ editor[t].step = "posted" /\ ~SniffImageType(editor[t].file)
  /\ Step(t, "idle")
  /\ UNCHANGED <<stored, image, clock, stamps, clash>>

\* The transaction: the bytes and the version together.
StoreAvatar(t) ==
  /\ editor[t].step = "stamped"
  /\ stored' = [version |-> editor[t].stamp, data |-> editor[t].file]
  /\ Step(t, "refresh")
  /\ UNCHANGED <<image, clock, stamps, clash>>

RemoveAvatar(t) ==
  /\ editor[t].step = "removing"
  /\ stored' = NoPicture /\ Step(t, "refresh")
  /\ UNCHANGED <<image, clock, stamps, clash>>

\* The answer is lost or the request failed: a message, and no refresh.
RequestFailed(t) ==
  /\ editor[t].step # "idle" /\ Step(t, "idle")
  /\ UNCHANGED <<stored, image, clock, stamps, clash>>

\* getProfile, on a visit or router.refresh: only another version is another address, and
\* loaded anew.
GetProfile(t) ==
  /\ editor[t].step \in {"idle", "refresh"} /\ Step(t, "idle")
  /\ image' = [image EXCEPT ![t] =
       IF stored.version = 0 THEN NoPicture
       ELSE IF stored.version = @.version THEN @
       ELSE [version |-> stored.version, data |-> Loading]]
  /\ UNCHANGED <<stored, clock, stamps, clash>>

\* readAvatar: the bytes there are, or NOT_FOUND.
ReadAvatar(t) ==
  /\ image[t].data = Loading
  /\ image' = [image EXCEPT ![t].data = stored.data]
  /\ UNCHANGED <<stored, editor, clock, stamps, clash>>

Tick == clock < MaxClock /\ clock' = clock + 1 /\ UNCHANGED <<stored, editor, image, stamps, clash>>

PictureNext ==
  \/ Tick
  \/ \E t \in Editors :
       \/ PickFile(t) \/ RemovePicture(t) \/ SetAvatar(t) \/ RefuseFile(t) \/ StoreAvatar(t)
       \/ RemoveAvatar(t) \/ RequestFailed(t) \/ GetProfile(t) \/ ReadAvatar(t)

-----------------------------------------------------------------------------
(* Property.                                                               *)

\* "A new upload is fetched immediately" (AvatarImage): a page that rendered the version
\* stored and loaded its picture shows the one stored, in whatever order uploads of several
\* tabs were stamped and stored; only two stamps of one millisecond can mislead it.
PictureIsStored ==
  ~clash => \A t \in Editors :
    image[t].version = stored.version /\ image[t].data # Loading => image[t].data = stored.data
=============================================================================
