------------------------------ MODULE Sponsor ------------------------------
(***************************************************************************)
(* The sponsor slot (sponsor.go): a goroutine that fetches a manifest and  *)
(* its images about every hour, a copy on disk, and the copy in memory     *)
(* that is served.                                                         *)
(*                                                                         *)
(* A slide stands for its link and text, and a picture for the slide it    *)
(* was published with.  A file is written under another name and renamed,  *)
(* so writing it is one step; a save is many.                              *)
(***************************************************************************)
EXTENDS Naturals, Sequences, FiniteSets

CONSTANTS
  Slides,      \* what may be published
  MaxSlides,   \* sponsorMaxSlides, 4 in the code
  Modes,       \* the kinds of behaviors there are: "calm", "rough"
  None

Slots == 1..MaxSlides

ASSUME SponsorAssumption ==
  /\ MaxSlides \in Nat \ {0}
  /\ None \notin Slides \cup UNION {[1..k -> Slides] : k \in Slots}
  /\ Modes \subseteq {"calm", "rough"}

VARIABLES
  slides, imgs,   \* the copy in memory
  manifest,       \* manifest.json: its slides, or None
  files,          \* the pictures img-1, img-2, ..., None where there is no file
  at,             \* refresh: idle, fetch, save, trim, commit, swap
  list,           \* the slides refresh has still to fetch
  keep,           \* those it has, with their pictures
  n,              \* the file save is at
  mode            \* of this behavior: does a save always end?

disk == <<manifest, files>>
memory == <<slides, imgs>>
job == <<at, list, keep, n>>
vars == <<memory, disk, job, mode>>

Kept == [slide : Slides, pic : Slides]

Lists == UNION {[1..k -> Slides \cup {None}] : k \in 0..MaxSlides + 1}

Column(s, f) == [i \in DOMAIN s |-> s[i][f]]

\* The elements of s at the places S, in their order.
Place(S, k) == CHOOSE i \in S : Cardinality({j \in S : j < i}) = k - 1

Picked(s, S) == [k \in 1..Cardinality(S) |-> s[Place(S, k)]]

Init ==
  /\ slides = <<>> /\ imgs = <<>>
  /\ manifest = None /\ files = [i \in Slots |-> None]
  /\ at = "idle" /\ list = <<>> /\ keep = <<>> /\ n = 1
  /\ mode \in Modes

(***************************************************************************)
(* An entry without a valid image URL (None) is dropped; the first         *)
(* MaxSlides others are taken, and there must be one.                      *)
(***************************************************************************)
Valid(entries) == Picked(entries, {i \in DOMAIN entries : entries[i] # None})

FirstOnes(s) == SubSeq(s, 1, IF Len(s) < MaxSlides THEN Len(s) ELSE MaxSlides)

parseSponsorManifest(entries) == FirstOnes(Valid(entries))

Rest == at' = "idle" /\ list' = <<>> /\ keep' = <<>> /\ n' = 1

\* A manifest that does not come, or has no valid slide, is no step.
FetchManifest ==
  /\ at = "idle"
  /\ \E entries \in Lists :
       /\ parseSponsorManifest(entries) # <<>>
       /\ list' = parseSponsorManifest(entries)
  /\ at' = "fetch"
  /\ UNCHANGED <<memory, disk, keep, n, mode>>

\* Mutant: a slide whose image fails keeps its place.
FetchImageShifts ==
  /\ at = "fetch" /\ list # <<>>
  /\ keep' \in {Append(keep, [slide |-> Head(list), pic |-> Head(list)]),
                IF keep = <<>> THEN keep ELSE [keep EXCEPT ![Len(keep)].slide = Head(list)]}
  /\ list' = Tail(list)
  /\ UNCHANGED <<memory, disk, at, n, mode>>

\* An image that does not come, or is no image, drops its slide.
FetchImage ==
  /\ at = "fetch" /\ list # <<>>
  /\ keep' \in {Append(keep, [slide |-> Head(list), pic |-> Head(list)]), keep}
  /\ list' = Tail(list)
  /\ UNCHANGED <<memory, disk, at, n, mode>>

\* Mutant: no image at all is no error.
FetchDoneEmpty ==
  /\ at = "fetch" /\ list = <<>>
  /\ at' = "save"
  /\ UNCHANGED <<memory, disk, list, keep, n, mode>>

FetchDone ==
  /\ at = "fetch" /\ list = <<>>
  /\ IF keep = <<>> THEN Rest ELSE at' = "save" /\ UNCHANGED <<list, keep, n>>
  /\ UNCHANGED <<memory, disk, mode>>

(***************************************************************************)
(* save: the images in turn, the files no longer needed removed in turn (a *)
(* removal may fail unnoticed), the manifest.  A write that fails ends the *)
(* refresh; what was written before it stays.                              *)
(***************************************************************************)
WriteImage ==
  /\ at = "save" /\ n <= Len(keep)
  /\ files' = [files EXCEPT ![n] = keep[n].pic]
  /\ n' = n + 1
  /\ UNCHANGED <<memory, manifest, at, list, keep, mode>>

RemoveImage ==
  /\ at = "save" /\ n \in Slots /\ n > Len(keep)
  /\ files' \in {files, [files EXCEPT ![n] = None]}
  /\ n' = n + 1
  /\ UNCHANGED <<memory, manifest, at, list, keep, mode>>

WriteManifest ==
  /\ at = "save" /\ n > MaxSlides
  /\ manifest' = Column(keep, "slide")
  /\ at' = "swap"
  /\ UNCHANGED <<memory, files, list, keep, n, mode>>

SaveFails ==
  /\ mode = "rough"
  /\ at = "save" /\ (n <= Len(keep) \/ n > MaxSlides)
  /\ Rest
  /\ UNCHANGED <<memory, disk, mode>>

Swap ==
  /\ at = "swap"
  /\ slides' = Column(keep, "slide") /\ imgs' = Column(keep, "pic")
  /\ Rest
  /\ UNCHANGED <<disk, mode>>

(***************************************************************************)
(* The process ends - nothing waits for a refresh - and the next one loads *)
(* what is on disk, slide by slide; one without a picture is left out.     *)
(***************************************************************************)
Loadable == IF manifest = None THEN {} ELSE {i \in DOMAIN manifest : files[i] # None}

Loaded(f) == Picked(f, Loadable)

Restart ==
  /\ mode = "rough" \/ at # "save"
  /\ slides' = Loaded(manifest) /\ imgs' = Loaded(files)
  /\ Rest
  /\ UNCHANGED <<disk, mode>>

Save == WriteImage \/ RemoveImage \/ WriteManifest \/ SaveFails

Next ==
  \/ FetchManifest \/ FetchImage \/ FetchDone \/ Save \/ Swap \/ Restart

Spec == Init /\ [][Next]_vars

-----------------------------------------------------------------------------

(***************************************************************************)
(* Once the slot has slides, neither a refresh that fails at any step nor  *)
(* a restart at any step empties it (sponsor.go 7-8: "keeps the last good  *)
(* copy [...] so it survives restarts").  The first picture is never       *)
(* removed.                                                                *)
(***************************************************************************)
NeverEmptied == [][slides # <<>> => slides' # <<>>]_vars

(***************************************************************************)
(* Each slide is served with the picture it was published with, over       *)
(* refreshes and restarts, where no save is cut short; and whatever was    *)
(* cut short before, a save that ends leaves a manifest and pictures that  *)
(* belong together.  A save that is cut short does not: an old manifest is *)
(* then left with new pictures, and the next start serves a slide's link   *)
(* under another one's picture.                                            *)
(***************************************************************************)
OwnPicture ==
  /\ mode = "calm" => slides = imgs
  /\ at = "swap" => \A i \in DOMAIN manifest : files[i] = manifest[i]

=============================================================================
