--------------------------- MODULE SponsorProofs ---------------------------
(***************************************************************************)
(* What TLAPS proves of Sponsor, for any number of slides and any manifest *)
(* that is published, with or without saves that are cut short.            *)
(***************************************************************************)
EXTENDS Sponsor, FiniteSetTheorems, SequenceTheorems, TLAPS

-----------------------------------------------------------------------------
(* The loops over a manifest's entries and over the files.                 *)

\* The naturals are well founded.
LEMMA PlacesWellFounded == IsWellFoundedOn({p \in Nat \X Nat : p[1] < p[2]}, Nat)
  BY NatLessThanWellFounded DEF OpToRel

\* A set of naturals has a least element.
LEMMA LeastPlace ==
  ASSUME NEW T, T \subseteq Nat, T # {}
  PROVE  \E x \in T : \A y \in T : x <= y
  <1>1. PICK x \in T : \A y \in T : ~ (<<y, x>> \in {p \in Nat \X Nat : p[1] < p[2]})
    BY PlacesWellFounded, WFMin
  <1>2. \A y \in T : ~(y < x)
    BY <1>1
  <1> QED BY <1>2

\* A set of m places has at most m members.
LEMMA SubsetOfPlaces ==
  ASSUME NEW m \in Nat, NEW S, S \subseteq 1..m
  PROVE  IsFiniteSet(S) /\ Cardinality(S) \in Nat /\ Cardinality(S) \in 0..m
  <1>1. IsFiniteSet(1..m) /\ Cardinality(1..m) = m
    <2>1. 1 \in Int /\ m \in Int
      OBVIOUS
    <2>2. Cardinality(1..m) = IF 1 > m THEN 0 ELSE m - 1 + 1
      BY <2>1, FS_Interval
    <2> QED BY <2>1, <2>2, FS_Interval
  <1>2. IsFiniteSet(S) /\ Cardinality(S) <= Cardinality(1..m)
    BY <1>1, FS_Subset, Zenon
  <1>3. Cardinality(S) \in Nat
    BY <1>2, FS_CardinalityType
  <1> QED BY <1>1, <1>2, <1>3

\* The places of a set of m naturals run from the first to the m-th.
LEMMA PlaceIs ==
  ASSUME NEW m \in Nat, NEW S, S \subseteq 1..m, NEW k \in 1..Cardinality(S)
  PROVE  Place(S, k) \in S
  <1> DEFINE B(i) == {j \in S : j < i}
             T == {i \in 1..m+1 : Cardinality(B(i)) >= k}
  <1>0. \A j \in S : j \in Nat /\ 1 <= j /\ j <= m
    OBVIOUS
  <1>1. IsFiniteSet(S) /\ Cardinality(S) \in Nat
    BY SubsetOfPlaces
  <1>2. \A i : IsFiniteSet(B(i)) /\ Cardinality(B(i)) \in Nat
    <2> TAKE i
    <2>1. B(i) \in SUBSET S
      OBVIOUS
    <2> QED BY <1>1, <2>1, FS_Subset, FS_CardinalityType
  <1>3. m+1 \in T
    <2>1. B(m+1) = S
      <3>1. \A j \in S : j < m + 1
        BY <1>0
      <3> QED BY <3>1
    <2> QED BY <2>1, <1>1
  <1>4. PICK i \in T : \A j \in T : i <= j
    <2>1. T \subseteq Nat /\ T # {}
      BY <1>3
    <2> HIDE DEF T
    <2> QED BY <2>1, LeastPlace
  <1>5. i \in 1..m+1 /\ Cardinality(B(i)) >= k
    BY <1>4
  <1>6. i # 1
    <2>1. SUFFICES ASSUME i = 1 PROVE FALSE
      OBVIOUS
    <2>2. B(i) = {}
      <3>1. \A j \in S : ~(j < 1)
        BY <1>0
      <3> QED BY <2>1, <3>1
    <2> QED BY <2>2, <1>5, FS_EmptySet
  <1>7. i - 1 \in 1..m /\ i - 1 \notin T
    BY <1>4, <1>5, <1>6
  <1>8. Cardinality(B(i-1)) < k
    BY <1>7, <1>2
  <1>9. \A j \in S : j < i <=> j < i - 1 \/ j = i - 1
    <2>1. i \in Nat
      BY <1>5
    <2>2. \A a, b \in Nat : a < b <=> a < b - 1 \/ a = b - 1
      OBVIOUS
    <2> QED BY <1>0, <2>1, <2>2
  <1>10. i-1 \in S
    <2>1. SUFFICES ASSUME i-1 \notin S PROVE FALSE
      OBVIOUS
    <2>2. B(i) = B(i-1)
      BY <2>1, <1>9
    <2> HIDE DEF B
    <2> QED BY <2>2, <1>8, <1>5, <1>2
  <1>11. B(i) = B(i-1) \cup {i-1} /\ i-1 \notin B(i-1)
    <2>1. B(i) = B(i-1) \cup {i-1}
      BY <1>10, <1>9
    <2>2. i - 1 \in Nat /\ ~(i - 1 < i - 1)
      BY <1>7
    <2> QED BY <2>1, <2>2
  <1>12. Cardinality(B(i)) = Cardinality(B(i-1)) + 1
    <2> HIDE DEF B
    <2> QED BY <1>11, <1>2, FS_AddElement
  <1>13. Cardinality(B(i-1)) = k - 1
    <2> HIDE DEF B
    <2> QED BY <1>12, <1>8, <1>5, <1>2
  <1> QED BY <1>10, <1>13 DEF Place

\* What is picked is a sequence, as long as there are places.
LEMMA PickedIs ==
  ASSUME NEW m \in Nat, NEW S, S \subseteq 1..m, NEW E, NEW s, \A i \in S : s[i] \in E
  PROVE  /\ Picked(s, S) \in Seq(E)
         /\ Len(Picked(s, S)) = Cardinality(S)
         /\ Cardinality(S) \in 0..m
         /\ S # {} => Picked(s, S) # <<>>
  <1>1. IsFiniteSet(S) /\ Cardinality(S) \in 0..m
    BY SubsetOfPlaces
  <1>2. \A k \in 1..Cardinality(S) : s[Place(S, k)] \in E
    BY PlaceIs
  <1>3. Picked(s, S) \in [1..Cardinality(S) -> E]
    BY <1>2 DEF Picked
  <1>4. Picked(s, S) \in Seq(E) /\ Len(Picked(s, S)) = Cardinality(S)
    BY <1>1, <1>3
  <1>5. S # {} => Cardinality(S) # 0
    BY <1>1, FS_EmptySet
  <1> QED BY <1>1, <1>4, <1>5

\* At most MaxSlides slides are taken from a manifest, all of them valid.
LEMMA ParsedIs ==
  ASSUME NEW entries \in Lists
  PROVE  parseSponsorManifest(entries) \in Seq(Slides) /\ Len(parseSponsorManifest(entries)) <= MaxSlides
  <1> DEFINE S == {i \in DOMAIN entries : entries[i] # None}
  <1>1. PICK k \in 0..MaxSlides + 1 : entries \in [1..k -> Slides \cup {None}]
    BY DEF Lists
  <1>2. k \in Nat /\ S \subseteq 1..k /\ \A i \in S : entries[i] \in Slides
    BY <1>1, SponsorAssumption
  <1>3. Valid(entries) \in Seq(Slides)
    <2> HIDE DEF S
    <2>1. Picked(entries, S) \in Seq(Slides)
      BY <1>2, PickedIs
    <2> QED BY <2>1 DEF Valid, S
  <1> DEFINE v == Valid(entries)
             c == IF Len(v) < MaxSlides THEN Len(v) ELSE MaxSlides
  <1>4. c \in Nat /\ c <= Len(v) /\ c <= MaxSlides /\ Len(v) \in Nat
    BY <1>3, SponsorAssumption
  <1>5. \A i \in 1..c : v[i] \in Slides
    BY <1>3, <1>4
  <1>6. SubSeq(v, 1, c) \in Seq(Slides) /\ Len(SubSeq(v, 1, c)) = IF 1 <= c THEN c ELSE 0
    <2> HIDE DEF v, c
    <2> QED BY <1>4, <1>5, SubSeqProperties
  <1> QED BY <1>6, <1>4 DEF parseSponsorManifest, FirstOnes

-----------------------------------------------------------------------------
(* The invariant.                                                          *)

States == {"idle", "fetch", "save", "swap"}

Typed ==
  /\ slides \in Seq(Slides) /\ imgs \in Seq(Slides)
  /\ manifest # None => manifest \in Seq(Slides) /\ Len(manifest) \in Slots
  /\ files \in [Slots -> Slides \cup {None}]
  /\ at \in States
  /\ list \in Seq(Slides) /\ keep \in Seq(Kept) /\ Len(list) + Len(keep) <= MaxSlides
  /\ n \in 1..MaxSlides + 1
  /\ mode \in Modes

\* What a refresh has at each of its stages; a slide that is kept is kept
\* with its own picture.
Stages ==
  /\ at = "idle" => keep = <<>>
  /\ at \in {"idle", "fetch"} => n = 1
  /\ at \in {"save", "swap"} => keep # <<>>
  /\ \A i \in DOMAIN keep : keep[i].slide = keep[i].pic

\* What save has written so far is what it was given.
Saved ==
  /\ at = "save" => \A i \in DOMAIN keep : i < n => files[i] = keep[i].pic
  /\ at = "swap" => /\ manifest = Column(keep, "slide")
                    /\ \A i \in DOMAIN keep : files[i] = keep[i].pic

\* A manifest has a first picture, and slides in memory have a manifest on
\* disk: the next start finds at least one slide again.
FirstStays ==
  /\ manifest # None => files[1] # None
  /\ slides # <<>> => manifest # None

\* Where no save is cut short, each slide of the manifest has its own picture
\* on disk whenever no save is under way, and in memory always.
Calm ==
  mode = "calm" =>
    /\ slides = imgs
    /\ manifest # None /\ at # "save" => \A i \in DOMAIN manifest : files[i] = manifest[i]

IInv == Typed /\ Stages /\ Saved /\ FirstStays /\ Calm

-----------------------------------------------------------------------------

\* What is kept gives as many slides as pictures, at least one and at most
\* MaxSlides.
LEMMA ColumnIs ==
  ASSUME NEW s \in Seq(Kept), NEW f \in {"slide", "pic"}
  PROVE  /\ Column(s, f) \in Seq(Slides) /\ Len(Column(s, f)) = Len(s)
         /\ DOMAIN Column(s, f) = 1..Len(s)
         /\ s # <<>> => Column(s, f) # <<>>
         /\ s # <<>> /\ Len(s) <= MaxSlides => Column(s, f) # None
  <1>1. Len(s) \in Nat /\ DOMAIN s = 1..Len(s) /\ \A i \in 1..Len(s) : s[i] \in Kept
    OBVIOUS
  <1>2. \A i \in 1..Len(s) : s[i][f] \in Slides
    <2>1. \A x \in Kept : x.slide \in Slides /\ x.pic \in Slides
      BY DEF Kept
    <2> QED BY <1>1, <2>1
  <1>3. Column(s, f) \in [1..Len(s) -> Slides]
    BY <1>1, <1>2 DEF Column
  <1>4. Column(s, f) \in Seq(Slides) /\ Len(Column(s, f)) = Len(s)
    BY <1>1, <1>3
  <1>5. ASSUME s # <<>> PROVE Len(s) # 0 /\ Column(s, f) # <<>>
    BY <1>1, <1>4, <1>5
  <1>6. ASSUME s # <<>>, Len(s) <= MaxSlides PROVE Column(s, f) # None
    <2>1. Len(s) \in Slots
      BY <1>1, <1>5, <1>6, SponsorAssumption DEF Slots
    <2> QED BY <2>1, <1>3, SponsorAssumption
  <1> QED BY <1>3, <1>4, <1>5, <1>6

\* An empty slot meets it.
LEMMA SponsorInit == Init => IInv
  <1> SUFFICES ASSUME Init PROVE IInv
    OBVIOUS
  <1> USE DEF Init
  <1>1. Typed
    <2>1. 0 <= MaxSlides /\ 1 \in 1..MaxSlides + 1
      BY SponsorAssumption
    <2>2. Len(list) + Len(keep) <= MaxSlides
      BY <2>1
    <2> QED BY <2>1, <2>2 DEF Typed, States, Slots
  <1>2. Stages /\ Saved /\ FirstStays /\ Calm
    BY DEF Stages, Saved, FirstStays, Calm
  <1> QED BY <1>1, <1>2 DEF IInv

-----------------------------------------------------------------------------
(* The steps.                                                              *)

\* A manifest's slides are fetched one after the other.
LEMMA FetchStep ==
  ASSUME IInv, FetchManifest \/ FetchImage \/ FetchDone
  PROVE  IInv'
  <1> USE DEF IInv
  <1>1. CASE FetchManifest
    <2> USE <1>1 DEF FetchManifest
    <2>1. list' \in Seq(Slides) /\ Len(list') <= MaxSlides
      BY ParsedIs
    <2>2. keep = <<>> /\ keep' = <<>> /\ n = 1
      BY DEF Stages, memory, disk
    <2>3. Typed'
      <3>1. Len(list') + Len(keep') <= MaxSlides
        BY <2>1, <2>2
      <3> QED BY <2>1, <3>1 DEF Typed, States, memory, disk
    <2>4. Stages' /\ Saved' /\ FirstStays' /\ Calm'
      BY <2>2 DEF Stages, Saved, FirstStays, Calm, memory, disk
    <2> QED BY <2>3, <2>4
  <1>2. CASE FetchImage
    <2> USE <1>2 DEF FetchImage
    <2> DEFINE new == [slide |-> Head(list), pic |-> Head(list)]
    <2>1. /\ Head(list) \in Slides /\ Tail(list) \in Seq(Slides) /\ Len(Tail(list)) = Len(list) - 1
          /\ Len(list) \in Nat /\ Len(keep) \in Nat
      BY HeadTailProperties DEF Typed
    <2>2. new \in Kept /\ keep \in Seq(Kept)
      BY <2>1 DEF Kept, Typed
    <2>3. keep' = keep \/ keep' = Append(keep, new)
      OBVIOUS
    <2>4. /\ Append(keep, new) \in Seq(Kept) /\ Len(Append(keep, new)) = Len(keep) + 1
          /\ \A i \in 1..Len(keep) : Append(keep, new)[i] = keep[i]
          /\ Append(keep, new)[Len(keep) + 1] = new
      BY <2>2, AppendProperties
    <2>5. keep' \in Seq(Kept) /\ Len(keep') <= Len(keep) + 1
      BY <2>1, <2>2, <2>3, <2>4
    <2>6. Typed'
      <3>1. Len(list') + Len(keep') <= MaxSlides
        <4>1. Len(list') = Len(list) - 1 /\ Len(list) + Len(keep) <= MaxSlides /\ Len(keep') \in Nat
          BY <2>1, <2>5 DEF Typed
        <4> QED BY <4>1, <2>1, <2>5, SponsorAssumption
      <3> QED BY <2>1, <2>5, <3>1 DEF Typed, memory, disk
    <2>7. \A i \in DOMAIN keep' : keep'[i].slide = keep'[i].pic
      <3>1. CASE keep' = keep
        BY <3>1 DEF Stages
      <3>2. CASE keep' = Append(keep, new)
        <4>1. DOMAIN keep = 1..Len(keep) /\ DOMAIN keep' = 1..Len(keep) + 1
          BY <2>2, <2>4, <3>2
        <4>2. \A i \in 1..Len(keep) : keep[i].slide = keep[i].pic
          BY <4>1 DEF Stages
        <4>3. new.slide = new.pic
          OBVIOUS
        <4> HIDE DEF new
        <4>4. TAKE i \in DOMAIN keep'
        <4>5. i \in 1..Len(keep) \/ i = Len(keep) + 1
          BY <4>1, <2>1
        <4> QED BY <4>5, <4>2, <4>3, <3>2, <2>4
      <3> QED BY <2>3, <3>1, <3>2
    <2>8. Stages' /\ Saved' /\ FirstStays' /\ Calm'
      BY <2>7 DEF Stages, Saved, FirstStays, Calm, memory, disk
    <2> QED BY <2>6, <2>8
  <1>3. CASE FetchDone
    <2> USE <1>3 DEF FetchDone
    <2>1. list' = <<>> /\ ((keep' = <<>> /\ at' = "idle") \/ (keep' = keep /\ keep # <<>> /\ at' = "save")) /\ n' = 1
      BY DEF Rest, Stages
    <2>2. Typed'
      <3>1. Len(list') + Len(keep') <= MaxSlides /\ 1 \in 1..MaxSlides + 1
        BY <2>1, SponsorAssumption DEF Typed
      <3> QED BY <2>1, <3>1 DEF Typed, States, memory, disk
    <2>3. Stages' /\ FirstStays' /\ Calm'
      BY <2>1 DEF Stages, FirstStays, Calm, memory, disk
    <2>4. Saved'
      <3>1. \A i \in DOMAIN keep : ~(i < 1)
        BY DEF Typed
      <3> QED BY <3>1, <2>1 DEF Saved
    <2> QED BY <2>2, <2>3, <2>4
  <1> QED BY <1>1, <1>2, <1>3

\* The first picture is written, never removed; a manifest is written when
\* all its pictures are.
LEMMA SaveStep ==
  ASSUME IInv, Save
  PROVE  IInv'
  <1> USE DEF IInv
  <1>0. /\ n \in Nat /\ 1 <= n /\ n <= MaxSlides + 1
        /\ Len(keep) \in Nat /\ Len(keep) <= MaxSlides
        /\ DOMAIN keep = 1..Len(keep) /\ \A i \in DOMAIN keep : keep[i] \in Kept /\ i \in Slots
        /\ MaxSlides \in Nat /\ 1 \in Slots
    <2>1. Len(keep) \in Nat /\ Len(list) \in Nat
      BY DEF Typed
    <2> QED BY <2>1, SponsorAssumption DEF Typed, Slots
  <1>00. keep # <<>> => Len(keep) # 0 /\ 1 \in DOMAIN keep
    BY <1>0 DEF Typed
  <1>k. \A i \in DOMAIN keep : keep[i].pic \in Slides /\ keep[i].pic # None
    <2>1. \A x \in Kept : x.pic \in Slides /\ x.pic # None
      BY SponsorAssumption DEF Kept
    <2> QED BY <2>1, <1>0
  <1>1. CASE WriteImage
    <2> USE <1>1 DEF WriteImage
    <2>1. n \in DOMAIN keep /\ n \in Slots
      BY <1>0
    <2>2. /\ files' \in [Slots -> Slides \cup {None}]
          /\ \A i \in Slots : files'[i] = IF i = n THEN keep[n].pic ELSE files[i]
      BY <2>1, <1>k DEF Typed
    <2>3. Typed'
      BY <2>1, <2>2, <1>0 DEF Typed, memory, Slots
    <2>4. Saved'
      <3>1. \A i \in DOMAIN keep : i < n + 1 => i < n \/ i = n
        BY <1>0
      <3> QED BY <3>1, <2>2, <1>0 DEF Saved
    <2>5. Stages' /\ Calm'
      BY DEF Stages, Calm, memory
    <2>6. FirstStays'
      BY <2>1, <2>2, <1>0, <1>k DEF FirstStays, memory
    <2> QED BY <2>3, <2>4, <2>5, <2>6
  <1>2. CASE RemoveImage
    <2> USE <1>2 DEF RemoveImage
    <2>1. /\ files' \in [Slots -> Slides \cup {None}]
          /\ \A i \in Slots : i # n => files'[i] = files[i]
      BY DEF Typed
    <2>2. n # 1 /\ n \notin DOMAIN keep
      BY <1>0, <1>00 DEF Stages
    <2>3. Typed'
      BY <2>1, <1>0 DEF Typed, memory, Slots
    <2>4. Saved'
      <3>1. \A i \in DOMAIN keep : i < n
        BY <1>0
      <3> QED BY <3>1, <2>1, <2>2, <1>0 DEF Saved
    <2>5. Stages' /\ Calm'
      BY DEF Stages, Calm, memory
    <2>6. FirstStays'
      BY <2>1, <2>2, <1>0 DEF FirstStays, memory
    <2> QED BY <2>3, <2>4, <2>5, <2>6
  <1>3. CASE WriteManifest
    <2> USE <1>3 DEF WriteManifest
    <2>1. \A i \in DOMAIN keep : i < n /\ files[i] = keep[i].pic
      <3>1. \A i \in DOMAIN keep : i < n
        BY <1>0
      <3> QED BY <3>1 DEF Saved
    <2>2. keep # <<>>
      BY DEF Stages
    <2>3. /\ manifest' \in Seq(Slides) /\ Len(manifest') = Len(keep) /\ manifest' # None
          /\ DOMAIN manifest' = DOMAIN keep
      BY <2>2, <1>0, ColumnIs DEF Typed
    <2>4. Typed'
      <3>1. Len(manifest') \in Slots
        BY <2>2, <2>3, <1>0, <1>00 DEF Slots
      <3> QED BY <2>3, <3>1 DEF Typed, States, memory
    <2>5. files[1] # None
      BY <2>1, <2>2, <1>00, <1>k
    <2>6. \A i \in DOMAIN manifest' : files[i] = manifest'[i]
      <3>1. \A i \in DOMAIN keep : Column(keep, "slide")[i] = keep[i].slide
        BY DEF Column
      <3> QED BY <3>1, <2>1, <2>3 DEF Stages
    <2>7. Stages' /\ Saved'
      BY <2>1, <2>2 DEF Stages, Saved
    <2>8. FirstStays' /\ Calm'
      BY <2>3, <2>5, <2>6 DEF FirstStays, Calm, memory
    <2> QED BY <2>4, <2>7, <2>8
  <1>4. CASE SaveFails
    <2> USE <1>4 DEF SaveFails, Rest
    <2>1. Typed'
      BY SponsorAssumption, <1>0 DEF Typed, States, memory, disk
    <2>2. mode' # "calm"
      OBVIOUS
    <2>3. Stages' /\ Saved' /\ FirstStays' /\ Calm'
      BY <2>2 DEF Stages, Saved, FirstStays, Calm, memory, disk
    <2> QED BY <2>1, <2>3
  <1> QED BY <1>1, <1>2, <1>3, <1>4 DEF Save

\* What a refresh kept is what memory gets.
LEMMA SwapStep ==
  ASSUME IInv, Swap
  PROVE  IInv' /\ slides' # <<>>
  <1> USE DEF IInv, Swap, Rest
  <1>1. /\ slides' \in Seq(Slides) /\ imgs' \in Seq(Slides) /\ slides' # <<>>
        /\ manifest # None
    <2>1. keep # <<>> /\ keep \in Seq(Kept) /\ Len(keep) <= MaxSlides
      <3>1. Len(keep) \in Nat /\ Len(list) \in Nat
        BY DEF Typed
      <3> QED BY <3>1, SponsorAssumption DEF Typed, Stages
    <2> QED BY <2>1, ColumnIs DEF Saved
  <1>2. slides' = imgs'
    <2>1. \A i \in DOMAIN keep : keep[i]["slide"] = keep[i]["pic"]
      BY DEF Stages
    <2> QED BY <2>1 DEF Column
  <1>3. Typed'
    BY <1>1, SponsorAssumption DEF Typed, States, disk
  <1>4. Stages' /\ Saved' /\ FirstStays'
    BY <1>1 DEF Stages, Saved, FirstStays, disk
  <1>5. Calm'
    BY <1>2 DEF Calm, disk
  <1> QED BY <1>1, <1>3, <1>4, <1>5

\* The next start finds a slide where there is a manifest, and each with its
\* own picture where the files belong to it.
LEMMA RestartStep ==
  ASSUME IInv, Restart
  PROVE  IInv' /\ (slides # <<>> => slides' # <<>>)
  <1> USE DEF IInv, Restart, Rest
  <1>1. /\ Loadable \subseteq 1..MaxSlides /\ MaxSlides \in Nat
        /\ \A i \in Loadable : manifest[i] \in Slides /\ files[i] \in Slides
        /\ manifest # None => 1 \in Loadable
    <2>1. CASE manifest = None
      BY <2>1, SponsorAssumption DEF Loadable
    <2>2. CASE manifest # None
      <3>1. /\ DOMAIN manifest = 1..Len(manifest) /\ Len(manifest) \in 1..MaxSlides
            /\ \A i \in DOMAIN manifest : manifest[i] \in Slides
        BY <2>2 DEF Typed, Slots
      <3>2. \A i \in DOMAIN manifest : i \in Slots /\ files[i] \in Slides \cup {None}
        BY <3>1, SponsorAssumption DEF Typed, Slots
      <3>3. 1 \in DOMAIN manifest /\ files[1] # None
        BY <2>2, <3>1 DEF FirstStays
      <3> QED BY <2>2, <3>1, <3>2, <3>3, SponsorAssumption DEF Loadable, Slots
    <2> QED BY <2>1, <2>2
  <1>2. /\ slides' \in Seq(Slides) /\ imgs' \in Seq(Slides)
        /\ manifest # None => slides' # <<>>
    <2>1. slides' = Picked(manifest, Loadable) /\ imgs' = Picked(files, Loadable)
      BY DEF Loaded
    <2> QED BY <1>1, <2>1, PickedIs
  <1>3. slides' # <<>> => manifest # None
    <2>1. SUFFICES ASSUME manifest = None PROVE slides' = <<>>
      OBVIOUS
    <2>2. Loadable = {}
      BY <2>1 DEF Loadable
    <2>3. Cardinality(Loadable) = 0
      BY <2>2, FS_EmptySet
    <2>4. slides' = [k \in 1..0 |-> manifest[Place(Loadable, k)]]
      BY <2>3 DEF Loaded, Picked
    <2> QED BY <2>4
  <1>4. mode = "calm" => slides' = imgs'
    <2>1. SUFFICES ASSUME mode = "calm" PROVE slides' = imgs'
      OBVIOUS
    <2>2. \A i \in Loadable : manifest[i] = files[i]
      BY <2>1 DEF Calm, Loadable
    <2>3. \A k \in 1..Cardinality(Loadable) : manifest[Place(Loadable, k)] = files[Place(Loadable, k)]
      BY <2>2, <1>1, PlaceIs
    <2> QED BY <2>3 DEF Loaded, Picked
  <1>5. Typed'
    BY <1>2, SponsorAssumption DEF Typed, States, disk
  <1>6. Stages' /\ Saved' /\ FirstStays'
    BY <1>3 DEF Stages, Saved, FirstStays, disk
  <1>7. Calm'
    BY <1>4 DEF Calm, disk
  <1> QED BY <1>2, <1>5, <1>6, <1>7 DEF FirstStays

\* Every step keeps the invariant, and a slot that is filled.
LEMMA SponsorNext == IInv /\ [Next]_vars => IInv' /\ (slides # <<>> => slides' # <<>>)
  <1> SUFFICES ASSUME IInv, [Next]_vars PROVE IInv' /\ (slides # <<>> => slides' # <<>>)
    OBVIOUS
  <1>1. CASE FetchManifest \/ FetchImage \/ FetchDone
    BY <1>1, FetchStep DEF FetchManifest, FetchImage, FetchDone, memory
  <1>2. CASE Save
    BY <1>2, SaveStep DEF Save, WriteImage, RemoveImage, WriteManifest, SaveFails, memory
  <1>3. CASE Swap
    BY <1>3, SwapStep
  <1>4. CASE Restart
    BY <1>4, RestartStep
  <1>5. CASE UNCHANGED vars
    BY <1>5 DEF vars, memory, disk, job, IInv, Typed, Stages, Saved, FirstStays, Calm
  <1> QED BY <1>1, <1>2, <1>3, <1>4, <1>5 DEF Next

\* The invariant holds throughout.
THEOREM SponsorInvariance == Spec => []IInv
  BY SponsorInit, SponsorNext, PTL DEF Spec

\* Once the slot has slides, no refresh and no restart at any step empties it.
THEOREM SlotStaysFilled == Spec => NeverEmptied
  <1>1. IInv /\ [Next]_vars => [slides # <<>> => slides' # <<>>]_vars
    BY SponsorNext
  <1> QED BY <1>1, SponsorInvariance, PTL DEF Spec, NeverEmptied

\* A slide is served with its own picture where no save is cut short, and a
\* save that ends leaves a manifest and pictures that belong together.
THEOREM PicturesBelong == Spec => []OwnPicture
  <1>1. IInv => OwnPicture
    <2> SUFFICES ASSUME IInv PROVE OwnPicture
      OBVIOUS
    <2>1. ASSUME at = "swap", NEW i \in DOMAIN manifest
          PROVE  files[i] = manifest[i]
      <3>1. manifest = Column(keep, "slide") /\ \A j \in DOMAIN keep : files[j] = keep[j].pic
        BY <2>1 DEF IInv, Saved
      <3>2. i \in DOMAIN keep /\ manifest[i] = keep[i].slide
        BY <3>1 DEF Column
      <3> QED BY <3>1, <3>2 DEF IInv, Stages
    <2> QED BY <2>1 DEF IInv, Calm, OwnPicture
  <1> QED BY <1>1, SponsorInvariance, PTL

=============================================================================
