------------------------- MODULE TranscodePlanProofs -------------------------
(* Proofs about the decisions of _process_sync (TranscodePlan), for every  *)
(* set of probe results, requests and capability listings allowed by       *)
(* PlanAssumption: the sorted profile table, choose_profile's auto mode,   *)
(* the remux rule and the codec every path writes.                        *)
EXTENDS TranscodePlan, FiniteSetTheorems, TLAPS

USE PlanAssumption

\* The four presets of PROFILES, and the order sorted(..., reverse=True)
\* gives them.
UHD == PROFILES["uhd_2160p"]
FHD == PROFILES["fhd_1080p"]
HD == PROFILES["hd_720p"]
SD == PROFILES["sd_480p"]
DescendingProfiles == <<UHD, FHD, HD, SD>>

\* The fields of the presets that the decisions read.
LEMMA ProfileFields ==
  /\ UHD.height = 2160 /\ UHD.width = 3840 /\ UHD.codec = "h265"
  /\ FHD.height = 1080 /\ FHD.width = 1920 /\ FHD.codec = "h264"
  /\ HD.height = 720 /\ HD.width = 1280 /\ HD.codec = "h264"
  /\ SD.height = 480 /\ SD.width = 854 /\ SD.codec = "h264"
  /\ \A p \in {UHD, FHD, HD, SD} : p.video_bitrate \in Nat
BY DEF UHD, FHD, HD, SD, PROFILES, Qualities

\* PROFILES.values().
LEMMA ProfilesRange == Range(PROFILES) = {UHD, FHD, HD, SD}
<1>1. DOMAIN PROFILES = {"uhd_2160p", "fhd_1080p", "hd_720p", "sd_480p"}
  BY DEF PROFILES, Qualities
<1>2. QED
  BY <1>1 DEF Range, UHD, FHD, HD, SD

\* Adding a new element to a finite set adds one to its cardinality.
LEMMA AddNewElement ==
  ASSUME NEW S, NEW x, IsFiniteSet(S), x \notin S
  PROVE  /\ IsFiniteSet(S \cup {x})
         /\ Cardinality(S \cup {x}) = Cardinality(S) + 1
BY FS_AddElement

\* The table has four distinct presets.
LEMMA ProfilesCount == Cardinality(Range(PROFILES)) = 4
<1>1. UHD # FHD /\ UHD # HD /\ UHD # SD /\ FHD # HD /\ FHD # SD /\ HD # SD
  BY ProfileFields
<1>2. IsFiniteSet({UHD}) /\ Cardinality({UHD}) = 1
  BY FS_Singleton
<1>3. IsFiniteSet({UHD, FHD}) /\ Cardinality({UHD, FHD}) = 2
  <2>1. {UHD, FHD} = {UHD} \cup {FHD} /\ FHD \notin {UHD}
    BY <1>1
  <2>2. /\ IsFiniteSet({UHD} \cup {FHD})
        /\ Cardinality({UHD} \cup {FHD}) = Cardinality({UHD}) + 1
    BY <1>2, <2>1, AddNewElement
  <2>3. QED
    BY <1>2, <2>1, <2>2
<1>4. IsFiniteSet({UHD, FHD, HD}) /\ Cardinality({UHD, FHD, HD}) = 3
  <2>1. {UHD, FHD, HD} = {UHD, FHD} \cup {HD} /\ HD \notin {UHD, FHD}
    BY <1>1
  <2>2. QED
    BY <1>3, <2>1, AddNewElement
<1>5. Cardinality({UHD, FHD, HD, SD}) = 4
  <2>1. {UHD, FHD, HD, SD} = {UHD, FHD, HD} \cup {SD} /\ SD \notin {UHD, FHD, HD}
    BY <1>1
  <2>2. QED
    BY <1>4, <2>1, AddNewElement
<1>6. QED
  BY <1>5, ProfilesRange

\* A sequence of the four presets in strictly descending height is the
\* sequence UHD, FHD, HD, SD: the heights 2160, 1080, 720, 480 allow no
\* other order.
LEMMA DescendingUnique ==
  ASSUME NEW s \in [1..4 -> {UHD, FHD, HD, SD}],
         \A i, j \in DOMAIN s : i < j => s[i].height > s[j].height
  PROVE  s = DescendingProfiles
<1>1. \A k \in 1..4 : s[k].height \in {2160, 1080, 720, 480}
  BY ProfileFields
<1>2. /\ s[1].height > s[2].height /\ s[2].height > s[3].height
      /\ s[3].height > s[4].height
  OBVIOUS
<1>3. /\ s[1].height = 2160 /\ s[2].height = 1080
      /\ s[3].height = 720 /\ s[4].height = 480
  BY <1>1, <1>2
<1>4. \A k \in 1..4 : s[k] = CASE s[k].height = 2160 -> UHD
                              [] s[k].height = 1080 -> FHD
                              [] s[k].height = 720 -> HD
                              [] s[k].height = 480 -> SD
  BY ProfileFields
<1>5. s[1] = UHD /\ s[2] = FHD /\ s[3] = HD /\ s[4] = SD
  BY <1>3, <1>4
<1>6. QED
  BY <1>5 DEF DescendingProfiles

\* sorted(PROFILES.values(), key=height, reverse=True) lists the presets
\* from 2160p down to 480p.
LEMMA SortedProfilesValue == SortedProfiles = DescendingProfiles
<1> DEFINE Desc(s) == \A i, j \in DOMAIN s : i < j => s[i].height > s[j].height
<1>1. DescendingProfiles \in [1..4 -> Range(PROFILES)] /\ Desc(DescendingProfiles)
  BY ProfilesRange, ProfileFields DEF DescendingProfiles
<1>2. \A s \in [1..4 -> Range(PROFILES)] : Desc(s) => s = DescendingProfiles
  BY ProfilesRange, DescendingUnique
<1>3. SortedProfiles = CHOOSE s \in [1..4 -> Range(PROFILES)] : Desc(s)
  BY ProfilesCount DEF SortedProfiles, ProfilesSortedBy
<1>4. QED
  BY <1>1, <1>2, <1>3

-----------------------------------------------------------------------------
(* choose_profile in auto mode.                                            *)

\* The presets a source of width w and height h reaches in one dimension,
\* the tallest of a set of presets, and the shortest preset.
Fits(w, h) == {p \in Range(PROFILES) : p.height <= h \/ p.width <= w}
Tallest(F) == CHOOSE p \in F : \A o \in F : o.height <= p.height
Lowest == CHOOSE p \in Range(PROFILES) :
            \A o \in Range(PROFILES) : p.height <= o.height

\* A preset is determined by its height.
LEMMA HeightDetermines ==
  ASSUME NEW p \in Range(PROFILES), NEW o \in Range(PROFILES),
         p.height = o.height
  PROVE  p = o
BY ProfilesRange, ProfileFields

\* The tallest of a set of presets is the one no other exceeds.
LEMMA TallestIs ==
  ASSUME NEW F \in SUBSET Range(PROFILES), NEW p \in F,
         \A o \in F : o.height <= p.height
  PROVE  Tallest(F) = p
<1>1. /\ Tallest(F) \in F
      /\ \A o \in F : o.height <= Tallest(F).height
  BY DEF Tallest
<1>2. \A o \in Range(PROFILES) : o.height \in Nat
  BY ProfilesRange, ProfileFields
<1>3. Tallest(F).height = p.height
  BY <1>1, <1>2
<1>4. QED
  BY <1>1, <1>3, HeightDetermines

\* The 480p preset is the shortest.
LEMMA LowestIsSD == Lowest = SD
<1>1. SD \in Range(PROFILES) /\ \A o \in Range(PROFILES) : SD.height <= o.height
  BY ProfilesRange, ProfileFields
<1>2. /\ Lowest \in Range(PROFILES)
      /\ \A o \in Range(PROFILES) : Lowest.height <= o.height
  BY <1>1 DEF Lowest
<1>3. \A o \in Range(PROFILES) : o.height \in Nat
  BY ProfilesRange, ProfileFields
<1>4. Lowest.height = SD.height
  BY <1>1, <1>2, <1>3
<1>5. QED
  BY <1>1, <1>2, <1>4, HeightDetermines

\* A non-empty set of indices of the table has a least element.
LEMMA LeastIndex ==
  ASSUME NEW I \in SUBSET (1..4), I # {}
  PROVE  \E m \in I : \A y \in I : m <= y
<1>1. CASE 1 \in I
  BY <1>1
<1>2. CASE 1 \notin I /\ 2 \in I
  BY <1>2
<1>3. CASE 1 \notin I /\ 2 \notin I /\ 3 \in I
  BY <1>3
<1>4. CASE 1 \notin I /\ 2 \notin I /\ 3 \notin I
  <2>1. \A x \in I : x \in 1..4 /\ x \notin {1, 2, 3}
    BY <1>4
  <2>2. \A x \in I : x = 4
    BY <2>1
  <2>3. 4 \in I
    BY <2>2
  <2>4. QED
    BY <2>2, <2>3
<1>5. QED
  BY <1>1, <1>2, <1>3, <1>4

\* Min of FiniteSetsExt returns the least element.
LEMMA MinIs ==
  ASSUME NEW I \in SUBSET Nat, NEW m \in I, \A y \in I : m <= y
  PROVE  Min(I) = m
<1>1. Min(I) \in I /\ \A y \in I : Min(I) <= y
  BY DEF Min
<1>2. \A a, b \in Nat : a <= b /\ b <= a => a = b
  OBVIOUS
<1>3. QED
  BY <1>1, <1>2

\* choose_profile's auto mode, for every source size: the first preset of
\* the descending table that the source reaches in height or in width is
\* the tallest preset it reaches, and with none reached the fallback is the
\* shortest preset.
LEMMA AutoChoice ==
  ASSUME NEW w \in Nat, NEW h \in Nat
  PROVE  ChooseProfile(w, h, "auto") =
           IF Fits(w, h) = {} THEN Lowest ELSE Tallest(Fits(w, h))
<1> DEFINE D == DescendingProfiles
           T(p) == h >= p.height \/ w >= p.width
           I == {i \in 1..4 : T(D[i])}
<1>1. ChooseProfile(w, h, "auto") =
        IF I # {} THEN D[Min(I)] ELSE SD
  <2>1. Len(D) = 4
    BY DEF DescendingProfiles
  <2>2. SelectInSeq(D, T) = IF I # {} THEN Min(I) ELSE 0
    BY <2>1 DEF SelectInSeq
  <2>3. I # {} => Min(I) # 0
    BY LeastIndex, MinIs
  <2>4. QED
    BY <2>2, <2>3, SortedProfilesValue DEF ChooseProfile, SD
<1>2. Range(PROFILES) = {D[1], D[2], D[3], D[4]}
  BY ProfilesRange DEF DescendingProfiles
<1>3. \A i, k \in 1..4 : i <= k => D[k].height <= D[i].height
  BY ProfileFields DEF DescendingProfiles
<1>4. \A k \in 1..4 : D[k] \in Fits(w, h) <=> k \in I
  BY <1>2 DEF Fits
<1>5. CASE I # {}
  <2>1. PICK m \in I : \A y \in I : m <= y
    BY <1>5, LeastIndex
  <2>2. Min(I) = m
    BY <2>1, MinIs
  <2>3. D[m] \in Fits(w, h)
    BY <2>1, <1>4
  <2>4. \A o \in Fits(w, h) : o.height <= D[m].height
    <3>1. TAKE o \in Fits(w, h)
    <3>2. PICK k \in 1..4 : o = D[k]
      BY <1>2 DEF Fits
    <3>3. k \in I
      BY <3>2, <1>4
    <3>4. QED
      BY <2>1, <3>2, <3>3, <1>3
  <2>5. Tallest(Fits(w, h)) = D[m]
    BY <2>3, <2>4, TallestIs DEF Fits
  <2>6. QED
    BY <1>1, <1>5, <2>2, <2>3, <2>5
<1>6. CASE I = {}
  <2>1. Fits(w, h) = {}
    BY <1>2, <1>4, <1>6 DEF Fits
  <2>2. QED
    BY <1>1, <1>6, <2>1, LowestIsSD
<1>7. QED
  BY <1>5, <1>6

-----------------------------------------------------------------------------
(* The fields of a plan.                                                    *)

\* Every choice of choose_profile is one of the four presets.
LEMMA ChooseProfileRange ==
  ASSUME NEW w \in Nat, NEW h \in Nat, NEW q \in Qualities
  PROVE  ChooseProfile(w, h, q) \in Range(PROFILES)
<1>1. CASE q # "auto"
  <2>1. q \in DOMAIN PROFILES
    BY <1>1 DEF PROFILES, Qualities
  <2>2. QED
    BY <1>1, <2>1 DEF ChooseProfile, Range
<1>2. CASE q = "auto"
  <2>1. Fits(w, h) # {} => Tallest(Fits(w, h)) \in Range(PROFILES)
    <3>1. SUFFICES ASSUME Fits(w, h) # {}
                   PROVE  Tallest(Fits(w, h)) \in Range(PROFILES)
      OBVIOUS
    <3>2. \E p \in Fits(w, h) : \A o \in Fits(w, h) : o.height <= p.height
      <4>1. PICK x \in Fits(w, h) : TRUE
        BY <3>1
      <4>2. Fits(w, h) \subseteq {UHD, FHD, HD, SD}
        BY ProfilesRange DEF Fits
      <4>3. CASE UHD \in Fits(w, h)
        BY <4>2, <4>3, ProfileFields
      <4>4. CASE UHD \notin Fits(w, h) /\ FHD \in Fits(w, h)
        BY <4>2, <4>4, ProfileFields
      <4>5. CASE UHD \notin Fits(w, h) /\ FHD \notin Fits(w, h) /\ HD \in Fits(w, h)
        BY <4>2, <4>5, ProfileFields
      <4>6. CASE UHD \notin Fits(w, h) /\ FHD \notin Fits(w, h) /\ HD \notin Fits(w, h)
        BY <4>1, <4>2, <4>6, ProfileFields
      <4>7. QED
        BY <4>3, <4>4, <4>5, <4>6
    <3>3. QED
      BY <3>2 DEF Tallest, Fits
  <2>2. QED
    BY <1>2, <2>1, AutoChoice, LowestIsSD, ProfilesRange
<1>3. QED
  BY <1>1, <1>2

\* _resolve_codec never answers "auto": the request's explicit codec, the
\* source's h264 or h265, or the profile's codec.
LEMMA ResolveCodecTarget ==
  ASSUME NEW i \in ProbeResults, NEW pr \in Range(PROFILES), NEW r \in Requests
  PROVE  ResolveCodec(i, pr, r) \in {"h264", "h265"}
<1>1. pr.codec \in {"h264", "h265"}
  BY ProfilesRange, ProfileFields
<1>2. QED
  BY <1>1 DEF ResolveCodec, Requests, Codecs

\* The profile and the codec _process_sync decides for a probe result and a
\* request.
PlanProfile(i, r) == ChooseProfile(i.video.width, i.video.height, r.quality)
PlanTarget(i, r) == ResolveCodec(i, PlanProfile(i, r), r)

\* With a known resolution, the plan carries the decided profile and codec,
\* its path is chosen by the remux test and then the RKMPP listing, and its
\* encoder is the one of that path.
LEMMA PlanFields ==
  ASSUME NEW i \in ProbeResults, NEW r \in Requests,
         NEW d \in SUBSET HwDecoders, NEW e \in SUBSET HwEncoders,
         NEW g \in BOOLEAN, HasResolution(i)
  PROVE  LET pl == Plan(i, r, d, e, g)
             hw == SelectRkmppCodecs(i, PlanTarget(i, r), d, e)
         IN  /\ pl.ok = TRUE
             /\ pl.profile = PlanProfile(i, r)
             /\ pl.target = PlanTarget(i, r)
             /\ pl.path = IF ShouldRemux(i, PlanProfile(i, r), PlanTarget(i, r))
                            THEN "remux"
                            ELSE IF hw.useHw THEN "hw" ELSE "cpu"
             /\ pl.decoder = IF pl.path = "hw" THEN hw.decoder ELSE ""
             /\ pl.encoder = CASE pl.path = "hw" -> hw.encoder
                               [] pl.path = "cpu" -> CpuEncoder(PlanTarget(i, r))
                               [] OTHER -> "copy"
BY DEF Plan, PlanProfile, PlanTarget

\* A plan is a failure record or a record of PlanRecords' second kind.
LEMMA PlanType ==
  ASSUME NEW i \in ProbeResults, NEW r \in Requests,
         NEW d \in SUBSET HwDecoders, NEW e \in SUBSET HwEncoders,
         NEW g \in BOOLEAN
  PROVE  Plan(i, r, d, e, g) \in PlanRecords
<1>1. CASE ~HasResolution(i)
  BY <1>1 DEF Plan, PlanRecords
<1>2. CASE HasResolution(i)
  <2> DEFINE v == i.video
             prof == PlanProfile(i, r)
             tgt == PlanTarget(i, r)
             hw == SelectRkmppCodecs(i, tgt, d, e)
  <2>1. v.width \in Nat /\ v.height \in Nat
    BY <1>2 DEF HasResolution, ProbeResults, VideoInfos
  <2>2. prof \in Range(PROFILES) /\ prof.width \in Nat /\ prof.height \in Nat
        /\ prof.video_bitrate \in Nat
    <3>1. prof \in Range(PROFILES)
      BY <2>1, ChooseProfileRange DEF PlanProfile, Requests
    <3>2. QED
      BY <3>1, ProfilesRange, ProfileFields
  <2>3. tgt \in Codecs \ {"auto"}
    BY <2>2, ResolveCodecTarget DEF PlanTarget, Codecs
  <2>4. /\ hw.decoder \in HwDecoders \cup {""}
        /\ hw.encoder \in HwEncoders \cup {""}
    BY DEF SelectRkmppCodecs
  <2>5. /\ CeilTo16(v.width) \in Nat /\ CeilTo16(v.height) \in Nat
        /\ HevcRateControl(prof.width)[1] \in Nat
    BY <2>1, <2>2 DEF CeilTo16, HevcRateControl
  <2> DEFINE path == IF ShouldRemux(i, prof, tgt) THEN "remux"
                     ELSE IF hw.useHw THEN "hw" ELSE "cpu"
             enc == CASE path = "hw" -> hw.encoder
                      [] path = "cpu" -> CpuEncoder(tgt)
                      [] OTHER -> "copy"
             cand == IF path = "hw" THEN FilterCandidates(g) ELSE <<>>
             ow == CASE path = "remux" -> v.width
                     [] path = "hw" -> CeilTo16(v.width)
                     [] OTHER -> prof.width
             oh == CASE path = "remux" -> v.height
                     [] path = "hw" -> CeilTo16(v.height)
                     [] OTHER -> prof.height
             br == IF path = "hw" /\ hw.encoder = "hevc_rkmpp"
                     THEN HevcRateControl(prof.width)[1]
                     ELSE prof.video_bitrate
             dec == IF path = "hw" THEN hw.decoder ELSE ""
             rec == [ok |-> TRUE, profile |-> prof, target |-> tgt,
                     path |-> path, decoder |-> dec, encoder |-> enc,
                     candidates |-> cand, outWidth |-> ow, outHeight |-> oh,
                     bitrate |-> br]
  <2>6. Plan(i, r, d, e, g) = rec
    BY <1>2 DEF Plan, PlanProfile, PlanTarget
  <2>7. enc \in HwEncoders \cup {"", "libx264", "libx265", "copy"}
    BY <2>4 DEF CpuEncoder
  <2>8. cand \in {<<"rkrga", "format">>, <<"format">>, <<>>}
    BY DEF FilterCandidates
  <2>9. ow \in Nat /\ oh \in Nat /\ br \in Nat
    BY <2>1, <2>2, <2>5
  <2>10. dec \in HwDecoders \cup {""}
    BY <2>4
  <2>11. path \in {"remux", "hw", "cpu"}
    OBVIOUS
  <2>12. rec \in [ok : {TRUE}, profile : Range(PROFILES),
                  target : Codecs \ {"auto"}, path : {"remux", "hw", "cpu"},
                  decoder : HwDecoders \cup {""},
                  encoder : HwEncoders \cup {"", "libx264", "libx265", "copy"},
                  candidates : {<<"rkrga", "format">>, <<"format">>, <<>>},
                  outWidth : Nat, outHeight : Nat, bitrate : Nat]
    <3> HIDE DEF prof, tgt, path, dec, enc, cand, ow, oh, br
    <3> QED
      BY <2>2, <2>3, <2>7, <2>8, <2>9, <2>10, <2>11
  <2>13. QED
    <3> HIDE DEF rec
    <3> QED
      BY <2>6, <2>12 DEF PlanRecords
<1>3. QED
  BY <1>1, <1>2

\* Without a known resolution _process_sync raises: no decision is taken.
LEMMA PlanUndecided ==
  ASSUME NEW i, NEW r, NEW d, NEW e, NEW g, ~HasResolution(i)
  PROVE  Plan(i, r, d, e, g).ok = FALSE
BY DEF Plan

-----------------------------------------------------------------------------
(* The engine's state machine.                                             *)

\* The inductive invariant: a decided plan is the plan of the engine's
\* current probe result, request and capabilities.
PInv ==
  /\ TypeOK
  /\ plan # NoValue => plan = Plan(info, request, decoders, encoders, rga)

LEMMA PInvInductive == Spec => []PInv
<1>1. Init => PInv
  BY DEF Init, PInv, TypeOK
<1>2. PInv /\ [Next]_vars => PInv'
  <2>1. SUFFICES ASSUME PInv, [Next]_vars PROVE PInv'
    OBVIOUS
  <2>2. CASE Process
    <3>1. Plan(info, request, decoders, encoders, rga) \in PlanRecords
      BY <2>1, PlanType DEF PInv, TypeOK
    <3>2. QED
      BY <2>1, <2>2, <3>1 DEF Process, PInv, TypeOK
  <2>3. CASE Done \/ UNCHANGED vars
    BY <2>1, <2>3 DEF Done, vars, PInv, TypeOK
  <2>4. QED
    BY <2>1, <2>2, <2>3 DEF Next
<1>3. QED
  BY <1>1, <1>2, PTL DEF Spec

\* A decided plan belongs to a probe result with a known resolution.
LEMMA DecidedFacts ==
  ASSUME PInv, Decided
  PROVE  /\ HasResolution(info)
         /\ plan = Plan(info, request, decoders, encoders, rga)
         /\ info \in ProbeResults /\ request \in Requests
         /\ decoders \subseteq HwDecoders /\ encoders \subseteq HwEncoders
         /\ rga \in BOOLEAN
         /\ Src.width \in Nat /\ Src.height \in Nat
<1>1. plan = Plan(info, request, decoders, encoders, rga)
  BY DEF PInv, Decided
<1>2. HasResolution(info)
  <2>1. SUFFICES ASSUME ~HasResolution(info) PROVE FALSE
    OBVIOUS
  <2>2. plan.ok = FALSE
    BY <1>1, <2>1, PlanUndecided
  <2>3. QED
    BY <2>2 DEF Decided
<1>3. /\ info \in ProbeResults /\ request \in Requests
      /\ decoders \subseteq HwDecoders /\ encoders \subseteq HwEncoders
      /\ rga \in BOOLEAN
  BY DEF PInv, TypeOK
<1>4. Src \in VideoInfos
  BY <1>2, <1>3 DEF HasResolution, ProbeResults, Src
<1>5. Src.width \in Widths /\ Src.height \in Heights
  BY <1>2, <1>4 DEF HasResolution, VideoInfos, Src
<1>6. QED
  BY <1>1, <1>2, <1>3, <1>5

\* The RKMPP choice of _select_rkmpp_codecs for the current job.
PlanHw == SelectRkmppCodecs(info, PlanTarget(info, request), decoders, encoders)

\* The fields of a decided plan, in the engine's current state.
LEMMA DecidedPlan ==
  ASSUME PInv, Decided
  PROVE  /\ plan.profile = PlanProfile(info, request)
         /\ plan.target = PlanTarget(info, request)
         /\ plan.path = IF ShouldRemux(info, PlanProfile(info, request),
                                       PlanTarget(info, request))
                          THEN "remux"
                          ELSE IF PlanHw.useHw THEN "hw" ELSE "cpu"
         /\ plan.encoder = CASE plan.path = "hw" -> PlanHw.encoder
                             [] plan.path = "cpu" ->
                                  CpuEncoder(PlanTarget(info, request))
                             [] OTHER -> "copy"
<1>1. HasResolution(info) /\ plan = Plan(info, request, decoders, encoders, rga)
  BY DecidedFacts
<1>2. QED
  BY <1>1 DEF Plan, PlanProfile, PlanTarget, PlanHw

\* The profile and codec of a decided plan are a preset and h264 or h265.
LEMMA DecidedTarget ==
  ASSUME PInv, Decided
  PROVE  /\ PlanProfile(info, request) \in Range(PROFILES)
         /\ PlanProfile(info, request).width \in Nat
         /\ PlanProfile(info, request).height \in Nat
         /\ PlanTarget(info, request) \in {"h264", "h265"}
<1>1. PlanProfile(info, request) \in Range(PROFILES)
  BY DecidedFacts, ChooseProfileRange DEF PlanProfile, Requests, Src
<1>2. QED
  BY <1>1, DecidedFacts, ResolveCodecTarget, ProfilesRange, ProfileFields
  DEF PlanTarget

\* Spec section 8 for every set of sources: in auto mode choose_profile's
\* walk down the sorted table picks the tallest preset the source reaches
\* in height or in width, and the 480p preset when it reaches none.
THEOREM AutoProfileHighestFittingInvariant == Spec => []AutoProfileHighestFitting
<1>1. PInv => AutoProfileHighestFitting
  <2>1. SUFFICES ASSUME PInv, Decided, request.quality = "auto"
                 PROVE  plan.profile = IF Fits(Src.width, Src.height) = {}
                                         THEN Lowest
                                         ELSE Tallest(Fits(Src.width, Src.height))
    BY DEF AutoProfileHighestFitting, Fits, Tallest, Lowest
  <2>2. plan.profile = ChooseProfile(Src.width, Src.height, "auto")
    BY <2>1, DecidedPlan DEF PlanProfile, Src
  <2>3. Src.width \in Nat /\ Src.height \in Nat
    BY <2>1, DecidedFacts
  <2>4. QED
    BY <2>2, <2>3, AutoChoice
<1>2. QED
  BY <1>1, PInvInductive, PTL

\* Spec section 8 for every set of sources: the remux path is taken exactly
\* when the source codec is the codec _resolve_codec chose, the container
\* is MP4 and the source is no larger than the profile in either dimension.
THEOREM RemuxIffRuleInvariant == Spec => []RemuxIffRule
<1>1. PInv => RemuxIffRule
  <2>1. SUFFICES ASSUME PInv, Decided
                 PROVE  plan.path = "remux" <=>
                          /\ MapCodecName(Src.codec_name) = plan.target
                          /\ IsMp4Container(info)
                          /\ Src.width <= plan.profile.width
                          /\ Src.height <= plan.profile.height
    BY DEF RemuxIffRule
  <2> DEFINE prof == PlanProfile(info, request)
             tgt == PlanTarget(info, request)
  <2>2. /\ plan.profile = prof /\ plan.target = tgt
        /\ plan.path = "remux" <=> ShouldRemux(info, prof, tgt)
    BY <2>1, DecidedPlan
  <2>3. /\ prof.width \in Nat /\ prof.height \in Nat
        /\ tgt \in {"h264", "h265"}
        /\ Src.width \in Nat /\ Src.height \in Nat
        /\ HasResolution(info)
    BY <2>1, DecidedTarget, DecidedFacts
  <2>4. ShouldRemux(info, prof, tgt) <=>
          /\ MapCodecName(Src.codec_name) = tgt
          /\ IsMp4Container(info)
          /\ Src.width <= prof.width
          /\ Src.height <= prof.height
    <3> HIDE DEF prof, tgt
    <3> QED
      BY <2>3 DEF ShouldRemux, Src
  <2>5. QED
    BY <2>2, <2>4
<1>2. QED
  BY <1>1, PInvInductive, PTL

\* For every set of sources and capability listings: the stream written is
\* in the codec _resolve_codec chose, whether the path copies it (the
\* remux test compared the codecs), encodes it with RKMPP (the encoder name
\* follows the target) or with libx264 or libx265.
THEOREM OutputCodecIsTargetInvariant == Spec => []OutputCodecIsTarget
<1>1. PInv => OutputCodecIsTarget
  <2>1. SUFFICES ASSUME PInv, Decided PROVE OutputCodec = plan.target
    BY DEF OutputCodecIsTarget
  <2> DEFINE prof == PlanProfile(info, request)
             tgt == PlanTarget(info, request)
  <2>2. /\ plan.target = tgt
        /\ plan.path = IF ShouldRemux(info, prof, tgt) THEN "remux"
                       ELSE IF PlanHw.useHw THEN "hw" ELSE "cpu"
        /\ plan.encoder = CASE plan.path = "hw" -> PlanHw.encoder
                            [] plan.path = "cpu" -> CpuEncoder(tgt)
                            [] OTHER -> "copy"
    BY <2>1, DecidedPlan
  <2>3. tgt \in {"h264", "h265"}
    BY <2>1, DecidedTarget
  <2>8. PlanHw.useHw => PlanHw.encoder = RkmppEncoderName(tgt)
    BY Zenon DEF PlanHw, SelectRkmppCodecs
  <2> HIDE DEF prof, tgt
  <2>4. CASE plan.path = "remux"
    <3>1. ShouldRemux(info, prof, tgt)
      BY <2>2, <2>4
    <3>2. MapCodecName(Src.codec_name) = tgt
      BY <3>1, <2>3 DEF ShouldRemux, Src
    <3>3. QED
      BY <2>2, <2>4, <3>2 DEF OutputCodec
  <2>5. CASE plan.path = "hw"
    <3>1. plan.encoder = PlanHw.encoder
      BY <2>2, <2>5
    <3>2. PlanHw.useHw
      BY <2>2, <2>5
    <3>3. PlanHw.encoder = RkmppEncoderName(tgt)
      BY <3>2, <2>8
    <3>4. QED
      BY <2>2, <2>3, <2>5, <3>1, <3>3 DEF OutputCodec, RkmppEncoderName
  <2>6. CASE plan.path = "cpu"
    BY <2>2, <2>3, <2>6 DEF OutputCodec, CpuEncoder
  <2>7. QED
    BY <2>2, <2>4, <2>5, <2>6
<1>2. QED
  BY <1>1, PInvInductive, PTL

\* For every set of sources and capability listings, every decision of
\* _process_sync is a well-formed plan: a preset of PROFILES, a concrete
\* codec, a listed RKMPP decoder and encoder or a software one.
THEOREM PlanTypeCorrect == Spec => []TypeOK
<1>1. PInv => TypeOK
  BY DEF PInv
<1>2. QED
  BY <1>1, PInvInductive, PTL

=============================================================================
