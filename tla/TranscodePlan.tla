---------------------------- MODULE TranscodePlan ----------------------------
(***************************************************************************)
(* The decisions TranscodeEngine._process_sync takes for one job before it *)
(* runs ffmpeg (src/app/transcode/engine.py 38-93, profiles.py 50-61): the *)
(* profile, the target codec, the remux test, the RKMPP or software path   *)
(* with its decoder, encoder and filter candidates, and the size and rate  *)
(* of the output that path produces.                                       *)
(*                                                                         *)
(* The capability sets the engine queries once in __init__ (engine.py      *)
(* 29-32) and the device nodes are fixed for the engine's lifetime; every  *)
(* step processes one probe result and one request.                       *)
(***************************************************************************)
EXTENDS Naturals, Sequences, SequencesExt, Functions

CONSTANTS
  Widths,        \* video widths ffprobe may report
  Heights,       \* video heights ffprobe may report
  CodecNames,    \* codec_name values ffprobe may report
  Containers,    \* format_name values, each the set of its demuxer names
  HwDecoders,    \* RKMPP decoder names the ffmpeg build may list
  HwEncoders,    \* RKMPP encoder names the ffmpeg build may list
  NoValue        \* Python None

ASSUME PlanAssumption ==
  /\ Widths \subseteq Nat \ {0}
  /\ Heights \subseteq Nat \ {0}
  /\ NoValue \notin Nat \cup CodecNames

-----------------------------------------------------------------------------
(* models.py QualityTarget, CodecPreference; profiles.py PROFILES.         *)

Qualities == {"auto", "uhd_2160p", "fhd_1080p", "hd_720p", "sd_480p"}
Codecs == {"auto", "h264", "h265"}

PROFILES ==
  [q \in Qualities \ {"auto"} |->
     CASE q = "uhd_2160p" -> [name |-> q, width |-> 3840, height |-> 2160,
                              video_bitrate |-> 8000000, codec |-> "h265"]
       [] q = "fhd_1080p" -> [name |-> q, width |-> 1920, height |-> 1080,
                              video_bitrate |-> 12000000, codec |-> "h264"]
       [] q = "hd_720p"   -> [name |-> q, width |-> 1280, height |-> 720,
                              video_bitrate |-> 6000000, codec |-> "h264"]
       [] q = "sd_480p"   -> [name |-> q, width |-> 854, height |-> 480,
                              video_bitrate |-> 3000000, codec |-> "h264"]]

\* sorted(PROFILES.values(), key=...): the profiles as a sequence ordered by
\* Before.  The heights are distinct, so the stable sort has no ties to keep.
ProfilesSortedBy(Before(_, _)) ==
  CHOOSE s \in [1..Cardinality(Range(PROFILES)) -> Range(PROFILES)] :
    \A i, j \in DOMAIN s : i < j => Before(s[i], s[j])

\* sorted(PROFILES.values(), key=lambda p: p.height, reverse=True).
SortedProfiles == ProfilesSortedBy(LAMBDA a, b : a.height > b.height)

\* choose_profile with the sort's reverse=True left out.
ChooseProfileAscending(w, h, q) ==
  IF q # "auto" THEN PROFILES[q]
  ELSE LET asc == ProfilesSortedBy(LAMBDA a, b : a.height < b.height)
           i == SelectInSeq(asc, LAMBDA p : h >= p.height \/ w >= p.width)
       IN IF i = 0 THEN PROFILES["sd_480p"] ELSE asc[i]

\* choose_profile: an explicit preset verbatim; in auto mode the first
\* profile, by descending height, that the source reaches in height or in
\* width; the 480p profile when there is none.
ChooseProfile(w, h, q) ==
  IF q # "auto" THEN PROFILES[q]
  ELSE LET i == SelectInSeq(SortedProfiles,
                            LAMBDA p : h >= p.height \/ w >= p.width)
       IN IF i = 0 THEN PROFILES["sd_480p"] ELSE SortedProfiles[i]

-----------------------------------------------------------------------------
(* Probe results (probe.py MediaInfo) and requests (models.JobRequest).    *)

\* A width or height of 0 or missing is None after probe_media.
VideoInfos == [codec_name : CodecNames \cup {NoValue},
               width : Widths \cup {NoValue}, height : Heights \cup {NoValue}]
ProbeResults == [container : Containers \cup {NoValue},
                 video : VideoInfos \cup {NoValue}]
Requests == [quality : Qualities, codec : Codecs]

\* str.lower() on the names ffprobe reports in capitals.
Lower(c) ==
  CASE c = "H264" -> "h264" [] c = "HEVC" -> "hevc" [] c = "AVC1" -> "avc1"
    [] OTHER -> c

\* _map_codec_name (engine.py 421-429).
MapCodecName(c) ==
  CASE c = NoValue -> NoValue
    [] Lower(c) \in {"h264", "avc1", "avc"} -> "h264"
    [] Lower(c) \in {"h265", "hevc", "hvc1"} -> "h265"
    [] OTHER -> NoValue

\* _select_profile's test for a usable resolution (engine.py 115).
HasResolution(info) ==
  /\ info.video # NoValue
  /\ info.video.width # NoValue
  /\ info.video.height # NoValue

\* _resolve_codec returning the request's codec even when it is auto.
ResolveCodecNoAutoTest(info, profile, req) == req.codec

\* _resolve_codec (engine.py 119-135).
ResolveCodec(info, profile, req) ==
  LET src == MapCodecName(IF info.video # NoValue THEN info.video.codec_name
                                                  ELSE NoValue)
  IN CASE req.codec # "auto" -> req.codec
       [] src \in {"h264", "h265"} -> src
       [] profile.codec # "auto" -> profile.codec
       [] OTHER -> "h264"

\* "mp4" in container.lower(), over the demuxer names of format_name.
IsMp4Container(info) == info.container # NoValue /\ "mp4" \in info.container

\* _should_remux refusing only a source larger in both dimensions.
ShouldRemuxBothDims(info, profile, target) ==
  LET v == info.video
      src == MapCodecName(v.codec_name)
      tgt == IF target = "auto" THEN (IF src # NoValue THEN src ELSE "h264")
                                ELSE target
  IN /\ HasResolution(info)
     /\ src = tgt
     /\ IsMp4Container(info)
     /\ ~(v.width > profile.width /\ v.height > profile.height)

\* _should_remux without the codec comparison.
ShouldRemuxNoCodecTest(info, profile, target) ==
  LET v == info.video
  IN /\ HasResolution(info)
     /\ IsMp4Container(info)
     /\ ~(v.width > profile.width \/ v.height > profile.height)

\* _should_remux (engine.py 137-159).
ShouldRemux(info, profile, target) ==
  LET v == info.video
      src == MapCodecName(v.codec_name)
      tgt == IF target = "auto" THEN (IF src # NoValue THEN src ELSE "h264")
                                ELSE target
  IN /\ HasResolution(info)
     /\ src = tgt
     /\ IsMp4Container(info)
     /\ ~(v.width > profile.width \/ v.height > profile.height)

\* _rkmpp_decoder_name (378-390) and _rkmpp_encoder_name (392-395).
RkmppDecoderName(c) ==
  CASE Lower(c) = "av1" -> "av1_rkmpp"
    [] Lower(c) = "vp9" -> "vp9_rkmpp"
    [] Lower(c) = "vp8" -> "vp8_rkmpp"
    [] Lower(c) \in {"h264", "avc1", "avc"} -> "h264_rkmpp"
    [] Lower(c) \in {"h265", "hevc"} -> "hevc_rkmpp"
    [] OTHER -> NoValue
RkmppEncoderName(target) == IF target = "h265" THEN "hevc_rkmpp" ELSE "h264_rkmpp"

\* _select_rkmpp_codecs (362-376): the decoder and the encoder are kept
\* only when the cached ffmpeg listing has them; "" stands for none.
SelectRkmppCodecs(info, target, decoders, encoders) ==
  LET d == IF info.video # NoValue /\ info.video.codec_name # NoValue
             THEN RkmppDecoderName(info.video.codec_name) ELSE NoValue
      e == RkmppEncoderName(target)
      dec == IF d # NoValue /\ d \in decoders THEN d ELSE ""
      enc == IF e \in encoders THEN e ELSE ""
  IN [useHw |-> enc # "", decoder |-> dec, encoder |-> enc]

\* The filter candidates of _transcode_rkmpp (232-235).
FilterCandidates(rga) == IF rga THEN <<"rkrga", "format">> ELSE <<"format">>

\* _hevc_rate_control (408-413): target bitrate tiers by profile width.
HevcRateControl(width) ==
  CASE width >= 3800 -> <<8000000, 12000000, 18000000>>
    [] width >= 2500 -> <<5000000, 8000000, 12000000>>
    [] OTHER -> <<3000000, 5000000, 8000000>>

\* pad=ceil(iw/16)*16 of both RKMPP filters.
CeilTo16(n) == ((n + 15) \div 16) * 16

\* The software encoder of _transcode_cpu (186).
CpuEncoder(target) == IF target = "h265" THEN "libx265" ELSE "libx264"

-----------------------------------------------------------------------------
(* The plan of _process_sync (38-93) and the output each path writes:      *)
(* remux copies the streams; _transcode_cpu (178-221) scales down and pads *)
(* to the profile with libx264 or libx265 at the profile bitrate;          *)
(* _transcode_rkmpp (223-296) only pads to multiples of 16, with the hevc  *)
(* tiers or the profile bitrate.                                           *)
Plan(info, req, decoders, encoders, rga) ==
  IF ~HasResolution(info)
    THEN [ok |-> FALSE, error |-> "UnknownResolution"]
    ELSE
      LET v == info.video
          profile == ChooseProfile(v.width, v.height, req.quality)
          target == ResolveCodec(info, profile, req)
          remux == ShouldRemux(info, profile, target)
          hw == SelectRkmppCodecs(info, target, decoders, encoders)
          path == IF remux THEN "remux" ELSE IF hw.useHw THEN "hw" ELSE "cpu"
      IN [ok |-> TRUE, profile |-> profile, target |-> target, path |-> path,
          decoder |-> IF path = "hw" THEN hw.decoder ELSE "",
          encoder |-> CASE path = "hw" -> hw.encoder
                        [] path = "cpu" -> CpuEncoder(target)
                        [] OTHER -> "copy",
          candidates |-> IF path = "hw" THEN FilterCandidates(rga) ELSE <<>>,
          outWidth |-> CASE path = "remux" -> v.width
                         [] path = "hw" -> CeilTo16(v.width)
                         [] OTHER -> profile.width,
          outHeight |-> CASE path = "remux" -> v.height
                          [] path = "hw" -> CeilTo16(v.height)
                          [] OTHER -> profile.height,
          bitrate |-> IF path = "hw" /\ hw.encoder = "hevc_rkmpp"
                        THEN HevcRateControl(profile.width)[1]
                        ELSE profile.video_bitrate]

-----------------------------------------------------------------------------
VARIABLES
  decoders,   \* self.ffmpeg_decoders
  encoders,   \* self.ffmpeg_encoders
  rga,        \* Path("/dev/rga").exists()
  device,     \* a /dev/dri node _pick_hw_device would find
  info,       \* the probe result of the current job
  request,    \* the JobRequest of the current job
  plan        \* what _process_sync decided for it

vars == <<decoders, encoders, rga, device, info, request, plan>>

\* TranscodeEngine.__init__ queries the listings once; a job arrives with
\* its probe result and its request.
Init ==
  /\ decoders \in SUBSET HwDecoders
  /\ encoders \in SUBSET HwEncoders
  /\ rga \in BOOLEAN
  /\ device \in BOOLEAN
  /\ info \in ProbeResults
  /\ request \in Requests
  /\ plan = NoValue

\* The decision part of one call of process.
Process ==
  /\ plan = NoValue
  /\ plan' = Plan(info, request, decoders, encoders, rga)
  /\ UNCHANGED <<decoders, encoders, rga, device, info, request>>

\* Once process has returned the engine waits for the next job.
Done ==
  /\ plan # NoValue
  /\ UNCHANGED vars

Next == Process \/ Done

Spec == Init /\ [][Next]_vars

-----------------------------------------------------------------------------
PlanRecords ==
  [ok : {FALSE}, error : {"UnknownResolution"}] \cup
  [ok : {TRUE}, profile : Range(PROFILES), target : Codecs \ {"auto"},
   path : {"remux", "hw", "cpu"},
   decoder : HwDecoders \cup {""},
   encoder : HwEncoders \cup {"", "libx264", "libx265", "copy"},
   candidates : {<<"rkrga", "format">>, <<"format">>, <<>>},
   outWidth : Nat, outHeight : Nat, bitrate : Nat]

TypeOK ==
  /\ decoders \subseteq HwDecoders
  /\ encoders \subseteq HwEncoders
  /\ rga \in BOOLEAN /\ device \in BOOLEAN
  /\ info \in ProbeResults
  /\ request \in Requests
  /\ plan \in PlanRecords \cup {NoValue}

\* The source's width, height and mapped codec, for a planned job.
Src == info.video
Decided == plan # NoValue /\ plan.ok

\* Spec section 8: in auto mode the profile is the highest one whose height
\* or width the source reaches, and the smallest when the source is below
\* all of them (choose_profile's loop over the sorted PROFILES).
AutoProfileHighestFitting ==
  Decided /\ request.quality = "auto" =>
    LET fits == {p \in Range(PROFILES) :
                   p.height <= Src.height \/ p.width <= Src.width}
        lowest == CHOOSE p \in Range(PROFILES) :
                    \A o \in Range(PROFILES) : p.height <= o.height
    IN plan.profile = IF fits = {} THEN lowest
                      ELSE CHOOSE p \in fits : \A o \in fits : o.height <= p.height

\* Spec section 8: the remux path is taken exactly when the source codec is
\* the target codec, the container is MP4 and the source fits the profile
\* (_should_remux together with the codec _resolve_codec chose).
RemuxIffRule ==
  Decided =>
    (plan.path = "remux" <=>
       /\ MapCodecName(Src.codec_name) = plan.target
       /\ IsMp4Container(info)
       /\ Src.width <= plan.profile.width
       /\ Src.height <= plan.profile.height)

\* The codec of the written stream: copied from the source, or the one of
\* the encoder the path runs.
OutputCodec ==
  CASE plan.path = "remux" -> MapCodecName(Src.codec_name)
    [] plan.encoder \in {"hevc_rkmpp", "libx265"} -> "h265"
    [] OTHER -> "h264"

\* Every path writes the target codec _resolve_codec chose: the remux test,
\* the RKMPP encoder lookup and the software encoder all agree with it.
OutputCodecIsTarget ==
  Decided => OutputCodec = plan.target

\* Spec section 8: a source smaller than an explicitly requested profile is
\* always transcoded, never remuxed (the 240p to fhd_1080p example).
UpscaleNeverRemuxes ==
  Decided /\ request.quality # "auto" /\
  (Src.width < plan.profile.width \/ Src.height < plan.profile.height) =>
    plan.path # "remux"

\* Spec section 4.2 step 5: the RKMPP decoder is used only when both the
\* decoder and the acceleration device are present.
DecoderNeedsDevice ==
  Decided /\ plan.decoder # "" => device

=============================================================================
