--------------------------- MODULE MCTranscodePlan ---------------------------
(* A bounded set of probe results for TLC: every profile threshold, a     *)
(* source below all profiles, codec names in both cases, MP4 and Matroska. *)
EXTENDS TranscodePlan

MCWidths == {426, 1280, 1920, 3840}
MCHeights == {240, 720, 1080, 2160}
MCCodecNames == {"h264", "HEVC", "vp9"}
MCContainers == {{"mov", "mp4", "m4a", "3gp", "3g2", "mj2"}, {"matroska", "webm"}}
MCHwDecoders == {"h264_rkmpp", "hevc_rkmpp"}
MCHwEncoders == {"h264_rkmpp", "hevc_rkmpp"}
=============================================================================
