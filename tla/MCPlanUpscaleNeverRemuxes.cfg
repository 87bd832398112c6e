CONSTANTS
  Widths <- MCWidths
  Heights <- MCHeights
  CodecNames <- MCCodecNames
  Containers <- MCContainers
  HwDecoders <- MCHwDecoders
  HwEncoders <- MCHwEncoders
  NoValue = NoValue

SPECIFICATION Spec

INVARIANT UpscaleNeverRemuxes
