SPECIFICATION Spec
CONSTANTS
  usb = usb
  ble = ble
  None = None
  Sources <- MCSources
  Kinds = {"ota", "ota_delta"}
  CUSTOM_HEADER_MIN_WRITE = 2
  MaxFirmware = 3
  MaxMessages = 4
INVARIANTS OneReplyEach
PROPERTIES OnlyConfirmedImagesBoot ErrorSticks
SYMMETRY SourceSymmetry
CHECK_DEADLOCK FALSE
