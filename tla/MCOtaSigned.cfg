SPECIFICATION Spec
SYMMETRY Alike
CONSTANTS
  UsdStarters = {u1, u2}
  OtaStarters = {o}
  NoUpdate = none
  MaxVersion = 2
  Chunks = 2
  HistorySize = 3
  EventPartitions = {0, 1}
  AllPartitions = 9
  MaxEntries = 5
  Period = 2
  Attributes = {"ready", "fire"}
  PlainKeys = {"netmode", "types"}
  ListedKeys = {"open"}
  SwitchKeys <- TheSwitchKeys
  Indexes = {1, 2}
  DefaultKeys = {"netmode"}
  Bits = 2
  Bytes = 3
  V4Bytes = 2
  LengthValues = 8
INVARIANTS SignedImageIsInstalled
CHECK_DEADLOCK FALSE
