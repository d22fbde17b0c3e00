SPECIFICATION Spec
CONSTANTS
  Partitions = {0, 1}
  Zones = {1}
  ZoneList <- NoLists
  AlphaMessages <- ZoneMessages
  PanelModes = {}
  MaxBeeps = 0
  FIRE_TIMEOUT = 1
  BEEPS_TIMEOUT = 1
  ZONE_TIMEOUT = 1
  MaxTime = 3
INVARIANTS
  SubscribersInSync
  NoOverdueZone
PROPERTIES
  ZoneClosesForAReason
