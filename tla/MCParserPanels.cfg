SPECIFICATION Spec
CONSTANTS
  Partitions = {0, 1, 2}
  Zones = {1, 2}
  ZoneList <- DscLists
  AlphaMessages <- PanelMessages
  PanelModes = {"D"}
  MaxBeeps = 0
  FIRE_TIMEOUT = 1
  BEEPS_TIMEOUT = 1
  ZONE_TIMEOUT = 1
  MaxTime = 1
PROPERTIES
  DSCZonesFollowExpander
