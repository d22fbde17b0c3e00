SPECIFICATION Spec
CONSTANTS
  Partitions = {0}
  Zones = {1}
  ZoneList <- NoLists
  AlphaMessages <- AlarmMessages
  PanelModes = {"A"}
  MaxBeeps = 1
  FIRE_TIMEOUT = 2
  BEEPS_TIMEOUT = 1
  ZONE_TIMEOUT = 1
  MaxTime = 6
PROPERTIES
  IndicatorsAreHeld
