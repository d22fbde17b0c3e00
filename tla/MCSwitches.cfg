SPECIFICATION Spec
CONSTANTS
  Searches = {"alarm", "ready", "silent", "sensor", "pulse", "any", "version"}
  Config <- PanelConfig
  Partitions = {1, 2}
  Messages <- PanelMessages
  Displays <- AlphaTexts
  StatusKinds = {"ALARM", "READY"}
INVARIANTS SwitchesFollowPanel ComponentsInSync OneCallPerMessage
