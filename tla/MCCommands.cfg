SPECIFICATION SpecAll
SYMMETRY Alike
CONSTANTS
  Addresses = {1, 2, 3, 4, 5, 6, 7, 8, 9}
  Configured = {1, 5}
  Masks <- PanelMasks
  SignAddress = 7
  MaxStates = 4
  Chars = {".", "[", "A", "B", "C", "D"}
  Reads <- SomeReads
  MAX_UART_CMD_SIZE = 4
  PartSlots = {1}
  PartAddresses = {1, 5}
  MaxSent = 2
  MaxClock = 16
  Clients = {a, b}
  Sockets = {5}
  Partitions = {0, 1}
  NoClient = nobody
  Values = {off, on}
  NoValue = none
  NoPartition = 99
  MaxWork = 1
  RingSize = 3
  QueueSize = 2
  MaxBytes = 2
  MaxLines = 5
INVARIANTS
  LookupFindsHome SlotsAreSeparate
  LineAsTyped
  LastCommandWins
  LogIsComplete
  ClientShowsPartition CommandIsForOwnPartition
PROPERTIES
  PanelIsSpared
CHECK_DEADLOCK FALSE
