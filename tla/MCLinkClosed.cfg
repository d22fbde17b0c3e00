SPECIFICATION Spec
CONSTANTS
  Printers = {cli, a, b}
  CliTask = cli
  NoTask = none
  TermUsers = {"uart"}
  MaxData = 2
  Letters = {"p", "q"}
  Password <- ThePassword
  Exit <- TheExit
  Top <- TheTop
  Term <- TheTerm
  MaxLine = 2
  MaxEvents = 4
  MaxUpdates = 2
  MaxOutbox = 2
  MaxSessions = 2
  FtpClients = {c, d}
  Names = {"n"}
  Dirs = {"/", "d"}
  Root = "/"
  Nobody = nobody
  NoPath = nopath
PROPERTIES StaysConnected
CHECK_DEADLOCK FALSE
