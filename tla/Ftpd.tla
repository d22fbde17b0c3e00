---------------------------------- MODULE Ftpd ---------------------------------
(***************************************************************************)
(* The FTP daemon.  One task serves one client at a time; another          *)
(* connection ends the one being served, between two of its commands.      *)
(*                                                                         *)
(* A path is a directory and a name.  External: the clients, which need    *)
(* not finish a line or a transfer they start, the sockets, the file       *)
(* system, whose answers are a choice.                                     *)
(***************************************************************************)
EXTENDS Integers

CONSTANTS
  FtpClients, Names, Dirs,  \* Dirs: absolute directories
  Root,                     \* the virtual root
  Nobody, NoPath

ASSUME FtpdAssumption ==
  Root \in Dirs /\ Nobody \notin FtpClients /\ NoPath \notin Dirs \X Names

VARIABLES
  backlog,         \* clients waiting to be accepted
  ftpClient,       \* the owner of m_clientSocket, Nobody where it is -1
  ftpPc,           \* "accept" | "loop" | "line" | "open" | "transfer"
  isPassive,       \* m_isPassive
  passiveSocket, dataSocket,          \* m_passiveSocket, m_dataSocket # -1
  ftpOpen,         \* sockets that are open besides the listening one
  supplied,        \* m_suppliedUserid = m_userid
  isAuthenticated, \* m_isAuthenticated
  lastCommand,     \* m_lastCommand
  save, saveClear, \* m_save, m_save_clear
  cwd,             \* ad2ftpd_cwd
  loggedIn,        \* clients that gave user and password on their connection
  chose,           \* the directory the client served chose
  named,           \* the path its last command named for a rename
  acted            \* the last work on a file: [client, op, path]

loginVars == <<supplied, isAuthenticated, lastCommand, loggedIn>>
dataVars  == <<isPassive, passiveSocket, dataSocket, ftpOpen>>
fileVars  == <<save, saveClear, cwd, chose, named, acted>>
ftpVars   == <<backlog, ftpClient, ftpPc, loginVars, dataVars, fileVars>>

FtpInit ==
  /\ backlog = {} /\ ftpClient = Nobody /\ ftpPc = "accept"
  /\ isPassive = FALSE /\ passiveSocket = FALSE /\ dataSocket = FALSE /\ ftpOpen = 0
  /\ supplied = FALSE /\ isAuthenticated = FALSE /\ lastCommand = "" /\ loggedIn = {}
  /\ save = NoPath /\ saveClear = 0 /\ cwd = Root /\ chose = Root /\ named = NoPath
  /\ acted = [client |-> Nobody, op |-> "", path |-> NoPath]

--------------------------------------------------------------------------------
(* Connections. *)

ClientConnects(c) ==
  /\ c # ftpClient /\ c \notin backlog
  /\ backlog' = backlog \cup {c}
  /\ UNCHANGED <<ftpClient, ftpPc, loginVars, dataVars, fileVars>>

One(b) == IF b THEN 1 ELSE 0

\* Mutant: the login is forgotten at the end of its session only.
CloseConnectionKeepsLogin ==
  /\ passiveSocket' = FALSE
  /\ ftpOpen' = ftpOpen - One(passiveSocket) - One(ftpClient # Nobody)
  /\ ftpClient' = Nobody
  /\ saveClear' = 0 /\ save' = NoPath /\ named' = NoPath
  /\ lastCommand' = "" /\ loggedIn' = loggedIn \ {ftpClient}
  /\ UNCHANGED isAuthenticated

\* closeConnection: m_isPassive, the user's name and the data port stay.
CloseConnection ==
  /\ passiveSocket' = FALSE
  /\ ftpOpen' = ftpOpen - One(passiveSocket) - One(ftpClient # Nobody)
  /\ ftpClient' = Nobody
  /\ saveClear' = 0 /\ save' = NoPath /\ named' = NoPath
  /\ isAuthenticated' = FALSE /\ lastCommand' = "" /\ loggedIn' = loggedIn \ {ftpClient}

\* waitForFTPClient: the address list allows c.
AcceptClient(c) ==
  /\ ftpPc = "accept" /\ c \in backlog
  /\ backlog' = backlog \ {c}
  /\ ftpClient' = c /\ ftpOpen' = ftpOpen + 1
  /\ cwd' = Root /\ chose' = Root
  /\ lastCommand' = "" /\ ftpPc' = "loop"
  /\ UNCHANGED <<supplied, isAuthenticated, loggedIn, isPassive, passiveSocket, dataSocket,
                 save, saveClear, named, acted>>

\* It does not: the commands of nobody are waited for.
RejectClient(c) ==
  /\ ftpPc = "accept" /\ c \in backlog
  /\ backlog' = backlog \ {c}
  /\ ftpPc' = "loop" /\ lastCommand' = ""
  /\ saveClear' = 0 /\ save' = NoPath /\ isAuthenticated' = FALSE
  /\ UNCHANGED <<ftpClient, supplied, loggedIn, dataVars, cwd, chose, named, acted>>

\* Mutant: the connection being served is not ended.
NextConnectionWaits ==
  /\ ftpPc = "loop" /\ backlog # {} /\ ftpClient = Nobody
  /\ CloseConnection
  /\ ftpPc' = "accept"
  /\ UNCHANGED <<backlog, isPassive, dataSocket, supplied, cwd, chose, acted>>

\* processCommand: another connection is there.
NextConnection ==
  /\ ftpPc = "loop" /\ backlog # {}
  /\ CloseConnection
  /\ ftpPc' = "accept"
  /\ UNCHANGED <<backlog, isPassive, dataSocket, supplied, cwd, chose, acted>>

\* The client has closed its connection.
ClientLeaves ==
  /\ ftpPc \in {"loop", "line"} /\ ftpClient # Nobody
  /\ CloseConnection
  /\ ftpPc' = "accept"
  /\ UNCHANGED <<backlog, isPassive, dataSocket, supplied, cwd, chose, acted>>

--------------------------------------------------------------------------------
(* Commands. *)

\* The first byte of a command, while nobody waits.  The rest of the line is waited
\* for without a limit, whoever connects meanwhile.
StartLine ==
  /\ ftpPc = "loop" /\ ftpClient # Nobody /\ backlog = {}
  /\ ftpPc' = "line"
  /\ UNCHANGED <<backlog, ftpClient, loginVars, dataVars, fileVars>>

\* The whole line is there.
Ready == ftpPc = "line" /\ ftpClient # Nobody

\* What is saved for a rename is still there for this command.
SaveLeft == saveClear # 0
Saved    == IF SaveLeft THEN save ELSE NoPath

\* Every command counts down; the count goes below zero and stays there.
Counts == saveClear' = (IF saveClear > 0 THEN saveClear - 1 ELSE -1)

\* A command that does nothing with what is saved.
PassesSave == Counts /\ save' = Saved /\ named' = NoPath

User(right) ==
  /\ Ready
  /\ supplied' = right /\ lastCommand' = "USER"
  /\ PassesSave
  /\ ftpPc' = "loop"
  /\ UNCHANGED <<backlog, ftpClient, isAuthenticated, loggedIn, dataVars, cwd,
                 chose, acted>>

PassRight ==
  /\ Ready
  /\ lastCommand = "USER" /\ supplied
  /\ PassesSave
  /\ isAuthenticated' = TRUE /\ loggedIn' = loggedIn \cup {ftpClient}
  /\ lastCommand' = "PASS"
  /\ ftpPc' = "loop"
  /\ UNCHANGED <<backlog, ftpClient, supplied, dataVars, cwd, chose, acted>>

\* The connection is closed; the loop goes on with nobody.
PassWrong ==
  /\ Ready
  /\ lastCommand = "USER"
  /\ CloseConnection
  /\ ftpPc' = "loop"
  /\ UNCHANGED <<backlog, isPassive, dataSocket, supplied, cwd, chose, acted>>

\* PASS out of turn, a command before the login, one that is unknown or only answers.
Answered ==
  /\ Ready
  /\ PassesSave
  /\ lastCommand' = "other"
  /\ ftpPc' = "loop"
  /\ UNCHANGED <<backlog, ftpClient, supplied, isAuthenticated, loggedIn, dataVars,
                 cwd, chose, acted>>

\* A command that needs the login.
Allowed == Ready /\ isAuthenticated /\ lastCommand' = "other"

Pasv(works) ==
  /\ Allowed
  /\ passiveSocket' = works
  /\ ftpOpen' = ftpOpen - One(passiveSocket) + One(works)
  /\ isPassive' = TRUE
  /\ PassesSave
  /\ ftpPc' = "loop"
  /\ UNCHANGED <<backlog, ftpClient, supplied, isAuthenticated, loggedIn, dataSocket,
                 cwd, chose, acted>>

Port ==
  /\ Allowed
  /\ isPassive' = FALSE
  /\ PassesSave
  /\ ftpPc' = "loop"
  /\ UNCHANGED <<backlog, ftpClient, supplied, isAuthenticated, loggedIn,
                 passiveSocket, dataSocket, ftpOpen, cwd, chose, acted>>

\* CWD, CDUP
Cwd(d) ==
  /\ Allowed
  /\ cwd' = d /\ chose' = d
  /\ PassesSave
  /\ ftpPc' = "loop"
  /\ UNCHANGED <<backlog, ftpClient, supplied, isAuthenticated, loggedIn, dataVars, acted>>

\* DELE, RMD, MKD
Works(n) ==
  /\ Allowed
  /\ acted' = [client |-> ftpClient, op |-> "change", path |-> <<cwd, n>>]
  /\ PassesSave
  /\ ftpPc' = "loop"
  /\ UNCHANGED <<backlog, ftpClient, supplied, isAuthenticated, loggedIn, dataVars,
                 cwd, chose>>

\* RNFR of a path that is there; one that is not is only answered.
Rnfr(n) ==
  /\ Allowed
  /\ save' = <<cwd, n>> /\ saveClear' = 1 /\ named' = <<cwd, n>>
  /\ ftpPc' = "loop"
  /\ UNCHANGED <<backlog, ftpClient, supplied, isAuthenticated, loggedIn, dataVars,
                 cwd, chose, acted>>

Rnto ==
  /\ Allowed
  /\ Saved # NoPath
  /\ acted' = [client |-> ftpClient, op |-> "rename", path |-> Saved]
  /\ PassesSave
  /\ ftpPc' = "loop"
  /\ UNCHANGED <<backlog, ftpClient, supplied, isAuthenticated, loggedIn, dataVars,
                 cwd, chose>>

\* QUIT, UPGD: the loop goes on with nobody.
Quit ==
  /\ Ready /\ isAuthenticated
  /\ CloseConnection
  /\ ftpPc' = "loop"
  /\ UNCHANGED <<backlog, isPassive, dataSocket, supplied, cwd, chose, acted>>

\* REST: the device starts again.
Rest ==
  /\ Ready /\ isAuthenticated
  /\ CloseConnection
  /\ ftpPc' = "accept"
  /\ isPassive' = FALSE /\ supplied' = FALSE /\ cwd' = Root /\ chose' = Root
  /\ UNCHANGED <<backlog, dataSocket, acted>>

--------------------------------------------------------------------------------
(* Transfers: LIST, RETR, STOR. *)

\* The file is opened first, the data connection after it.
Transfer(n) ==
  /\ Allowed
  /\ ftpPc' = "open"
  /\ acted' = [client |-> ftpClient, op |-> "transfer", path |-> <<cwd, n>>]
  /\ PassesSave
  /\ UNCHANGED <<backlog, ftpClient, supplied, isAuthenticated, loggedIn, dataVars, cwd, chose>>

\* openData; the passive socket has been used up.  Where it fails the command goes on.
OpenData(works) ==
  /\ ftpPc = "open"
  /\ IF isPassive
     THEN /\ dataSocket' = (works /\ passiveSocket)
          /\ passiveSocket' = FALSE
          /\ ftpOpen' = ftpOpen - One(passiveSocket) + One(dataSocket')
     ELSE dataSocket' = TRUE /\ ftpOpen' = ftpOpen + 1 /\ UNCHANGED passiveSocket
  /\ ftpPc' = "transfer"
  /\ UNCHANGED <<backlog, ftpClient, isPassive, loginVars, fileVars>>

\* closeData
EndOfData ==
  /\ ftpPc = "transfer"
  /\ dataSocket' = FALSE /\ ftpOpen' = ftpOpen - One(dataSocket)
  /\ ftpPc' = "loop"
  /\ UNCHANGED <<backlog, ftpClient, isPassive, passiveSocket, loginVars, fileVars>>

--------------------------------------------------------------------------------
FtpCommand ==
  \/ \E b \in BOOLEAN : User(b) \/ Pasv(b)
  \/ PassRight \/ PassWrong \/ Answered \/ Port \/ Quit \/ Rest \/ Rnto
  \/ \E d \in Dirs : Cwd(d)
  \/ \E n \in Names : Works(n) \/ Rnfr(n) \/ Transfer(n)

FtpNext ==
  \/ \E c \in FtpClients : ClientConnects(c) \/ AcceptClient(c) \/ RejectClient(c)
  \/ NextConnection \/ ClientLeaves \/ StartLine \/ FtpCommand
  \/ \E b \in BOOLEAN : OpenData(b)
  \/ EndOfData

\* The sockets are accepted in the order of their connection.
FtpTurn(c) == SF_ftpVars(AcceptClient(c) \/ RejectClient(c))
FtpTurns   == \A c \in FtpClients : FtpTurn(c)

\* openData waits for nobody: connect gives up by itself, accept without a socket fails.
OpensAlone == ~(isPassive /\ passiveSocket)
OpenAlone  == OpensAlone /\ \E b \in BOOLEAN : OpenData(b)

\* Without a data connection every recv and send fails at once.
EndAlone == ~dataSocket /\ EndOfData

\* The daemon waits for its client, without a limit: for the rest of a line, for a
\* connection to the passive socket, for the data of a transfer.
Held ==
  \/ ftpPc = "line"
  \/ ftpPc = "open" /\ ~OpensAlone
  \/ ftpPc = "transfer" /\ dataSocket

\* The task goes on where it does not wait for its client.
FtpFairness ==
  /\ WF_ftpVars(NextConnection) /\ WF_ftpVars(OpenAlone) /\ WF_ftpVars(EndAlone)
  /\ FtpTurns

FtpSpec == FtpInit /\ [][FtpNext]_ftpVars /\ FtpFairness

--------------------------------------------------------------------------------
(* Properties. *)

\* Work on a file is for a client that logged in on the connection being served, in
\* the directory it chose there; a rename is of the path that the command before it
\* named.
WorkIsForLogin ==
  [][acted' # acted /\ acted'.client # Nobody =>
       /\ acted'.client \in loggedIn
       /\ acted'.op # "rename" => acted'.path[1] = chose
       /\ acted'.op = "rename" => acted'.path = named]_ftpVars

\* Every open socket is the client's, the passive or the data socket.
FtpSocketsAreKnown ==
  ftpOpen = One(ftpClient # Nobody) + One(passiveSocket) + One(dataSocket)

\* Unless a client holds the daemon for ever in one of the calls that wait for it, every
\* client that has connected is accepted or turned away, though another is served: no
\* login, failed command, half-opened data connection or closed session keeps it out.
FtpClientIsServed ==
  []<>~Held => \A c \in FtpClients : c \in backlog ~> c \notin backlog
================================================================================
