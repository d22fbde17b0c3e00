------------------------------- MODULE NetworkCli ------------------------------
(***************************************************************************)
(* The network command line: a task that accepts one client at a time,     *)
(* reads its lines byte by byte, asks for the password, and runs commands  *)
(* whose output cli_set_io_socket() sends to the client instead of the     *)
(* UART.                                                                   *)
(*                                                                         *)
(* External: the sockets and the client.  A read times out every second,   *)
(* after which the network is tested again.                                *)
(***************************************************************************)
EXTENDS Naturals, Sequences

CONSTANTS
  Letters,          \* printable characters
  Password, Exit, Top, Term,  \* the password, the commands `exit', `top', `ad2term'
  MaxLine           \* longest line

ASSUME NetworkCliAssumption ==
  /\ MaxLine \in Nat \ {0}
  /\ Password \in Seq(Letters) /\ Password # <<>>
  /\ {Exit, Top, Term} \subseteq Seq(Letters)

VARIABLES
  netUp,            \* hal_get_network_connected()
  netPc,            \* "wait", "listen", "auth", "session", "command", "dialog", "leave"
  peer,             \* the client: "none", "open", "gone" (it closed)
  line,
  attempt,          \* lines compared with the password
  cli_socket_fd,    \* output and input of the task go to the client's socket
  network_cli_disconnect_requested,
  proved            \* the client sent the password

netVars == <<netUp, netPc, peer, line, attempt, cli_socket_fd,
             network_cli_disconnect_requested, proved>>

NetInit ==
  /\ netUp = FALSE
  /\ netPc = "wait"
  /\ peer = "none"
  /\ line = <<>>
  /\ attempt = 0
  /\ cli_socket_fd = FALSE
  /\ network_cli_disconnect_requested = FALSE
  /\ proved = FALSE

--------------------------------------------------------------------------------
(* network_cli_server_task *)

Listen ==
  /\ netPc = "wait" /\ netUp
  /\ netPc' = "listen"
  /\ UNCHANGED <<netUp, peer, line, attempt, cli_socket_fd,
                 network_cli_disconnect_requested, proved>>

StopListening ==
  /\ netPc = "listen" /\ ~netUp
  /\ netPc' = "wait"
  /\ UNCHANGED <<netUp, peer, line, attempt, cli_socket_fd,
                 network_cli_disconnect_requested, proved>>

\* A client the access list admits; others are closed at once.
Accept ==
  /\ netPc = "listen" /\ netUp
  /\ netPc' = "auth"
  /\ peer' = "open"
  /\ line' = <<>>
  /\ attempt' = 0
  /\ proved' = FALSE
  /\ UNCHANGED <<netUp, cli_socket_fd, network_cli_disconnect_requested>>

--------------------------------------------------------------------------------
(* _read_line *)

Reading == netPc \in {"auth", "session"}

\* A byte that ends no line; telnet commands and other bytes are dropped.
Typed(b) ==
  /\ Reading /\ netUp /\ peer = "open"
  /\ \/ /\ b \in Letters /\ Len(line) < MaxLine
        /\ line' = Append(line, b)
     \/ /\ b = "BS"
        /\ line' = IF line = <<>> THEN line ELSE SubSeq(line, 1, Len(line) - 1)
     \/ /\ b = "LF" /\ line = <<>>
        /\ UNCHANGED line
     \/ b = "IAC" /\ UNCHANGED line
  /\ UNCHANGED <<netUp, netPc, peer, attempt, cli_socket_fd,
                 network_cli_disconnect_requested, proved>>

EndsLine(b) == b \in {"CR", "^C"} \/ (b = "LF" /\ line # <<>>)

\* What the line is: an interrupt empties it.
LineRead(b) == IF b = "^C" THEN <<>> ELSE line

SetIoSocket   == cli_socket_fd' = TRUE
ClearIoSocket == cli_socket_fd' = FALSE

\* _authenticate, _handle_client: three attempts.
PasswordLine(b) ==
  /\ netPc = "auth" /\ netUp /\ peer = "open" /\ EndsLine(b)
  /\ attempt' = attempt + 1
  /\ line' = <<>>
  /\ IF LineRead(b) = Password
     THEN /\ netPc' = "session"
          /\ network_cli_disconnect_requested' = FALSE
          /\ SetIoSocket
          /\ proved' = TRUE
     ELSE /\ netPc' = IF attempt = 2 THEN "leave" ELSE "auth"
          /\ UNCHANGED <<network_cli_disconnect_requested, cli_socket_fd, proved>>
  /\ UNCHANGED <<netUp, peer>>

CommandLine(b) ==
  /\ netPc = "session" /\ netUp /\ peer = "open" /\ EndsLine(b)
  /\ line' = LineRead(b)
  /\ netPc' = IF LineRead(b) = <<>> THEN "session"
              ELSE IF LineRead(b) \in {Top, Term} THEN "dialog" ELSE "command"
  /\ UNCHANGED <<netUp, peer, attempt, cli_socket_fd,
                 network_cli_disconnect_requested, proved>>

TooLong ==
  /\ Reading /\ netUp /\ peer = "open"
  /\ Len(line) = MaxLine
  /\ netPc' = "leave"
  /\ UNCHANGED <<netUp, peer, line, attempt, cli_socket_fd,
                 network_cli_disconnect_requested, proved>>

\* Mutant: a read of 0 bytes is tried again.
ReadEndsWithNetwork ==
  /\ Reading
  /\ ~netUp
  /\ netPc' = "leave"
  /\ UNCHANGED <<netUp, peer, line, attempt, cli_socket_fd,
                 network_cli_disconnect_requested, proved>>

\* The client closed, or the network is gone.
ReadEnds ==
  /\ Reading
  /\ peer = "gone" \/ ~netUp
  /\ netPc' = "leave"
  /\ UNCHANGED <<netUp, peer, line, attempt, cli_socket_fd,
                 network_cli_disconnect_requested, proved>>

--------------------------------------------------------------------------------
(* _handle_client *)

\* The command has been run; `exit' asks for the end.
CommandDone ==
  /\ netPc = "command"
  /\ netPc' = IF line = Exit THEN "leave" ELSE "session"
  /\ network_cli_disconnect_requested' = (line = Exit)
  /\ line' = <<>>
  /\ UNCHANGED <<netUp, peer, attempt, cli_socket_fd, proved>>

\* `top' runs until a byte comes, `ad2term' until three dots, both until an error of
\* the socket.  The client's end is a read of 0 bytes, which is neither: nothing says
\* that they end.
DialogDone ==
  /\ netPc = "dialog"
  /\ netPc' = "session"
  /\ line' = <<>>
  /\ UNCHANGED <<netUp, peer, attempt, cli_socket_fd,
                 network_cli_disconnect_requested, proved>>

\* Mutant: the task keeps its socket.
LeaveKeepsSocket ==
  /\ netPc = "leave"
  /\ peer' = "none"
  /\ netPc' = "listen"
  /\ line' = <<>>
  /\ UNCHANGED <<netUp, attempt, cli_socket_fd, network_cli_disconnect_requested, proved>>

\* cli_clear_io_socket, then the client's socket is closed.
Leave ==
  /\ netPc = "leave"
  /\ ClearIoSocket
  /\ peer' = "none"
  /\ netPc' = "listen"
  /\ line' = <<>>
  /\ UNCHANGED <<netUp, attempt, network_cli_disconnect_requested, proved>>

--------------------------------------------------------------------------------

PeerCloses ==
  /\ peer = "open"
  /\ peer' = "gone"
  /\ UNCHANGED <<netUp, netPc, line, attempt, cli_socket_fd,
                 network_cli_disconnect_requested, proved>>

NetChange ==
  /\ netUp' = ~netUp
  /\ UNCHANGED <<netPc, peer, line, attempt, cli_socket_fd,
                 network_cli_disconnect_requested, proved>>

Bytes == Letters \cup {"BS", "CR", "LF", "^C", "IAC"}

NetTask == Listen \/ StopListening \/ ReadEnds \/ CommandDone \/ Leave

NetNext ==
  \/ NetTask
  \/ Accept
  \/ \E b \in Bytes : Typed(b) \/ PasswordLine(b) \/ CommandLine(b)
  \/ TooLong
  \/ DialogDone
  \/ PeerCloses
  \/ NetChange

\* The task is scheduled; nothing is expected of the client.
NetFairness == WF_netVars(NetTask)

NetSpec == NetInit /\ [][NetNext]_netVars /\ NetFairness

--------------------------------------------------------------------------------
(* Properties. *)

\* While the client's socket takes the task's output, it is open and its client
\* has given the password: no output goes to a socket closed, or opened since
\* for another client.
IoSocketIsProved ==
  cli_socket_fd => netPc \in {"session", "command", "dialog", "leave"} /\ proved

\* A client that goes away is noticed and the next one can come, whatever line, password
\* or command it left half way, unless it left `top' or `ad2term' running.
ClosedPeerIsLeft == peer = "gone" ~> (peer # "gone" \/ netPc = "dialog")
================================================================================
