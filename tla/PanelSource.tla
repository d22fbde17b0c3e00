------------------------------ MODULE PanelSource ------------------------------
(***************************************************************************)
(* How the panel's data reaches the parser: app_main up to g_init_done,    *)
(* the task that reads the AD2* source, a UART ('C') or the client socket  *)
(* of a ser2sock server ('S'), and the ad2term command, which stops that   *)
(* task and reads the source itself.                                       *)
(*                                                                         *)
(* External: the network, the server, the sockets.  A server that has      *)
(* closed the connection shows as a read of 0 bytes, a connection that     *)
(* broke as an error.                                                      *)
(***************************************************************************)
EXTENDS Integers

CONSTANTS
  TermUsers,      \* command lines that may run ad2term: the UART's, the network's
  MaxData         \* bound on the messages of the panel not yet read

ASSUME SourceAssumption == MaxData \in Nat

VARIABLES
  g_ad2_mode, g_init_done,
  startPc,                \* where app_main is
  g_StopMainTask,
  terminal,               \* terminal[u]: "off", "on", or "done", its loop left
  save_StopMainTask,      \* of the terminal of u
  srcConnected,           \* hal_get_network_connected()
  server,                 \* the server accepts connections
  srcPc,                  \* where the source's task is
  socket,                 \* "none", "open", "closed" by the server, "broken"
  g_ad2_client_handle,    \* whether it holds the socket (or the UART)
  data,                   \* messages of the panel waiting at the source
  fate                    \* history: what became of the last that were sent:
                          \* "none", "waits", "parsed", "printed", "lost"

starting == <<g_ad2_mode, g_init_done, startPc>>
terminals == <<terminal, save_StopMainTask>>
world    == <<srcConnected, server>>
link     == <<srcPc, socket, g_ad2_client_handle>>
panel    == <<data, fate>>
srcVars  == <<starting, g_StopMainTask, terminals, world, link, panel>>

SrcInit ==
  /\ g_ad2_mode \in {"C", "S"}
  /\ g_init_done = FALSE
  /\ startPc = "wait"
  /\ g_StopMainTask = 1
  /\ terminal = [u \in TermUsers |-> "off"]
  /\ save_StopMainTask = [u \in TermUsers |-> 0]
  /\ srcConnected = FALSE
  /\ server = TRUE
  /\ srcPc = IF g_ad2_mode = "C" THEN "idle" ELSE "unborn"
  /\ socket = "none"
  /\ g_ad2_client_handle = IF g_ad2_mode = "C" THEN "uart" ELSE "none"
  /\ data = 0
  /\ fate = "none"

--------------------------------------------------------------------------------
(* app_main *)

\* Three dots on the command line, see UartCli.
BootBreak ==
  /\ startPc = "wait" /\ g_StopMainTask = 1
  /\ g_StopMainTask' = 2
  /\ UNCHANGED <<starting, terminals, world, link, panel>>

BootWaitOver ==
  /\ startPc = "wait"
  /\ g_StopMainTask' = IF g_StopMainTask = 1 THEN 0 ELSE g_StopMainTask
  /\ startPc' = "halted"
  /\ UNCHANGED <<g_ad2_mode, g_init_done, terminals, world, link, panel>>

BootResumes ==
  /\ startPc = "halted" /\ g_StopMainTask = 0
  /\ startPc' = "init"
  /\ UNCHANGED <<g_ad2_mode, g_init_done, g_StopMainTask, terminals, world, link, panel>>

\* The network and the components have been started; the client's task is the last.
InitDone ==
  /\ startPc = "init"
  /\ startPc' = "done"
  /\ g_init_done' = TRUE
  /\ srcPc' = IF g_ad2_mode = "S" THEN "idle" ELSE srcPc
  /\ UNCHANGED <<g_ad2_mode, g_StopMainTask, terminals, world, socket,
                 g_ad2_client_handle, panel>>

--------------------------------------------------------------------------------
(* ad2uart_client_task and ser2sock_client_task *)

SrcStep(from, to) ==
  /\ srcPc = from
  /\ srcPc' = to
  /\ UNCHANGED <<starting, g_StopMainTask, terminals, world>>

\* What waits at the source leaves it.
Drained(how) ==
  /\ data' = 0
  /\ fate' = IF data > 0 THEN how ELSE fate

Running == g_init_done /\ g_StopMainTask = 0

UartRead ==
  /\ g_ad2_mode = "C"
  /\ Running /\ srcConnected
  /\ SrcStep("idle", "idle")
  /\ data > 0 /\ Drained("parsed")
  /\ UNCHANGED <<socket, g_ad2_client_handle>>

Connect ==
  /\ g_ad2_mode = "S"
  /\ srcConnected
  /\ SrcStep("idle", "loop")
  /\ server
  /\ socket' = "open"
  /\ g_ad2_client_handle' = "socket"
  /\ UNCHANGED panel

\* No server, no socket, or no host and port in the settings.
ConnectFails ==
  /\ g_ad2_mode = "S"
  /\ srcConnected
  /\ SrcStep("idle", "shut")
  /\ ~server
  /\ UNCHANGED <<socket, g_ad2_client_handle, panel>>

\* Mutant: an error is taken as if there were no data yet.
SocketErrorIgnored ==
  /\ SrcStep("loop", "net")
  /\ Running /\ socket = "broken"
  /\ UNCHANGED <<socket, g_ad2_client_handle, panel>>

\* recv() fails with another error than EAGAIN.
SocketError ==
  /\ SrcStep("loop", "shut")
  /\ Running /\ socket = "broken"
  /\ UNCHANGED <<socket, g_ad2_client_handle, panel>>

\* EAGAIN, data, or a length of 0, which is put into the parser as well.
SocketRead ==
  /\ SrcStep("loop", "net")
  /\ Running => socket # "broken"
  /\ IF Running THEN Drained("parsed") ELSE UNCHANGED panel
  /\ UNCHANGED <<socket, g_ad2_client_handle>>

NetTest ==
  /\ SrcStep("net", IF srcConnected THEN "loop" ELSE "shut")
  /\ UNCHANGED <<socket, g_ad2_client_handle, panel>>

\* Tried again after three seconds.
Shut ==
  /\ SrcStep("shut", "idle")
  /\ g_ad2_client_handle' = "none"
  /\ socket' = IF g_ad2_client_handle = "socket" THEN "none" ELSE socket
  /\ Drained("lost")

--------------------------------------------------------------------------------
(* ad2term *)

TermBegin(u) ==
  /\ terminal[u] = "off"
  /\ u = "network" => g_init_done
  /\ save_StopMainTask' = [save_StopMainTask EXCEPT ![u] = g_StopMainTask]
  /\ g_StopMainTask' = 2
  /\ terminal' = [terminal EXCEPT ![u] = "on"]
  /\ UNCHANGED <<starting, world, link, panel>>

\* What the source has is printed.  No error of the socket ends the loop.
TermRead(u) ==
  /\ terminal[u] = "on"
  /\ g_ad2_mode = "S" => srcConnected /\ socket # "broken"
  /\ data > 0 /\ Drained("printed")
  /\ UNCHANGED <<starting, g_StopMainTask, terminals, world, link>>

\* Three dots, or an error of the command line.
TermBreak(u) ==
  /\ terminal[u] = "on"
  /\ terminal' = [terminal EXCEPT ![u] = "done"]
  /\ UNCHANGED <<starting, g_StopMainTask, save_StopMainTask, world, link, panel>>

TermEnd(u) ==
  /\ terminal[u] = "done"
  /\ g_StopMainTask' = save_StopMainTask[u]
  /\ terminal' = [terminal EXCEPT ![u] = "off"]
  /\ UNCHANGED <<starting, save_StopMainTask, world, link, panel>>

--------------------------------------------------------------------------------
(* The panel, the server and the network. *)

PanelSends ==
  /\ data < MaxData
  /\ g_ad2_mode = "S" => socket = "open"
  /\ data' = data + 1
  /\ fate' = "waits"
  /\ UNCHANGED <<starting, g_StopMainTask, terminals, world, link>>

SocketEnds(how) ==
  /\ socket = "open"
  /\ socket' = how
  /\ UNCHANGED <<starting, g_StopMainTask, terminals, world, srcPc,
                 g_ad2_client_handle, panel>>

SrcNetwork ==
  /\ startPc \in {"init", "done"}
  /\ srcConnected' = ~srcConnected
  /\ UNCHANGED <<starting, g_StopMainTask, terminals, server, link, panel>>

Server ==
  /\ server' = ~server
  /\ UNCHANGED <<starting, g_StopMainTask, terminals, srcConnected, link, panel>>

Boot       == BootWaitOver \/ BootResumes \/ InitDone
SourceTask == UartRead \/ Connect \/ ConnectFails \/ SocketError \/ SocketRead
              \/ NetTest \/ Shut

SrcNext ==
  \/ BootBreak
  \/ Boot
  \/ SourceTask
  \/ \E u \in TermUsers : TermBegin(u) \/ TermRead(u) \/ TermBreak(u) \/ TermEnd(u)
  \/ PanelSends
  \/ SocketEnds("closed") \/ SocketEnds("broken")
  \/ SrcNetwork
  \/ Server

\* The tasks are scheduled; the user, the network and the server do as they like.
SrcFairness ==
  /\ WF_srcVars(Boot)
  /\ WF_srcVars(SourceTask)
  /\ \A u \in TermUsers : WF_srcVars(TermEnd(u))

SrcSpec == SrcInit /\ [][SrcNext]_srcVars /\ SrcFairness

--------------------------------------------------------------------------------
(* Properties. *)

\* No socket is lost: what is open is in g_ad2_client_handle, and a new one is
\* opened only when the last was closed, whatever failed.
NoSocketIsLost ==
  /\ socket # "none" => g_ad2_client_handle = "socket"
  /\ srcPc = "idle" => socket = "none"

Undisturbed ==
  srcConnected /\ server /\ g_init_done /\ \A u \in TermUsers : terminal[u] = "off"

\* Undisturbed, on a connection that lasts and that the task has not given up.
Calm == Undisturbed /\ socket \notin {"closed", "broken"} /\ srcPc # "shut"

\* What the panel sends reaches the parser, or its connection breaks or is disturbed
\* first: it is not thrown away, nor left at the source by a start or a terminal that
\* has ended.  And once network and server are there to stay the task is connected
\* again, after any number of broken connections.
DataReachesParser ==
  /\ fate = "waits" ~> fate = "parsed" \/ ~Calm
  /\ <>[](Undisturbed /\ socket # "closed" /\ g_ad2_mode = "S") => []<>(socket = "open")

\* "Connects and stays connected to ser2sock server": a connection closed by the
\* server is opened again.
StaysConnected ==
  <>[]Undisturbed => (socket = "closed" ~> socket # "closed")
================================================================================
