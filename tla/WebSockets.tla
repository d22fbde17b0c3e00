------------------------------- MODULE WebSockets ------------------------------
(***************************************************************************)
(* The web sockets of the web interface.  The server's task answers one    *)
(* request at a time; a SYNC chooses the partition a connection follows    *)
(* and queues the sending of its state.  The parser's task sends each      *)
(* change, from its own callback, to the connections that follow it.       *)
(* A socket that is closed is given to the next connection.                *)
(*                                                                         *)
(* A partition is the slot a client names; a slot without an address, or   *)
(* whose address the panel has not been heard of, has no state. Addresses  *)
(* of slots stay as they are.                                              *)
(*                                                                         *)
(* External: the clients, which have passed the access list and the        *)
(* password where they are connected, the server library, the sockets, of  *)
(* which the one used last recently is closed when all are in use.         *)
(***************************************************************************)
EXTENDS Naturals, Sequences

CONSTANTS
  Clients, Sockets, Partitions,  \* Partitions: slots, of which 0 is the default
  Values,                        \* what a state says
  NoClient, NoPartition, NoValue,
  MaxWork                        \* bound on the work queued

ASSUME WebSocketsAssumption ==
  /\ NoClient \notin Clients /\ NoPartition \notin Partitions
  /\ NoValue \notin Values /\ Values # {}
  /\ 0 \in Partitions /\ MaxWork \in Nat \ {0}

VARIABLES
  uiConnected,    \* hal_get_network_connected()
  value,          \* the state of each partition, NoValue where there is none
  session,        \* session[f]: the connection on socket f
  work,           \* sockets whose state is to be sent
  frame,          \* what the server's task is about to send: {} or {[socket, part, value]}
  notify,         \* the partition the parser is telling about
  toTell,         \* the sockets it has still to look at
  chosen,         \* what it has found to follow the partition: {} or {[socket, seen]},
                  \* seen: the connection it saw on the socket
  asked,          \* asked[c]: partition of c's last SYNC on its connection
  shows,          \* shows[c]: the last frame c received on its connection
  command,        \* the command it is sending to the panel: {} or {[client, part]}
  missed,         \* clients that were not told or answered, the network being down
  overtaken,      \* clients that were told of a change while an older frame for them
                  \* was about to be sent
  misled          \* clients that were told of what the connection before theirs, or
                  \* they themselves before their last SYNC, had followed

panelState == <<uiConnected, value>>
serverTask == <<session, work, frame>>
parserTask == <<notify, toTell, chosen>>
clientView == <<asked, shows>>
wsHistory == <<missed, overtaken, misled>>
wsVars == <<panelState, serverTask, parserTask, clientView, command, wsHistory>>

NoSession == [client |-> NoClient, kind |-> "none", part |-> 0, synced |-> FALSE]
NoFrame   == [part |-> NoPartition, value |-> NoValue]

WsInit ==
  /\ uiConnected = TRUE
  /\ value \in [Partitions -> Values \cup {NoValue}]
  /\ session = [f \in Sockets |-> NoSession]
  /\ work = <<>> /\ frame = {}
  /\ notify = NoPartition /\ toTell = {} /\ chosen = {}
  /\ asked = [c \in Clients |-> NoPartition]
  /\ shows = [c \in Clients |-> NoFrame]
  /\ command = {}
  /\ missed = {} /\ overtaken = {} /\ misled = {}

--------------------------------------------------------------------------------
(* The server's task. *)

ServerIdle == frame = {} /\ command = {}

\* What client c knew of its connection is gone.
Forget(c) ==
  /\ asked' = [asked EXCEPT ![c] = NoPartition]
  /\ shows' = [shows EXCEPT ![c] = NoFrame]
  /\ missed' = missed \ {c} /\ overtaken' = overtaken \ {c} /\ misled' = misled \ {c}

\* Mutant: the socket's session is used again.
SessionKept(f, c) ==
  [session[f] EXCEPT !.client = c, !.kind = IF @ = "none" THEN "http" ELSE @]

NewSession(f, c) == [NoSession EXCEPT !.client = c, !.kind = "http"]

\* The socket is free, or its connection is closed for the new one.
Connects(c, f) ==
  /\ ServerIdle
  /\ \A g \in Sockets : session[g].client # c
  /\ session' = [session EXCEPT ![f] = NewSession(f, c)]
  /\ Forget(c)
  /\ UNCHANGED <<panelState, work, frame, parserTask, command>>

\* ad2ws_handler, GET: the session's storage is cleared memory.
Handshake(f) ==
  /\ ServerIdle
  /\ session[f].kind = "http"
  /\ session' = [session EXCEPT ![f].kind = "ws"]
  /\ UNCHANGED <<panelState, work, frame, parserTask, clientView, command, wsHistory>>

Closes(f) ==
  /\ ServerIdle
  /\ session[f].client # NoClient
  /\ session' = [session EXCEPT ![f] = NoSession]
  /\ Forget(session[f].client)
  /\ UNCHANGED <<panelState, work, frame, parserTask, command>>

\* ad2ws_handler, !SYNC:
Sync(f, p) ==
  /\ ServerIdle
  /\ session[f].kind = "ws"
  /\ Len(work) < MaxWork
  /\ session' = [session EXCEPT ![f].part = p, ![f].synced = TRUE]
  /\ asked' = [asked EXCEPT ![session[f].client] = p]
  /\ work' = Append(work, f)
  /\ UNCHANGED <<panelState, frame, parserTask, shows, command, wsHistory>>

\* ad2ws_handler, !SEND:
SendCommand(f) ==
  /\ ServerIdle
  /\ session[f].kind = "ws" /\ session[f].synced
  /\ command' = {[client |-> session[f].client, part |-> session[f].part]}
  /\ UNCHANGED <<panelState, serverTask, parserTask, clientView, wsHistory>>

CommandSent ==
  /\ command # {}
  /\ command' = {}
  /\ UNCHANGED <<panelState, serverTask, parserTask, clientView, wsHistory>>

\* ws_alarmstate_async_send, up to the JSON: nothing is sent for a partition that has
\* no state.
AlarmstateReads ==
  /\ ServerIdle /\ work # <<>>
  /\ work' = Tail(work)
  /\ LET f == Head(work)
         s == session[f]
     IN IF uiConnected /\ s.kind = "ws"
        THEN /\ frame' = IF value[s.part] = NoValue THEN {}
                         ELSE {[socket |-> f, part |-> s.part, value |-> value[s.part]]}
             /\ missed' = missed \ {s.client}
             /\ overtaken' = overtaken \ {s.client}
        ELSE /\ missed' = missed \cup ({s.client} \ {NoClient})
             /\ UNCHANGED <<frame, overtaken>>
  /\ UNCHANGED <<panelState, session, parserTask, clientView, command, misled>>

AlarmstateSends ==
  \E m \in frame :
    LET c == session[m.socket].client
    IN /\ frame' = {}
       /\ shows' = [shows EXCEPT ![c] = [part |-> m.part, value |-> m.value]]
       /\ misled' = misled \ {c}
       /\ UNCHANGED <<panelState, session, work, parserTask, asked, command, missed, overtaken>>

--------------------------------------------------------------------------------
(* The parser's task: webui_on_state_change. *)

ParserIdle == notify = NoPartition

Follows(s, p) == s.kind = "ws" /\ s.part = p

Followers(p) == {session[f].client : f \in {g \in Sockets : Follows(session[g], p)}}

StateChanges(p) ==
  /\ ParserIdle
  /\ \E v \in Values \ {value[p]} : value' = [value EXCEPT ![p] = v]
  /\ IF uiConnected
     THEN notify' = p /\ toTell' = Sockets /\ UNCHANGED missed
     ELSE missed' = missed \cup Followers(p) /\ UNCHANGED <<notify, toTell>>
  /\ UNCHANGED <<uiConnected, serverTask, chosen, clientView, command, overtaken, misled>>

\* Mutant: whoever has a web socket is told.
LooksAtNoPartition(f) ==
  /\ f \in toTell /\ chosen = {}
  /\ toTell' = toTell \ {f}
  /\ chosen' = IF session[f].kind = "ws" THEN {[socket |-> f, seen |-> session[f]]} ELSE {}
  /\ UNCHANGED <<panelState, serverTask, notify, clientView, command, wsHistory>>

\* httpd_ws_get_fd_info, httpd_sess_get_ctx
LooksAt(f) ==
  /\ f \in toTell /\ chosen = {}
  /\ toTell' = toTell \ {f}
  /\ chosen' = IF Follows(session[f], notify) THEN {[socket |-> f, seen |-> session[f]]} ELSE {}
  /\ UNCHANGED <<panelState, serverTask, notify, clientView, command, wsHistory>>

\* A frame older than the parser's is about to be sent to socket f.
Outdated(f) == \E m \in frame : m.socket = f /\ m.value # value[notify]

\* httpd_ws_send_frame_async: to who has the socket now.
Tell ==
  /\ \E t \in chosen :
       LET s == session[t.socket]
           c == s.client
       IN /\ shows' = IF s.kind # "ws" THEN shows
                       ELSE [shows EXCEPT ![c] = [part |-> notify, value |-> value[notify]]]
          /\ missed' = IF Follows(s, notify) THEN missed \ {c} ELSE missed
          /\ overtaken' = IF ~Follows(s, notify) THEN overtaken
                          ELSE IF Outdated(t.socket) THEN overtaken \cup {c}
                          ELSE overtaken \ {c}
          /\ misled' = IF Follows(s, notify) THEN misled \ {c}
                       ELSE IF s.kind = "ws" /\ s # t.seen THEN misled \cup {c}
                       ELSE misled
  /\ chosen' = {}
  /\ UNCHANGED <<panelState, serverTask, notify, toTell, asked, command>>

AllTold ==
  /\ ~ParserIdle /\ toTell = {} /\ chosen = {}
  /\ notify' = NoPartition
  /\ UNCHANGED <<panelState, serverTask, toTell, chosen, clientView, command, wsHistory>>

\* The network drops for less than the second after which the server is stopped.
UiNetwork ==
  /\ uiConnected' = ~uiConnected
  /\ UNCHANGED <<value, serverTask, parserTask, clientView, command, wsHistory>>

WsNext ==
  \/ \E f \in Sockets :
       \/ \E c \in Clients : Connects(c, f)
       \/ \E p \in Partitions : Sync(f, p)
       \/ Handshake(f) \/ Closes(f) \/ SendCommand(f) \/ LooksAt(f)
  \/ CommandSent \/ AlarmstateReads \/ AlarmstateSends \/ Tell \/ AllTold \/ UiNetwork
  \/ \E p \in Partitions : StateChanges(p)

WsSpec == WsInit /\ [][WsNext]_wsVars

--------------------------------------------------------------------------------
(* Properties. *)

\* When nothing is on its way, a connection that chose a partition with a state shows
\* that state, whoever used its socket before and whoever uses it meanwhile.  Two races
\* are the exception: a client that was told of a change while an older frame for it was
\* about to be sent may show the older state, of its own partition still; a frame for
\* what the client, or the one before it on the socket, followed when the parser looked
\* may be the last it got.  The next change or SYNC mends both, as it does for who
\* missed a frame while the network was down.
ClientShowsPartition ==
  frame = {} /\ work = <<>> /\ ParserIdle =>
    \A f \in Sockets :
      LET s == session[f] IN
      s.synced /\ value[s.part] # NoValue /\ s.client \notin missed \cup misled =>
        /\ shows[s.client].part = s.part
        /\ s.client \notin overtaken => shows[s.client].value = value[s.part]

\* A command goes to the partition its client, which is still there, chose on this
\* connection.
CommandIsForOwnPartition ==
  \A m \in command : m.client \in Clients /\ m.part = asked[m.client]
================================================================================
