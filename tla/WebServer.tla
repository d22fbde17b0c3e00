------------------------------- MODULE WebServer -------------------------------
(***************************************************************************)
(* The life of the web server: its task starts it when the network is      *)
(* there and stops it when the network has gone.  With HTTPS the server's  *)
(* own task counts the sessions it opens and closes, in a counter the      *)
(* first task clears while the sessions are still open.                    *)
(*                                                                         *)
(* External: the network, the certificate files, the server library, which *)
(* closes its sessions when it is stopped and may fail to start.           *)
(***************************************************************************)
EXTENDS Naturals

CONSTANTS MaxSessions    \* WEBUI_TLS_MAX_CLIENTS

ASSUME WebServerAssumption == MaxSessions \in Nat \ {0}

VARIABLES
  linkUp,          \* hal_get_network_connected()
  webStarted,      \* webui_server_task has seen the network layer start
  webTls,          \* webui_tls_enabled, read once at the start
  certificates,    \* webui_load_tls_material would succeed
  listening,       \* a server of the library exists
  webServer,       \* server # nullptr
  usesTls,         \* webui_server_uses_tls
  webStops,        \* the task is in httpd_stop or httpd_ssl_stop
  sessions,        \* webui_tls_sessions
  open,            \* the TLS sessions that are open
  counting         \* the callback between its read and its write: {} or {new value}

webVars == <<linkUp, webStarted, webTls, certificates, listening, webServer, usesTls,
             webStops, sessions, open, counting>>

WebInit ==
  /\ linkUp = FALSE /\ webStarted = FALSE
  /\ webTls \in BOOLEAN /\ certificates = webTls
  /\ listening = FALSE /\ webServer = FALSE /\ usesTls = FALSE /\ webStops = FALSE
  /\ sessions = 0 /\ open = 0 /\ counting = {}

--------------------------------------------------------------------------------
(* webui_server_task *)

NetifStarts ==
  /\ ~webStarted
  /\ webStarted' = TRUE
  /\ UNCHANGED <<linkUp, webTls, certificates, listening, webServer, usesTls, webStops,
                 sessions, open, counting>>

Startable == linkUp /\ (webTls => certificates)

Started ==
  /\ webStarted /\ ~webStops
  /\ ~webServer /\ Startable
  /\ listening' = TRUE /\ webServer' = TRUE /\ usesTls' = webTls
  /\ UNCHANGED <<linkUp, webStarted, webTls, certificates, webStops, sessions, open, counting>>

\* Mutant: the server that was stopped is not forgotten.
StopKeepsHandle ==
  /\ webStarted /\ ~webStops
  /\ webServer /\ ~linkUp
  /\ usesTls' = FALSE /\ sessions' = 0 /\ webStops' = TRUE
  /\ UNCHANGED <<linkUp, webStarted, webTls, certificates, listening, webServer, open, counting>>

\* The critical section: the handle and the counter are cleared first.
StopBegins ==
  /\ webStarted /\ ~webStops
  /\ webServer /\ ~linkUp
  /\ webServer' = FALSE /\ usesTls' = FALSE /\ sessions' = 0 /\ webStops' = TRUE
  /\ UNCHANGED <<linkUp, webStarted, webTls, certificates, listening, open, counting>>

\* The server's task leaves its loop: no session is opened any more.
StopTold ==
  /\ webStops /\ listening /\ counting = {}
  /\ listening' = FALSE
  /\ UNCHANGED <<linkUp, webStarted, webTls, certificates, webServer, usesTls, webStops,
                 sessions, open, counting>>

\* httpd_ssl_stop returns when every session is closed.
StopEnds ==
  /\ webStops /\ ~listening /\ open = 0 /\ counting = {}
  /\ webStops' = FALSE
  /\ UNCHANGED <<linkUp, webStarted, webTls, certificates, listening, webServer, usesTls,
                 sessions, open, counting>>

--------------------------------------------------------------------------------
(* webui_tls_session_callback, on the server's task. *)

\* The counter is unsigned and not read and written in one step.
SessionOpens ==
  /\ listening /\ webTls /\ counting = {} /\ open < MaxSessions
  /\ open' = open + 1
  /\ counting' = {sessions + 1}
  /\ UNCHANGED <<linkUp, webStarted, webTls, certificates, listening, webServer, usesTls,
                 webStops, sessions>>

SessionCloses ==
  /\ counting = {} /\ open > 0
  /\ open' = open - 1
  /\ counting' = IF sessions > 0 THEN {sessions - 1} ELSE {}
  /\ UNCHANGED <<linkUp, webStarted, webTls, certificates, listening, webServer, usesTls,
                 webStops, sessions>>

Counted ==
  /\ counting # {}
  /\ sessions' \in counting
  /\ counting' = {}
  /\ UNCHANGED <<linkUp, webStarted, webTls, certificates, listening, webServer, usesTls,
                 webStops, open>>

--------------------------------------------------------------------------------
WebWorld ==
  /\ \/ linkUp' = ~linkUp /\ UNCHANGED certificates
     \/ webTls /\ certificates' = ~certificates /\ UNCHANGED linkUp
  /\ UNCHANGED <<webStarted, webTls, listening, webServer, usesTls, webStops, sessions,
                 open, counting>>

ServerTask == NetifStarts \/ Started \/ StopBegins \/ StopTold \/ StopEnds

WebNext == ServerTask \/ SessionOpens \/ SessionCloses \/ Counted \/ WebWorld

\* The task sleeps for at most ten seconds.  The server looks at its control socket in
\* every round of its loop, between two sessions, and closes its sessions in the end.
WebFairness ==
  /\ WF_webVars(ServerTask) /\ SF_webVars(StopTold) /\ WF_webVars(Counted)
  /\ WF_webVars(~listening /\ SessionCloses)

WebSpec == WebInit /\ [][WebNext]_webVars /\ WebFairness

--------------------------------------------------------------------------------
(* Properties. *)

\* The counter of TLS sessions is right again once the server has stopped and whenever
\* the callback is not at work, though it is cleared while sessions are open and
\* while the callback may be between its read and its write.
SessionsAreCounted == ~webStops /\ counting = {} => sessions = open

\* A network that stays, with certificates where they are needed, has the server
\* listening in the end, however often it went before.
ServerComesBack == <>[]Startable => <>[](listening /\ webServer)
================================================================================
