------------------------------- MODULE HostProofs ------------------------------
(***************************************************************************)
(* Proofs about the host's components, for every set of tasks and clients, *)
(* every password, timer and bound: the console lock, the source of the    *)
(* panel's data, the network command line, the bits of the network's       *)
(* state, the MQTT client, the web server, the FTP daemon and the panic    *)
(* buttons.  Each part states an inductive invariant of its component and  *)
(* what follows from it.                                                   *)
(***************************************************************************)
EXTENDS HostConsole, PanelSource, NetworkCli, NetworkLink, Mqtt, WebServer, Ftpd,
        PanicButtons, FiniteSetTheorems, SequenceTheorems, TLAPS

--------------------------------------------------------------------------------
(* The console lock. *)

ConTypeOK ==
  /\ g_ad2_console_mutex \in Printers \cup {NoTask}
  /\ LAST_OWNER \in Printers \cup {NoTask}
  /\ console_locked \in BOOLEAN
  /\ conPc \in [Printers -> {"idle", "check", "wait", "own", "lock", "write", "bare", "give", "clear"}]

\* The owner is right while it is being written; a flag that is set names the holder
\* of the mutex, or a task that has given the mutex and not yet cleared the flag.
OwnerHoldsMutex ==
  \A t \in Printers :
    /\ conPc[t] = "lock" => LAST_OWNER = t
    /\ console_locked /\ LAST_OWNER = t => g_ad2_console_mutex = t \/ conPc[t] = "clear"

ConInv == ConTypeOK /\ WriterHoldsConsole /\ OwnerHoldsMutex

LEMMA ConInitInv == ConInit => ConInv
  BY ConsoleAssumption DEF ConsoleAssumption, ConInit, ConInv, ConTypeOK, WriterHoldsConsole,
       OwnerHoldsMutex

LEMMA ConTypeStep == ConInv /\ [ConNext]_conVars => ConTypeOK'
  <1> SUFFICES ASSUME ConTypeOK, [ConNext]_conVars  PROVE ConTypeOK'
    BY DEF ConInv
  <1> USE ConsoleAssumption DEF ConsoleAssumption, ConTypeOK, Goto, Taken
  <1>1. CASE SpoolBegin  BY <1>1 DEF SpoolBegin
  <1>2. CASE SpoolEnd \/ WriteBare \/ BareEnd  BY <1>2 DEF SpoolEnd, WriteBare, BareEnd
  <1>3. ASSUME NEW t \in Printers,
               PrintHost(t) \/ Check(t) \/ Acquire(t) \/ TakeTimeout(t) \/ Own(t)
        PROVE ConTypeOK'
    BY <1>3 DEF PrintHost, Check, Acquire, TakeTimeout, Own
  <1>4. ASSUME NEW t \in Printers,
               Lock(t) \/ WriteEnd(t) \/ Give(t) \/ ClearLocked(t) \/ GiveForeign(t)
        PROVE ConTypeOK'
    BY <1>4 DEF Lock, WriteEnd, Give, ClearLocked, GiveForeign
  <1>5. CASE UNCHANGED conVars  BY <1>5 DEF conVars
  <1>6. QED  BY <1>1, <1>2, <1>3, <1>4, <1>5 DEF ConNext

LEMMA ConStep == ConInv /\ [ConNext]_conVars => ConInv'
  <1> SUFFICES ASSUME ConInv, [ConNext]_conVars, ConTypeOK'
               PROVE WriterHoldsConsole' /\ OwnerHoldsMutex'
    BY ConTypeStep DEF ConInv
  <1> USE ConsoleAssumption
      DEF ConsoleAssumption, ConInv, ConTypeOK, WriterHoldsConsole, OwnerHoldsMutex, Goto
  <1>1. CASE SpoolBegin  BY <1>1 DEF SpoolBegin
  <1>2. CASE SpoolEnd \/ WriteBare \/ BareEnd  BY <1>2 DEF SpoolEnd, WriteBare, BareEnd
  <1>3. ASSUME NEW t \in Printers, PrintHost(t)
        PROVE WriterHoldsConsole' /\ OwnerHoldsMutex'
    BY <1>3 DEF PrintHost
  <1>4. ASSUME NEW t \in Printers, Check(t)
        PROVE WriterHoldsConsole' /\ OwnerHoldsMutex'
    <2>1. console_locked /\ LAST_OWNER = t => g_ad2_console_mutex = t
      BY <1>4 DEF Check
    <2>2. QED  BY <1>4, <2>1 DEF Check, Taken
  <1>5. ASSUME NEW t \in Printers, Acquire(t)
        PROVE WriterHoldsConsole' /\ OwnerHoldsMutex'
    BY <1>5 DEF Acquire
  <1>6. ASSUME NEW t \in Printers, TakeTimeout(t)
        PROVE WriterHoldsConsole' /\ OwnerHoldsMutex'
    BY <1>6 DEF TakeTimeout
  <1>7. ASSUME NEW t \in Printers, Own(t)
        PROVE WriterHoldsConsole' /\ OwnerHoldsMutex'
    BY <1>7 DEF Own
  <1>8. ASSUME NEW t \in Printers, Lock(t)
        PROVE WriterHoldsConsole' /\ OwnerHoldsMutex'
    BY <1>8 DEF Lock, Taken
  <1>9. ASSUME NEW t \in Printers, WriteEnd(t)
        PROVE WriterHoldsConsole' /\ OwnerHoldsMutex'
    BY <1>9 DEF WriteEnd
  <1>10. ASSUME NEW t \in Printers, Give(t)
         PROVE WriterHoldsConsole' /\ OwnerHoldsMutex'
    BY <1>10 DEF Give
  <1>11. ASSUME NEW t \in Printers, ClearLocked(t)
         PROVE WriterHoldsConsole' /\ OwnerHoldsMutex'
    BY <1>11 DEF ClearLocked
  <1>12. ASSUME NEW t \in Printers, GiveForeign(t)
         PROVE WriterHoldsConsole' /\ OwnerHoldsMutex'
    BY <1>12 DEF GiveForeign
  <1>13. CASE UNCHANGED conVars  BY <1>13 DEF conVars
  <1>14. QED
    BY <1>1, <1>2, <1>3, <1>4, <1>5, <1>6, <1>7, <1>8, <1>9, <1>10, <1>11, <1>12, <1>13
       DEF ConNext

\* A task that prints a line holds the console's mutex, and the command line keeps it up
\* to the first line it prints itself, for any number of tasks.
THEOREM ConsoleHasOneWriter == ConSpec => []WriterHoldsConsole
  <1>1. ConInv => WriterHoldsConsole  BY DEF ConInv
  <1>2. QED  BY ConInitInv, ConStep, <1>1, PTL DEF ConSpec

--------------------------------------------------------------------------------
(* The source of the panel's data. *)

\* A socket that is open is in the handle, and there is none before the task connects,
\* which it does not do before the start is done.
SrcInv ==
  /\ NoSocketIsLost
  /\ srcPc = "unborn" => socket = "none"
  /\ startPc # "done" /\ g_ad2_mode = "S" => srcPc = "unborn"

LEMMA SrcStepInv == SrcInv /\ [SrcNext]_srcVars => SrcInv'
  <1> SUFFICES ASSUME SrcInv, [SrcNext]_srcVars  PROVE SrcInv'
    OBVIOUS
  <1> USE DEF SrcInv, NoSocketIsLost, SrcStep, starting, terminals, world, link
  <1>1. CASE BootBreak \/ BootWaitOver \/ BootResumes
    BY <1>1 DEF BootBreak, BootWaitOver, BootResumes
  <1>2. CASE InitDone  BY <1>2 DEF InitDone
  <1>3. CASE UartRead  BY <1>3 DEF UartRead
  <1>4. CASE Connect  BY <1>4 DEF Connect
  <1>5. CASE ConnectFails  BY <1>5 DEF ConnectFails
  <1>6. CASE SocketError \/ SocketRead  BY <1>6 DEF SocketError, SocketRead
  <1>7. CASE NetTest  BY <1>7 DEF NetTest
  <1>8. CASE Shut  BY <1>8 DEF Shut
  <1>9. ASSUME NEW u \in TermUsers, TermBegin(u) \/ TermRead(u) \/ TermBreak(u) \/ TermEnd(u)
        PROVE SrcInv'
    BY <1>9 DEF TermBegin, TermRead, TermBreak, TermEnd
  <1>10. CASE PanelSends \/ SrcNetwork \/ Server
    BY <1>10 DEF PanelSends, SrcNetwork, Server
  <1>11. CASE SocketEnds("closed") \/ SocketEnds("broken")  BY <1>11 DEF SocketEnds
  <1>12. CASE UNCHANGED srcVars  BY <1>12 DEF srcVars
  <1>13. QED
    BY <1>1, <1>2, <1>3, <1>4, <1>5, <1>6, <1>7, <1>8, <1>9, <1>10, <1>11, <1>12
       DEF SrcNext, Boot, SourceTask

\* No socket to the ser2sock server is lost, whatever fails and whatever is interrupted
\* by the terminals.
THEOREM SourceLosesNoSocket == SrcSpec => []NoSocketIsLost
  <1>1. SrcInit => SrcInv  BY DEF SrcInit, SrcInv, NoSocketIsLost
  <1>2. SrcInv => NoSocketIsLost  BY DEF SrcInv
  <1>3. QED  BY <1>1, <1>2, SrcStepInv, PTL DEF SrcSpec

\* The source is settled, and its task has something to do: it can take a step that
\* counts for its fairness.
SourceReady ==
  /\ Running /\ srcConnected /\ server
  /\ g_ad2_mode = "S" \/ data > 0

SourceTaskEnabled == SourceReady => ENABLED <<SourceTask>>_srcVars

\* Two terminals may give back the source in the wrong order.
OneTerminal == \A u, v \in TermUsers : u = v

\* The task of a UART waits in one place, that of a socket begins after the start, and
\* reads only while it has a socket; what was sent and not yet taken is there.
SourceAt ==
  /\ data \in Nat
  /\ g_ad2_mode \in {"C", "S"}
  /\ g_ad2_mode = "C" => srcPc = "idle"
  /\ srcPc \in {"unborn", "idle", "loop", "net", "shut"}
  /\ g_init_done => srcPc # "unborn"
  /\ startPc # "done" /\ g_ad2_mode = "S" => srcPc = "unborn"
  /\ g_ad2_mode = "S" /\ srcPc \in {"unborn", "idle"} => data = 0 /\ socket = "none"
  /\ srcPc \in {"loop", "net"} => socket \in {"open", "closed", "broken"}
  /\ socket # "none" => g_ad2_client_handle = "socket"
  /\ fate = "waits" => data > 0

\* The terminal that is not off has stopped the source, and gives back what it found.
Restored ==
  /\ startPc \in {"wait", "halted", "init", "done"}
  /\ g_init_done <=> startPc = "done"
  /\ terminal \in [TermUsers -> {"off", "on", "done"}]
  /\ save_StopMainTask \in [TermUsers -> Nat]
  /\ \A u \in TermUsers : terminal[u] # "off" => g_StopMainTask = 2
  /\ startPc \in {"init", "done"} =>
       IF \A u \in TermUsers : terminal[u] = "off" THEN g_StopMainTask = 0
       ELSE \A u \in TermUsers : terminal[u] # "off" => save_StopMainTask[u] = 0
  /\ g_StopMainTask \in Nat

SourceInv == SourceAt /\ Restored

\* Every step keeps both.
LEMMA SourceStep ==
  ASSUME OneTerminal, SourceInv, [SrcNext]_srcVars
  PROVE  SourceInv'
  <1> USE DEF SourceInv, SourceAt, Restored, SrcStep, Drained, starting, terminals, world,
              link, panel
  <1>1. CASE BootBreak \/ BootWaitOver \/ BootResumes
    BY <1>1 DEF BootBreak, BootWaitOver, BootResumes
  <1>2. CASE InitDone  BY <1>2 DEF InitDone
  <1>3. CASE SourceTask
    <2>1. CASE UartRead  BY <2>1 DEF UartRead
    <2>2. CASE Connect \/ ConnectFails  BY <2>2 DEF Connect, ConnectFails
    <2>3. CASE SocketError  BY <2>3 DEF SocketError
    <2>4. CASE SocketRead  BY <2>4 DEF SocketRead
    <2>5. CASE NetTest  BY <2>5 DEF NetTest
    <2>6. CASE Shut  BY <2>6 DEF Shut
    <2>7. QED  BY <1>3, <2>1, <2>2, <2>3, <2>4, <2>5, <2>6 DEF SourceTask
  <1>4. ASSUME NEW u \in TermUsers, TermBegin(u)  PROVE SourceInv'
    BY <1>4 DEF TermBegin, OneTerminal
  <1>5. ASSUME NEW u \in TermUsers, TermRead(u)  PROVE SourceInv'
    BY <1>5 DEF TermRead
  <1>6. ASSUME NEW u \in TermUsers, TermBreak(u)  PROVE SourceInv'
    BY <1>6 DEF TermBreak, OneTerminal
  <1>7. ASSUME NEW u \in TermUsers, TermEnd(u)  PROVE SourceInv'
    BY <1>7 DEF TermEnd, OneTerminal
  <1>8. CASE PanelSends \/ SrcNetwork \/ Server
    BY <1>8 DEF PanelSends, SrcNetwork, Server
  <1>9. CASE SocketEnds("closed") \/ SocketEnds("broken")  BY <1>9 DEF SocketEnds
  <1>10. CASE UNCHANGED srcVars  BY <1>10 DEF srcVars
  <1>11. QED
    BY <1>1, <1>2, <1>3, <1>4, <1>5, <1>6, <1>7, <1>8, <1>9, <1>10
       DEF SrcNext, Boot

\* The panel's data waits, with the task of a source of one kind at one place.
Pending(mode, pc) == fate = "waits" /\ g_ad2_mode = mode /\ srcPc = pc

\* Where what waits may be after any step, while nothing disturbs.
LEMMA CalmStep ==
  ASSUME SourceInv, Calm, Calm', [SrcNext]_srcVars
  PROVE  /\ Pending("C", "idle") => Pending("C", "idle")' \/ (fate = "parsed")'
         /\ Pending("S", "loop") => Pending("S", "loop")' \/ (fate = "parsed")'
         /\ Pending("S", "net") => Pending("S", "net")' \/ Pending("S", "loop")'
  <1> USE DEF SourceInv, SourceAt, Calm, Undisturbed, Pending, SrcStep, Drained, starting,
              terminals, world, link, panel
  <1>1. CASE Boot \/ BootBreak
    BY <1>1 DEF Boot, BootBreak, BootWaitOver, BootResumes, InitDone, Restored
  <1>2. CASE SourceTask
    <2>1. Running  BY DEF Running, Restored
    <2>2. CASE UartRead \/ Connect \/ ConnectFails
      BY <2>2 DEF UartRead, Connect, ConnectFails
    <2>3. CASE SocketError \/ SocketRead  BY <2>1, <2>3 DEF SocketError, SocketRead
    <2>4. CASE NetTest \/ Shut  BY <2>4 DEF NetTest, Shut
    <2>5. QED  BY <1>2, <2>2, <2>3, <2>4 DEF SourceTask
  <1>3. ASSUME NEW u \in TermUsers, TermBegin(u) \/ TermRead(u) \/ TermBreak(u) \/ TermEnd(u)
        PROVE  FALSE
    BY <1>3 DEF TermBegin, TermRead, TermBreak, TermEnd, Restored
  <1>4. CASE PanelSends \/ SocketEnds("broken")  BY <1>4 DEF PanelSends, SocketEnds
  <1>5. CASE SrcNetwork \/ Server \/ SocketEnds("closed")
    BY <1>5 DEF SrcNetwork, Server, SocketEnds
  <1>6. CASE UNCHANGED srcVars  BY <1>6 DEF srcVars
  <1>7. QED  BY <1>1, <1>2, <1>3, <1>4, <1>5, <1>6 DEF SrcNext

\* After a step of the task what waited is parsed, or is at the place of the read.
LEMMA CalmTask ==
  ASSUME SourceInv, Calm, Calm', SourceTask
  PROVE  /\ Pending("C", "idle") => (fate = "parsed")'
         /\ Pending("S", "loop") => (fate = "parsed")'
         /\ Pending("S", "net") => Pending("S", "loop")'
  <1>1. Running
    BY DEF SourceInv, Restored, Calm, Undisturbed, Running
  <1> USE DEF SourceInv, SourceAt, Calm, Undisturbed, Pending, SrcStep, Drained, starting,
              panel
  <1>2. CASE UartRead \/ Connect \/ ConnectFails
    BY <1>2 DEF UartRead, Connect, ConnectFails
  <1>3. CASE SocketError \/ SocketRead  BY <1>1, <1>3 DEF SocketError, SocketRead
  <1>4. CASE NetTest \/ Shut  BY <1>4 DEF NetTest, Shut
  <1>5. QED  BY <1>2, <1>3, <1>4 DEF SourceTask

\* The task that reads a socket is at this place and has no connection that is open.
Away(pc) == socket # "open" /\ srcPc = pc

Settled == Undisturbed /\ socket # "closed" /\ g_ad2_mode = "S"

\* The places of a task without a connection, while the network and the server stay:
\* with one that broke it tries to read, closes it, and connects.
LEMMA AwayStep ==
  ASSUME SourceInv, Settled, Settled', [SrcNext]_srcVars
  PROVE  /\ Away("idle") => Away("idle")' \/ (socket = "open")'
         /\ Away("shut") => Away("shut")' \/ Away("idle")'
         /\ Away("loop") => Away("loop")' \/ Away("shut")'
         /\ Away("net") => Away("net")' \/ Away("loop")'
  <1> USE DEF SourceInv, SourceAt, Settled, Undisturbed, Away, SrcStep, starting,
              terminals, world, link
  <1>1. CASE Boot \/ BootBreak
    BY <1>1 DEF Boot, BootBreak, BootWaitOver, BootResumes, InitDone, Restored
  <1>2. CASE SourceTask
    <2>1. Running  BY DEF Running, Restored
    <2>2. CASE UartRead \/ Connect \/ ConnectFails
      BY <2>2 DEF UartRead, Connect, ConnectFails
    <2>3. CASE SocketError \/ SocketRead  BY <2>1, <2>3 DEF SocketError, SocketRead
    <2>4. CASE NetTest \/ Shut  BY <2>4 DEF NetTest, Shut
    <2>5. QED  BY <1>2, <2>2, <2>3, <2>4 DEF SourceTask
  <1>3. ASSUME NEW u \in TermUsers, TermBegin(u) \/ TermRead(u) \/ TermBreak(u) \/ TermEnd(u)
        PROVE  FALSE
    BY <1>3 DEF TermBegin, TermRead, TermBreak, TermEnd, Restored
  <1>4. CASE PanelSends \/ SocketEnds("broken")  BY <1>4 DEF PanelSends, SocketEnds
  <1>5. CASE SrcNetwork \/ Server \/ SocketEnds("closed")
    BY <1>5 DEF SrcNetwork, Server, SocketEnds
  <1>6. CASE UNCHANGED srcVars  BY <1>6 DEF srcVars
  <1>7. QED  BY <1>1, <1>2, <1>3, <1>4, <1>5, <1>6 DEF SrcNext

\* A step of the task leaves the place.
LEMMA AwayTask ==
  ASSUME SourceInv, Settled, Settled', SourceTask
  PROVE  /\ Away("idle") => (socket = "open")'
         /\ Away("shut") => Away("idle")'
         /\ Away("loop") => Away("shut")'
         /\ Away("net") => Away("loop")'
  <1>1. Running
    BY DEF SourceInv, Restored, Settled, Undisturbed, Running
  <1> USE DEF SourceInv, SourceAt, Settled, Undisturbed, Away, SrcStep, starting
  <1>2. CASE UartRead \/ Connect \/ ConnectFails
    BY <1>2 DEF UartRead, Connect, ConnectFails
  <1>3. CASE SocketError \/ SocketRead  BY <1>1, <1>3 DEF SocketError, SocketRead
  <1>4. CASE NetTest \/ Shut  BY <1>4 DEF NetTest, Shut
  <1>5. QED  BY <1>2, <1>3, <1>4 DEF SourceTask

\* What the panel sends reaches the parser, for either source, unless its connection
\* breaks or it is disturbed: after at most one test of the network a read takes it,
\* and nothing else does.  And the task connects again however many connections broke,
\* once the network and the server are there to stay.
THEOREM DataReached ==
  ASSUME OneTerminal
  PROVE  SrcSpec /\ []SourceTaskEnabled => DataReachesParser
  <1> DEFINE Waits == fate = "waits"
             Parsed == fate = "parsed"
             Open == socket = "open"
             PU == Pending("C", "idle")
             PL == Pending("S", "loop")
             PN == Pending("S", "net")
             AI == Away("idle")
             AS == Away("shut")
             AL == Away("loop")
             AN == Away("net")
  <1>1. SrcInit => SourceInv
    BY DEF SrcInit, SourceInv, SourceAt, Restored
  <1>2. SourceInv /\ [SrcNext]_srcVars => SourceInv'
    BY SourceStep
  <1>3. SourceInv /\ Calm /\ Waits => (PU \/ PL \/ PN) /\ SourceReady
    BY DEF SourceInv, SourceAt, Restored, Calm, Undisturbed, Pending, SourceReady, Running
  <1>4. SourceInv /\ Calm /\ Calm' /\ [SrcNext]_srcVars =>
          /\ PU => PU' \/ Parsed'
          /\ PL => PL' \/ Parsed'
          /\ PN => PN' \/ PL'
    BY CalmStep
  <1>5. SourceInv /\ Calm /\ Calm' /\ <<SourceTask>>_srcVars =>
          /\ PU => Parsed'
          /\ PL => Parsed'
          /\ PN => PL'
    BY CalmTask
  <1>6. PU \/ PL \/ PN => Waits  BY DEF Pending
  <1>7. SourceInv /\ Settled => SourceReady /\ (Open \/ AI \/ AS \/ AL \/ AN)
    BY DEF SourceInv, SourceAt, Restored, Settled, Undisturbed, SourceReady, Running, Away
  <1>8. SourceInv /\ Settled /\ Settled' /\ [SrcNext]_srcVars =>
          /\ AI => AI' \/ Open'
          /\ AS => AS' \/ AI'
          /\ AL => AL' \/ AS'
          /\ AN => AN' \/ AL'
    BY AwayStep
  <1>9. SourceInv /\ Settled /\ Settled' /\ <<SourceTask>>_srcVars =>
          /\ AI => Open'
          /\ AS => AI'
          /\ AL => AS'
          /\ AN => AL'
    BY AwayTask
  <1>10. Settled <=> Undisturbed /\ socket # "closed" /\ g_ad2_mode = "S"  BY DEF Settled
  <1>11. (Waits <=> fate = "waits") /\ (Parsed <=> fate = "parsed") /\ (Open <=> socket = "open")
    OBVIOUS
  <1> HIDE DEF Waits, Parsed, Open, PU, PL, PN, AI, AS, AL, AN
  <1>12. SrcSpec /\ []SourceTaskEnabled => (Waits ~> Parsed \/ ~Calm)
    BY <1>1, <1>2, <1>3, <1>4, <1>5, <1>6, PTL DEF SrcSpec, SrcFairness, SourceTaskEnabled
  <1>13. SrcSpec /\ []SourceTaskEnabled => (<>[]Settled => []<>Open)
    BY <1>1, <1>2, <1>7, <1>8, <1>9, PTL DEF SrcSpec, SrcFairness, SourceTaskEnabled
  <1>14. QED
    BY <1>10, <1>11, <1>12, <1>13, PTL DEF DataReachesParser

--------------------------------------------------------------------------------
(* The network command line. *)

\* The task's output goes to a socket only while the client that owns it has proved
\* itself, for every password and every sequence of bytes.
THEOREM IoSocketProved == NetSpec => []IoSocketIsProved
  <1>1. NetInit => IoSocketIsProved  BY DEF NetInit, IoSocketIsProved
  <1>2. IoSocketIsProved /\ [NetNext]_netVars => IoSocketIsProved'
    <2> SUFFICES ASSUME IoSocketIsProved, [NetNext]_netVars  PROVE IoSocketIsProved'
      OBVIOUS
    <2> USE DEF IoSocketIsProved, Reading
    <2>1. CASE Listen \/ StopListening \/ Accept
      BY <2>1 DEF Listen, StopListening, Accept
    <2>2. ASSUME NEW b \in Bytes, Typed(b)  PROVE IoSocketIsProved'
      BY <2>2 DEF Typed
    <2>3. ASSUME NEW b \in Bytes, PasswordLine(b)  PROVE IoSocketIsProved'
      BY <2>3 DEF PasswordLine, SetIoSocket
    <2>4. ASSUME NEW b \in Bytes, CommandLine(b)  PROVE IoSocketIsProved'
      BY <2>4 DEF CommandLine
    <2>5. CASE TooLong \/ ReadEnds  BY <2>5 DEF TooLong, ReadEnds
    <2>6. CASE CommandDone \/ DialogDone  BY <2>6 DEF CommandDone, DialogDone
    <2>7. CASE Leave  BY <2>7 DEF Leave, ClearIoSocket
    <2>8. CASE PeerCloses \/ NetChange \/ UNCHANGED netVars
      BY <2>8 DEF PeerCloses, NetChange, netVars
    <2>9. QED
      BY <2>1, <2>2, <2>3, <2>4, <2>5, <2>6, <2>7, <2>8 DEF NetNext, NetTask
  <1>3. QED  BY <1>1, <1>2, PTL DEF NetSpec

\* The task can take a step that counts for its fairness.
NetTaskReady ==
  \/ netPc = "wait" /\ netUp
  \/ netPc = "listen" /\ ~netUp
  \/ Reading /\ (peer = "gone" \/ ~netUp)
  \/ netPc \in {"command", "leave"}

NetTaskEnabled == NetTaskReady => ENABLED <<NetTask>>_netVars

\* Nobody is connected before a client has been accepted.
PeerInv ==
  /\ netPc \in {"wait", "listen", "auth", "session", "command", "dialog", "leave"}
  /\ netPc \in {"wait", "listen"} => peer = "none"

GoneAt(pcs) == peer = "gone" /\ netPc \in pcs
PeerLeft    == peer # "gone" \/ netPc = "dialog"

\* A client that has closed its end is left: a command that runs ends, the read after it
\* fails, and the task leaves, from every place but the dialogs.
THEOREM ClosedPeerLeft == NetSpec /\ []NetTaskEnabled => ClosedPeerIsLeft
  <1> DEFINE AtCommand == GoneAt({"command"})
             AtRead    == GoneAt({"auth", "session"})
             AtEnd     == GoneAt({"leave"})
  <1> USE DEF GoneAt, PeerLeft, Reading
  <1>1. NetInit => PeerInv  BY DEF NetInit, PeerInv
  <1>2. PeerInv /\ [NetNext]_netVars => PeerInv'
    BY DEF PeerInv, NetNext, NetTask, Listen, StopListening, Accept, Typed, PasswordLine,
           CommandLine, TooLong, ReadEnds, CommandDone, DialogDone, Leave, PeerCloses,
           NetChange, netVars
  <1>3. PeerInv => AtCommand \/ AtRead \/ AtEnd \/ PeerLeft
    BY DEF PeerInv
  <1>4. [NetNext]_netVars =>
          /\ AtCommand => AtCommand' \/ AtRead' \/ AtEnd'
          /\ AtRead => AtRead' \/ AtEnd'
          /\ AtEnd => AtEnd' \/ PeerLeft'
    BY DEF NetNext, NetTask, Listen, StopListening, Accept, Typed, PasswordLine,
           CommandLine, TooLong, ReadEnds, CommandDone, DialogDone, Leave, PeerCloses,
           NetChange, netVars
  <1>5. <<NetTask>>_netVars =>
          /\ AtCommand => AtRead' \/ AtEnd'
          /\ AtRead => AtEnd'
          /\ AtEnd => PeerLeft'
    BY DEF NetTask, Listen, StopListening, ReadEnds, CommandDone, Leave
  <1>6. AtCommand \/ AtRead \/ AtEnd => NetTaskReady
    BY DEF NetTaskReady
  <1>7. PeerLeft <=> peer # "gone" \/ netPc = "dialog"
    OBVIOUS
  <1> HIDE DEF AtCommand, AtRead, AtEnd, PeerLeft
  <1>8. QED
    BY <1>1, <1>2, <1>3, <1>4, <1>5, <1>6, <1>7, PTL
       DEF NetSpec, NetFairness, NetTaskEnabled, ClosedPeerIsLeft

--------------------------------------------------------------------------------
(* The web server. *)

\* The counter never exceeds the sessions, nor does what the callback is about to
\* write; both are exact unless the server is being stopped.
WebInv ==
  /\ sessions \in Nat /\ open \in Nat
  /\ counting = {} => sessions <= open
  /\ counting = {} /\ ~webStops => sessions = open
  /\ \A n \in counting : n \in Nat /\ n <= open /\ (~webStops => n = open)

LEMMA WebStep == WebInv /\ [WebNext]_webVars => WebInv'
  <1> SUFFICES ASSUME WebInv, [WebNext]_webVars  PROVE WebInv'
    OBVIOUS
  <1> USE DEF WebInv
  <1>1. CASE NetifStarts \/ Started \/ StopTold \/ WebWorld
    BY <1>1 DEF NetifStarts, Started, StopTold, WebWorld
  <1>2. CASE StopBegins  BY <1>2 DEF StopBegins
  <1>3. CASE StopEnds  BY <1>3 DEF StopEnds
  <1>4. CASE SessionOpens  BY <1>4 DEF SessionOpens
  <1>5. CASE SessionCloses  BY <1>5 DEF SessionCloses
  <1>6. CASE Counted  BY <1>6 DEF Counted
  <1>7. CASE UNCHANGED webVars  BY <1>7 DEF webVars
  <1>8. QED
    BY <1>1, <1>2, <1>3, <1>4, <1>5, <1>6, <1>7 DEF WebNext, ServerTask

\* The counter of TLS sessions is right whenever the server is not being stopped, for
\* any limit: no session of an old server is counted with those of the next.
THEOREM SessionsCounted == WebSpec => []SessionsAreCounted
  <1>1. WebInit => WebInv  BY DEF WebInit, WebInv
  <1>2. WebInv => SessionsAreCounted  BY DEF WebInv, SessionsAreCounted
  <1>3. QED  BY <1>1, <1>2, WebStep, PTL DEF WebSpec

--------------------------------------------------------------------------------
(* The FTP daemon. *)

\* Nobody is served while a connection is awaited; the login and the directory are
\* those of the client served; what is left for a rename is what the command before
\* named.
FtpInv ==
  /\ ftpPc = "accept" => ftpClient = Nobody
  /\ ftpClient = Nobody => ~isAuthenticated
  /\ isAuthenticated => ftpClient \in loggedIn
  /\ cwd = chose
  /\ saveClear \in {-1, 0, 1}
  /\ saveClear = -1 => save = NoPath
  /\ saveClear = 1 => save = named

FtpActedWell ==
  acted' # acted /\ acted'.client # Nobody =>
    /\ acted'.client \in loggedIn
    /\ acted'.op # "rename" => acted'.path[1] = chose
    /\ acted'.op = "rename" => acted'.path = named

\* The count of the saved path after a command that leaves it alone.
LEMMA PassesSaveInv ==
  ASSUME FtpInv, PassesSave
  PROVE  /\ saveClear' \in {-1, 0, 1}
         /\ saveClear' = -1 => save' = NoPath
         /\ saveClear' = 1 => save' = named'
  BY DEF FtpInv, PassesSave, Counts, Saved, SaveLeft

LEMMA FtpStep == FtpInv /\ [FtpNext]_ftpVars => FtpInv' /\ (FtpActedWell \/ UNCHANGED ftpVars)
  <1> SUFFICES ASSUME FtpInv, [FtpNext]_ftpVars
               PROVE  FtpInv' /\ (FtpActedWell \/ UNCHANGED ftpVars)
    OBVIOUS
  <1> USE FtpdAssumption DEF FtpdAssumption, FtpInv, FtpActedWell, dataVars, fileVars, loginVars
  <1>1. ASSUME NEW c \in FtpClients, ClientConnects(c) \/ AcceptClient(c) \/ RejectClient(c)
        PROVE  FtpInv' /\ FtpActedWell
    <2>1. CASE ClientConnects(c)  BY <2>1 DEF ClientConnects
    <2>2. CASE AcceptClient(c)
      <3>1. ~isAuthenticated /\ ~isAuthenticated'
        <4>1. isAuthenticated' = isAuthenticated  BY <2>2, Zenon DEF AcceptClient
        <4>2. ~isAuthenticated  BY <2>2, Zenon DEF AcceptClient
        <4>3. QED  BY <4>1, <4>2, Zenon
      <3>2. QED  BY <2>2, <3>1 DEF AcceptClient
    <2>3. CASE RejectClient(c)
      <3>1. ~isAuthenticated'  BY <2>3, Zenon DEF RejectClient
      <3>2. ftpClient = Nobody  BY <2>3, Zenon DEF RejectClient
      <3>3. named' = named /\ cwd' = cwd /\ chose' = chose /\ acted' = acted
            /\ saveClear' = 0 /\ ftpClient' = ftpClient
        BY <2>3 DEF RejectClient
      <3>4. QED  BY <3>1, <3>2, <3>3
    <2>4. QED  BY <1>1, <2>1, <2>2, <2>3
  <1>2. CASE NextConnection \/ ClientLeaves
    BY <1>2 DEF NextConnection, ClientLeaves, CloseConnection
  <1>3. CASE FtpCommand
    <2>1. ASSUME NEW b \in BOOLEAN, User(b) \/ Pasv(b)  PROVE FtpInv' /\ FtpActedWell
      BY <2>1, PassesSaveInv DEF User, Pasv, Allowed, Ready
    <2>2. CASE PassRight \/ Answered \/ Port
      BY <2>2, PassesSaveInv DEF PassRight, Answered, Port, Allowed, Ready
    <2>3. CASE PassWrong \/ Quit \/ Rest
      BY <2>3 DEF PassWrong, Quit, Rest, CloseConnection, Ready
    <2>4. CASE Rnto
      <3>1. Saved = named
        BY <2>4 DEF Rnto, Saved, SaveLeft
      <3>2. QED
        BY <2>4, <3>1, PassesSaveInv DEF Rnto, Allowed, Ready
    <2>5. ASSUME NEW d \in Dirs, Cwd(d)  PROVE FtpInv' /\ FtpActedWell
      BY <2>5, PassesSaveInv DEF Cwd, Allowed, Ready
    <2>6. ASSUME NEW n \in Names, Works(n) \/ Transfer(n)  PROVE FtpInv' /\ FtpActedWell
      BY <2>6, PassesSaveInv DEF Works, Transfer, Allowed, Ready
    <2>7. ASSUME NEW n \in Names, Rnfr(n)  PROVE FtpInv' /\ FtpActedWell
      BY <2>7 DEF Rnfr, Allowed, Ready
    <2>8. QED
      BY <1>3, <2>1, <2>2, <2>3, <2>4, <2>5, <2>6, <2>7 DEF FtpCommand
  <1>4. ASSUME NEW b \in BOOLEAN, OpenData(b)  PROVE FtpInv' /\ FtpActedWell
    BY <1>4 DEF OpenData
  <1>5. CASE EndOfData  BY <1>5 DEF EndOfData
  <1>6. CASE UNCHANGED ftpVars  BY <1>6 DEF ftpVars
  <1>7. CASE StartLine  BY <1>7 DEF StartLine
  <1>8. QED
    BY <1>1, <1>2, <1>3, <1>4, <1>5, <1>6, <1>7 DEF FtpNext

LEMMA FtpInitInv == FtpInit => FtpInv
  BY DEF FtpInit, FtpInv

\* Work on a file is for a client logged in on the connection served, where it chose
\* to be, for any clients, directories and names.
THEOREM WorkForLogin == FtpSpec => WorkIsForLogin
  <1>1. FtpInv /\ [FtpNext]_ftpVars => [FtpActedWell]_ftpVars  BY FtpStep
  <1>2. FtpInv /\ [FtpNext]_ftpVars => FtpInv'  BY FtpStep
  <1>3. FtpSpec => [][FtpActedWell]_ftpVars
    BY FtpInitInv, <1>1, <1>2, PTL DEF FtpSpec
  <1>4. QED  BY <1>3 DEF WorkIsForLogin, FtpActedWell

FtpSocketInv ==
  /\ FtpSocketsAreKnown
  /\ ftpPc = "accept" => ftpClient = Nobody
  /\ ftpPc \in {"accept", "loop", "line", "open"} => ~dataSocket

\* Every socket the daemon has open is the client's, the passive or the data socket:
\* none is lost when a command fails or a connection ends another.
THEOREM FtpSocketsKnown == FtpSpec => []FtpSocketsAreKnown
  <1>1. FtpInit => FtpSocketInv
    <2> SUFFICES ASSUME FtpInit  PROVE FtpSocketInv
      OBVIOUS
    <2>1. ~passiveSocket /\ ~dataSocket /\ ftpClient = Nobody /\ ftpOpen = 0
      BY Zenon DEF FtpInit
    <2>2. QED  BY <2>1 DEF FtpSocketInv, FtpSocketsAreKnown, One
  <1>2. FtpSocketInv /\ [FtpNext]_ftpVars => FtpSocketInv'
    <2> SUFFICES ASSUME FtpSocketInv, [FtpNext]_ftpVars  PROVE FtpSocketInv'
      OBVIOUS
    <2> DEFINE Same == /\ ftpOpen' = ftpOpen /\ ftpClient' = ftpClient
                       /\ passiveSocket' = passiveSocket /\ dataSocket' = dataSocket
               Closed == /\ ~passiveSocket' /\ ftpClient' = Nobody /\ dataSocket' = dataSocket
                         /\ ftpOpen' = ftpOpen - One(passiveSocket) - One(ftpClient # Nobody)
    <2>1. ASSUME Same,
                 ftpPc' = ftpPc \/ (ftpPc \in {"accept", "loop", "line"} /\ ftpPc' # "accept")
          PROVE  FtpSocketInv'
      <3>1. FtpSocketsAreKnown'
        BY <2>1, Zenon DEF FtpSocketInv, FtpSocketsAreKnown
      <3>2. ftpClient' = ftpClient /\ (dataSocket' => dataSocket)
        BY <2>1, Zenon
      <3>3. ftpPc' = ftpPc \/ (ftpPc \in {"accept", "loop", "line"} /\ ftpPc' # "accept")
        BY <2>1, Zenon
      <3>4. QED
        BY <3>1, <3>2, <3>3 DEF FtpSocketInv
    <2>2. ASSUME Closed, ftpPc \in {"loop", "line"}  PROVE FtpSocketInv'
      <3>1. ~dataSocket /\ ~dataSocket'
        <4>1. ~dataSocket  BY <2>2 DEF FtpSocketInv
        <4>2. QED  BY <2>2, <4>1, Zenon
      <3>2. QED
        BY <2>2, <3>1 DEF FtpSocketInv, FtpSocketsAreKnown, One
    <2>3. ASSUME NEW c \in FtpClients, ClientConnects(c) \/ AcceptClient(c) \/ RejectClient(c)
          PROVE  FtpSocketInv'
      <3>1. CASE ClientConnects(c)
        BY <2>1, <3>1, Zenon DEF ClientConnects, dataVars
      <3>2. CASE AcceptClient(c)
        <4>1. /\ ftpClient' = c /\ ftpOpen' = ftpOpen + 1 /\ ftpClient = Nobody
              /\ passiveSocket' = passiveSocket /\ dataSocket' = dataSocket
              /\ ftpPc = "accept" /\ ftpPc' = "loop" /\ c # Nobody
          BY <3>2, FtpdAssumption, Zenon DEF AcceptClient, FtpSocketInv, FtpdAssumption
        <4>2. One(passiveSocket') = One(passiveSocket) /\ One(dataSocket') = One(dataSocket)
          BY <4>1, Zenon
        <4>3. ~dataSocket'  BY <4>1, Zenon DEF FtpSocketInv
        <4>4. One(ftpClient # Nobody) = 0 /\ One(ftpClient' # Nobody) = 1
          BY <4>1 DEF One
        <4>5. One(passiveSocket) \in Int /\ One(dataSocket) \in Int  BY DEF One
        <4> HIDE DEF One
        <4>6. QED
          BY <4>1, <4>2, <4>3, <4>4, <4>5 DEF FtpSocketInv, FtpSocketsAreKnown
      <3>3. CASE RejectClient(c)
        BY <2>1, <3>3, Zenon DEF RejectClient, dataVars
      <3>4. QED  BY <2>3, <3>1, <3>2, <3>3
    <2>4. CASE NextConnection \/ ClientLeaves
      BY <2>2, <2>4, Zenon DEF NextConnection, ClientLeaves, CloseConnection
    <2>s. CASE StartLine
      BY <2>1, <2>s, Zenon DEF StartLine, dataVars
    <2>5. CASE FtpCommand
      <3>1. ftpPc = "line"
        BY <2>5 DEF FtpCommand, User, Pasv, PassRight, PassWrong, Answered, Port, Quit, Rest,
                    Rnto, Cwd, Works, Rnfr, Transfer, Allowed, Ready
      <3>2. ASSUME NEW b \in BOOLEAN, User(b)  PROVE FtpSocketInv'
        BY <2>1, <3>1, <3>2, Zenon DEF User, dataVars
      <3>3. ASSUME NEW b \in BOOLEAN, Pasv(b)  PROVE FtpSocketInv'
        <4>1. /\ ftpClient' = ftpClient /\ dataSocket' = dataSocket /\ passiveSocket' = b
              /\ ftpOpen' = ftpOpen - One(passiveSocket) + One(b)
          BY <3>3, Zenon DEF Pasv
        <4>2. /\ One(ftpClient' # Nobody) = One(ftpClient # Nobody)
              /\ One(dataSocket') = One(dataSocket) /\ One(passiveSocket') = One(b)
          BY <4>1, Zenon
        <4>3. ~dataSocket'  BY <3>1, <4>1, Zenon DEF FtpSocketInv
        <4>4. \A x : One(x) \in Int  BY DEF One
        <4>5. ftpPc' = "loop"  BY <3>1, <3>3, Zenon DEF Pasv
        <4> HIDE DEF One
        <4>6. QED
          BY <4>1, <4>2, <4>3, <4>4, <4>5 DEF FtpSocketInv, FtpSocketsAreKnown
      <3>4. CASE PassRight \/ Answered \/ Port \/ Rnto
        BY <2>1, <3>1, <3>4, Zenon DEF PassRight, Answered, Port, Rnto, dataVars
      <3>5. CASE PassWrong \/ Quit \/ Rest
        BY <2>2, <3>1, <3>5, Zenon DEF PassWrong, Quit, Rest, CloseConnection
      <3>6. ASSUME NEW d \in Dirs, Cwd(d)  PROVE FtpSocketInv'
        BY <2>1, <3>1, <3>6, Zenon DEF Cwd, dataVars
      <3>7. ASSUME NEW n \in Names, Works(n) \/ Transfer(n) \/ Rnfr(n)  PROVE FtpSocketInv'
        BY <2>1, <3>1, <3>7, Zenon DEF Works, Transfer, Rnfr, dataVars
      <3>8. QED
        BY <2>5, <3>2, <3>3, <3>4, <3>5, <3>6, <3>7, Zenon DEF FtpCommand
    <2>6. ASSUME NEW b \in BOOLEAN, OpenData(b)  PROVE FtpSocketInv'
      <3>1. ~dataSocket  BY <2>6, Zenon DEF OpenData, FtpSocketInv
      <3>2. ftpClient' = ftpClient /\ ftpPc' = "transfer"  BY <2>6, Zenon DEF OpenData
      <3>3. One(ftpClient' # Nobody) = One(ftpClient # Nobody)  BY <3>2, Zenon
      <3>4. One(dataSocket) = 0  BY <3>1 DEF One
      <3>5. \A x : One(x) \in Int  BY DEF One
      <3>6. CASE isPassive
        <4>1. ~passiveSocket' /\ ftpOpen' = ftpOpen - One(passiveSocket) + One(dataSocket')
          BY <2>6, <3>6, Zenon DEF OpenData
        <4>2. One(passiveSocket') = 0  BY <4>1 DEF One
        <4> HIDE DEF One
        <4>3. QED
          BY <3>2, <3>3, <3>4, <3>5, <4>1, <4>2 DEF FtpSocketInv, FtpSocketsAreKnown
      <3>7. CASE ~isPassive
        <4>1. dataSocket'  BY <2>6, <3>7, Zenon DEF OpenData
        <4>2. One(dataSocket') = 1  BY <4>1 DEF One
        <4>3. ftpOpen' = ftpOpen + 1 /\ One(passiveSocket') = One(passiveSocket)
          BY <2>6, <3>7, Zenon DEF OpenData
        <4> HIDE DEF One
        <4>4. QED
          BY <3>2, <3>3, <3>4, <3>5, <4>2, <4>3 DEF FtpSocketInv, FtpSocketsAreKnown
      <3>8. QED  BY <3>6, <3>7
    <2>7. CASE EndOfData
      <3>1. /\ ~dataSocket' /\ ftpOpen' = ftpOpen - One(dataSocket) /\ ftpPc' = "loop"
            /\ ftpClient' = ftpClient /\ passiveSocket' = passiveSocket
        BY <2>7, Zenon DEF EndOfData
      <3>2. One(dataSocket') = 0  BY <3>1 DEF One
      <3>3. /\ One(ftpClient' # Nobody) = One(ftpClient # Nobody)
            /\ One(passiveSocket') = One(passiveSocket)
        BY <3>1, Zenon
      <3>4. \A x : One(x) \in Int  BY DEF One
      <3> HIDE DEF One
      <3>5. QED
        BY <3>1, <3>2, <3>3, <3>4 DEF FtpSocketInv, FtpSocketsAreKnown
    <2>8. CASE UNCHANGED ftpVars
      BY <2>1, <2>8, Zenon DEF ftpVars, dataVars
    <2>9. QED
      BY <2>3, <2>4, <2>5, <2>6, <2>7, <2>8, <2>s, Zenon DEF FtpNext
  <1>3. FtpSocketInv => FtpSocketsAreKnown  BY DEF FtpSocketInv
  <1>4. QED  BY <1>1, <1>2, <1>3, PTL DEF FtpSpec

\* Where the daemon does not wait for its client, it can take the step that is expected.
FtpTaskEnabled ==
  /\ ftpPc = "loop" /\ backlog # {} => ENABLED <<NextConnection>>_ftpVars
  /\ ftpPc = "open" /\ OpensAlone => ENABLED <<OpenAlone>>_ftpVars
  /\ ftpPc = "transfer" /\ ~dataSocket => ENABLED <<EndAlone>>_ftpVars
  /\ \A c \in FtpClients :
       ftpPc = "accept" /\ c \in backlog =>
         ENABLED <<AcceptClient(c) \/ RejectClient(c)>>_ftpVars

FtpAt == ftpPc \in {"accept", "loop", "line", "open", "transfer"}
WaitsAt(c, pc) == c \in backlog /\ ftpPc = pc

\* Where the daemon goes while c waits; only its client can make it wait there.
LEMMA FtpWaitStep ==
  ASSUME NEW c, [FtpNext]_ftpVars
  PROVE  /\ FtpAt => FtpAt'
         /\ WaitsAt(c, "line") => \/ WaitsAt(c, "line")' \/ WaitsAt(c, "loop")'
                                 \/ WaitsAt(c, "open")' \/ WaitsAt(c, "accept")'
         /\ WaitsAt(c, "open") => WaitsAt(c, "open")' \/ WaitsAt(c, "transfer")'
         /\ WaitsAt(c, "open") /\ OpensAlone =>
              (WaitsAt(c, "open")' /\ OpensAlone') \/ WaitsAt(c, "transfer")'
         /\ WaitsAt(c, "transfer") => WaitsAt(c, "transfer")' \/ WaitsAt(c, "loop")'
         /\ WaitsAt(c, "transfer") /\ ~dataSocket =>
              (WaitsAt(c, "transfer")' /\ ~dataSocket') \/ WaitsAt(c, "loop")'
         /\ WaitsAt(c, "loop") => WaitsAt(c, "loop")' \/ WaitsAt(c, "accept")'
         /\ WaitsAt(c, "accept") =>
              WaitsAt(c, "accept")' \/ WaitsAt(c, "loop")' \/ (c \notin backlog)'
  <1> USE DEF FtpAt, WaitsAt, OpensAlone
  <1>1. ASSUME NEW d \in FtpClients, ClientConnects(d) \/ AcceptClient(d) \/ RejectClient(d)
        PROVE  /\ ftpPc' = ftpPc \/ (ftpPc = "accept" /\ ftpPc' = "loop")
               /\ c \in backlog => c \in backlog' \/ ftpPc = "accept"
               /\ UNCHANGED <<isPassive, passiveSocket, dataSocket>>
    BY <1>1 DEF ClientConnects, AcceptClient, RejectClient, dataVars
  <1>2. CASE \E d \in FtpClients : ClientConnects(d) \/ AcceptClient(d) \/ RejectClient(d)
    BY <1>1, <1>2
  <1>3. CASE NextConnection \/ ClientLeaves \/ StartLine
    BY <1>3 DEF NextConnection, ClientLeaves, StartLine
  <1>4. CASE FtpCommand
    <2>1. /\ ftpPc = "line" /\ ftpPc' \in {"loop", "open", "accept"}
          /\ backlog' = backlog
      BY <1>4 DEF FtpCommand, User, PassRight, PassWrong, Answered, Allowed, Ready, Pasv,
                  Port, Cwd, Works, Rnfr, Rnto, Quit, Rest, Transfer
    <2>2. QED  BY <2>1
  <1>5. CASE (\E b \in BOOLEAN : OpenData(b)) \/ EndOfData
    BY <1>5 DEF OpenData, EndOfData
  <1>6. CASE UNCHANGED ftpVars
    BY <1>6 DEF ftpVars, dataVars
  <1>7. QED
    BY <1>2, <1>3, <1>4, <1>5, <1>6 DEF FtpNext

\* A client that has connected is accepted or turned away, for any number of clients, if
\* none holds the daemon for ever: a line and a transfer are over when the daemon waits no
\* more, the next command is not read while somebody waits, and the daemon comes back to
\* where it accepts until it is this client's turn.
THEOREM FtpClientsServed == FtpSpec /\ []FtpTaskEnabled => FtpClientIsServed
  <1> SUFFICES ASSUME NEW c \in FtpClients
               PROVE  FtpSpec /\ []FtpTaskEnabled =>
                        ([]<>~Held => (c \in backlog ~> c \notin backlog))
    BY DEF FtpClientIsServed
  <1> DEFINE Gone       == c \notin backlog
             AtLine     == WaitsAt(c, "line")
             AtOpen     == WaitsAt(c, "open")
             Opens      == AtOpen /\ OpensAlone
             AtTransfer == WaitsAt(c, "transfer")
             Ends       == AtTransfer /\ ~dataSocket
             AtLoop     == WaitsAt(c, "loop")
             AtAccept   == WaitsAt(c, "accept")
  <1>1. FtpTurns => FtpTurn(c)  BY DEF FtpTurns
  <1>2. FtpInit => FtpAt  BY DEF FtpInit, FtpAt
  <1>3. [FtpNext]_ftpVars =>
          /\ FtpAt => FtpAt'
          /\ AtLine => AtLine' \/ AtLoop' \/ AtOpen' \/ AtAccept'
          /\ AtOpen => AtOpen' \/ AtTransfer'
          /\ Opens => Opens' \/ AtTransfer'
          /\ AtTransfer => AtTransfer' \/ AtLoop'
          /\ Ends => Ends' \/ AtLoop'
          /\ AtLoop => AtLoop' \/ AtAccept'
          /\ AtAccept => AtAccept' \/ AtLoop' \/ Gone'
    BY FtpWaitStep
  <1>4. FtpAt /\ c \in backlog => AtLine \/ AtOpen \/ AtTransfer \/ AtLoop \/ AtAccept
    BY DEF FtpAt, WaitsAt
  <1>h. ~Held => ~AtLine /\ (AtOpen => Opens) /\ (AtTransfer => Ends)
    BY DEF Held, WaitsAt
  <1>5. FtpTaskEnabled =>
          /\ Opens => ENABLED <<OpenAlone>>_ftpVars
          /\ Ends => ENABLED <<EndAlone>>_ftpVars
          /\ AtLoop => ENABLED <<NextConnection>>_ftpVars
          /\ AtAccept => ENABLED <<AcceptClient(c) \/ RejectClient(c)>>_ftpVars
    BY DEF FtpTaskEnabled, WaitsAt
  <1>6. /\ AtOpen /\ <<OpenAlone>>_ftpVars => AtTransfer'
        /\ AtTransfer /\ <<EndAlone>>_ftpVars => AtLoop'
        /\ AtLoop /\ <<NextConnection>>_ftpVars => AtAccept'
        /\ <<AcceptClient(c) \/ RejectClient(c)>>_ftpVars => Gone'
    BY DEF WaitsAt, OpenAlone, EndAlone, OpenData, EndOfData, NextConnection, AcceptClient,
           RejectClient
  <1>7. Gone <=> ~(c \in backlog)
    OBVIOUS
  <1>8. Gone <=> c \notin backlog
    OBVIOUS
  <1> HIDE DEF Gone, AtLine, AtOpen, Opens, AtTransfer, Ends, AtLoop, AtAccept
  <1>9. QED
    BY <1>1, <1>2, <1>3, <1>4, <1>5, <1>6, <1>7, <1>8, <1>h, PTL
       DEF FtpSpec, FtpFairness, FtpTurn

--------------------------------------------------------------------------------
(* The bits of the network's state. *)

AnswerEvents == {"DISCONNECTED", "GOT_IP", "GOT_IP6"}
LinkEvents   == AnswerEvents \cup {"START", "CONNECTED", "LOST_IP"}

\* The handlers of the events at i and after it leave the bits as the one at i does.
Decisive(i) ==
  events[i] \in AnswerEvents /\ \A j \in i + 1..Len(events) : events[j] \notin AnswerEvents

\* The link fits the event that will decide the bits, and the bits if none will.
LinkInv ==
  /\ events \in Seq(LinkEvents)
  /\ linkState \in {"off", "down", "connecting", "up"}
  /\ address \in BOOLEAN
  /\ (\A i \in 1..Len(events) : events[i] \notin AnswerEvents) =>
       /\ "connect" \in bits => linkState = "up"
       /\ address => "connect" \in bits /\ "disconnect" \notin bits
  /\ \A i \in 1..Len(events) : Decisive(i) =>
       /\ events[i] = "DISCONNECTED" => ~address
       /\ events[i] # "DISCONNECTED" => linkState = "up"

\* The new event decides if it is one that does; otherwise the same one as before.
LEMMA Posted ==
  ASSUME LinkInv, NEW e \in LinkEvents, Post(e),
         \A b \in {"connect", "disconnect"} : b \in bits' <=> b \in bits,
         linkState' \in {"off", "down", "connecting", "up"}, address' \in BOOLEAN,
         e = "DISCONNECTED" => ~address',
         e \in {"GOT_IP", "GOT_IP6"} => linkState' = "up",
         e \notin AnswerEvents => (address' => address) /\ (linkState = "up" => linkState' = "up")
  PROVE  LinkInv'
  <1> DEFINE n == Len(events) + 1
  <1>1. /\ n \in Nat /\ events' \in Seq(LinkEvents) /\ Len(events') = n /\ events'[n] = e
        /\ \A i \in 1..Len(events) : events'[i] = events[i]
        /\ \A i \in 1..n : i \in 1..Len(events) \/ i = n
        /\ n \in 1..n
    BY DEF LinkInv, Post
  <1> HIDE DEF n
  <1>2. CASE e \in AnswerEvents
    <2>1. ~(\A i \in 1..n : events'[i] \notin AnswerEvents)
      BY <1>1, <1>2
    <2>2. ASSUME NEW i \in 1..n, Decisive(i)'
          PROVE  i = n
      <3>1. i \in Nat /\ i # n => n \in i + 1..n
        BY <1>1
      <3>2. QED
        BY <1>1, <1>2, <2>2, <3>1 DEF Decisive
    <2>3. e # "DISCONNECTED" => linkState' = "up"
      BY <1>2 DEF AnswerEvents
    <2>4. ASSUME NEW i \in 1..n, Decisive(i)'
          PROVE  /\ events'[i] = "DISCONNECTED" => ~address'
                 /\ events'[i] # "DISCONNECTED" => linkState' = "up"
      BY <1>1, <2>2, <2>3, <2>4
    <2>5. QED
      BY <1>1, <2>1, <2>4 DEF LinkInv
  <1>3. CASE e \notin AnswerEvents
    <2>1. (\A i \in 1..n : events'[i] \notin AnswerEvents)
          => \A i \in 1..Len(events) : events[i] \notin AnswerEvents
      <3>1. \A i \in 1..Len(events) : i \in 1..n
        BY DEF n, LinkInv
      <3>2. QED
        BY <1>1, <3>1
    <2>2. ASSUME NEW i \in 1..n, Decisive(i)'
          PROVE  i \in 1..Len(events) /\ Decisive(i)
      <3>1. events'[i] \in AnswerEvents /\ i \in 1..Len(events)
        BY <1>1, <1>3, <2>2 DEF Decisive
      <3>2. \A j \in i + 1..Len(events) : j \in i + 1..n /\ j \in 1..Len(events)
        BY <3>1, <1>1 DEF n, LinkInv
      <3>3. QED
        BY <1>1, <2>2, <3>1, <3>2 DEF Decisive
    <2>3. ASSUME NEW i \in 1..n, Decisive(i)'
          PROVE  /\ events'[i] = "DISCONNECTED" => ~address'
                 /\ events'[i] # "DISCONNECTED" => linkState' = "up"
      BY <1>1, <1>3, <2>2, <2>3 DEF LinkInv
    <2>4. (\A i \in 1..n : events'[i] \notin AnswerEvents) =>
            /\ "connect" \in bits' => linkState' = "up"
            /\ address' => "connect" \in bits' /\ "disconnect" \notin bits'
      BY <1>3, <2>1 DEF LinkInv
    <2>5. QED
      BY <1>1, <2>3, <2>4 DEF LinkInv
  <1>4. QED
    BY <1>2, <1>3

\* An event is handled: if it decides the bits, they are what it asks for.
LEMMA LinkHandled ==
  ASSUME LinkInv, NEW e \in LinkEvents, Handles(e),
         linkState' \in {"off", "down", "connecting", "up"},
         linkState = "up" => linkState' = "up",
         e = "DISCONNECTED" => "connect" \notin bits',
         e \in {"GOT_IP", "GOT_IP6"} => "connect" \in bits' /\ "disconnect" \notin bits',
         e \notin AnswerEvents => \A b \in {"connect", "disconnect"} : b \in bits' <=> b \in bits
  PROVE  LinkInv'
  <1>1. /\ events \in Seq(LinkEvents) /\ events # <<>> /\ events[1] = e
        /\ events' = Tail(events) /\ address' = address /\ address \in BOOLEAN
    BY DEF LinkInv, Handles
  <1> DEFINE n == Len(events)
  <1>2. /\ n \in Nat \ {0} /\ Len(events') = n - 1 /\ events' \in Seq(LinkEvents)
        /\ \A i \in 1..n - 1 : events'[i] = events[i + 1]
        /\ \A i \in 1..n - 1 : i + 1 \in 1..n
        /\ \A i \in 1..n : i = 1 \/ (i - 1 \in 1..n - 1 /\ (i - 1) + 1 = i)
    BY <1>1
  <1> HIDE DEF n
  <1>3. ASSUME NEW i \in 1..n - 1, Decisive(i)'
        PROVE  Decisive(i + 1)
    <2>1. events[i + 1] \in AnswerEvents
      BY <1>2, <1>3 DEF Decisive
    <2>2. ASSUME NEW j \in i + 1 + 1..n
          PROVE  events[j] \notin AnswerEvents
      <3>1. j - 1 \in i + 1..n - 1 /\ j - 1 \in 1..n - 1 /\ (j - 1) + 1 = j
        BY <1>2
      <3>2. QED
        BY <1>2, <1>3, <3>1 DEF Decisive
    <2>3. QED
      BY <2>1, <2>2 DEF Decisive, n
  <1>4. ASSUME NEW i \in 1..n - 1, Decisive(i)'
        PROVE  /\ events'[i] = "DISCONNECTED" => ~address'
               /\ events'[i] # "DISCONNECTED" => linkState' = "up"
    <2>1. i + 1 \in 1..Len(events) /\ Decisive(i + 1) /\ events'[i] = events[i + 1]
      BY <1>2, <1>3, <1>4 DEF n
    <2>2. QED
      BY <1>1, <2>1 DEF LinkInv
  <1>5. ASSUME \A i \in 1..n - 1 : events'[i] \notin AnswerEvents
        PROVE  /\ "connect" \in bits' => linkState' = "up"
               /\ address' => "connect" \in bits' /\ "disconnect" \notin bits'
    <2>1. \A j \in 1 + 1..n : events[j] \notin AnswerEvents
      <3>1. \A j \in 1 + 1..n : j - 1 \in 1..n - 1 /\ (j - 1) + 1 = j
        BY <1>2
      <3>2. QED
        BY <1>2, <1>5, <3>1
    <2>2. CASE e \in AnswerEvents
      <3>1. 1 \in 1..Len(events) /\ Decisive(1)
        BY <1>1, <1>2, <2>1, <2>2 DEF Decisive, n
      <3>2. /\ e = "DISCONNECTED" => ~address
            /\ e # "DISCONNECTED" => linkState = "up"
        BY <1>1, <3>1 DEF LinkInv
      <3>3. e # "DISCONNECTED" => e \in {"GOT_IP", "GOT_IP6"}
        BY <2>2 DEF AnswerEvents
      <3>4. QED
        BY <1>1, <3>2, <3>3
    <2>3. CASE e \notin AnswerEvents
      <3>1. \A i \in 1..n : i = 1 \/ i \in 1 + 1..n
        BY <1>2
      <3>2. \A i \in 1..n : events[i] \notin AnswerEvents
        BY <1>1, <2>1, <2>3, <3>1
      <3>3. /\ "connect" \in bits => linkState = "up"
            /\ address => "connect" \in bits /\ "disconnect" \notin bits
        BY <3>2 DEF LinkInv, n
      <3>4. QED
        BY <1>1, <2>3, <3>3
    <2>4. QED
      BY <2>2, <2>3
  <1>6. QED
    BY <1>1, <1>2, <1>4, <1>5 DEF LinkInv

LEMMA LinkStep == LinkInv /\ [LnkNext]_lnkVars => LinkInv'
  <1> SUFFICES ASSUME LinkInv, [LnkNext]_lnkVars
               PROVE  LinkInv'
    OBVIOUS
  <1> USE DEF LinkEvents, AnswerEvents
  <1>1. linkState \in {"off", "down", "connecting", "up"} /\ address \in BOOLEAN
    BY DEF LinkInv
  <1>2. CASE WifiStarts \/ EthStarts
    <2>1. /\ linkState = "off" /\ linkState' = "down" /\ Post("START") /\ address' = address
          /\ bits' = bits \cup {"netif"}
      BY <1>2 DEF WifiStarts, EthStarts, DriverStarts
    <2>2. /\ "connect" \in bits' <=> "connect" \in bits
          /\ "disconnect" \in bits' <=> "disconnect" \in bits
      BY <2>1
    <2>3. QED
      BY <1>1, <2>1, <2>2, Posted
  <1>3. CASE LinkComes
    BY <1>1, <1>3, Posted DEF LinkComes
  <1>4. CASE LinkGoes
    BY <1>1, <1>4, Posted DEF LinkGoes
  <1>5. CASE AddressComes
    BY <1>1, <1>5, Posted DEF AddressComes
  <1>6. CASE AddressGoes
    BY <1>1, <1>6, Posted DEF AddressGoes
  <1>7. ASSUME UNCHANGED <<driver, events, bits>>
        PROVE  LinkInv'
    BY <1>7 DEF LinkInv, Decisive, driver
  <1>8. CASE Availability \/ UNCHANGED lnkVars
    BY <1>7, <1>8 DEF Availability, lnkVars
  <1>9. CASE OnStart
    BY <1>1, <1>9, LinkHandled DEF OnStart, AskToConnect
  <1>10. CASE OnConnected
    BY <1>1, <1>10, LinkHandled DEF OnConnected
  <1>11. CASE OnDisconnected
    BY <1>1, <1>11, LinkHandled DEF OnDisconnected, AskToConnect
  <1>12. CASE OnGotIp
    BY <1>1, <1>12, LinkHandled DEF OnGotIp
  <1>13. CASE OnLostIp
    BY <1>1, <1>13, LinkHandled DEF OnLostIp
  <1>14. QED
    BY <1>2, <1>3, <1>4, <1>5, <1>6, <1>8, <1>9, <1>10, <1>11, <1>12, <1>13
       DEF LnkNext, Driver, Handler

\* hal_get_network_connected() is right once the events are handled (the handlers of
\* device_control.cpp), whatever waited in their queue and however often the link came
\* and went.
THEOREM BitsAreRight == LnkSpec => []BitsFollowLink
  <1>1. LnkInit => LinkInv
    <2>1. LnkInit => /\ events \in Seq(LinkEvents) /\ 1..Len(events) = {}
                     /\ linkState = "off" /\ address = FALSE /\ bits = {}
      BY DEF LnkInit
    <2>2. QED
      BY <2>1 DEF LinkInv
  <1>2. LinkInv => BitsFollowLink
    BY DEF LinkInv, BitsFollowLink, NetworkConnected
  <1>3. QED
    BY <1>1, <1>2, LinkStep, PTL DEF LnkSpec

--------------------------------------------------------------------------------
(* The MQTT client's outbox. *)

Messages ==
  [topic : {"status"}, value : {"online", "offline"}]
    \cup [topic : {"partition"}, value : {"quiet", "alarm"}]
    \cup [topic : {"fw_version"}, value : {"installed", "newer"}]

OfPartition(m) == m.topic = "partition"

\* The last of the first n messages of a box that is about the partition.
LastOfPartition(box, i, n) ==
  /\ i \in 1..n /\ OfPartition(box[i])
  /\ \A j \in i + 1..n : ~OfPartition(box[j])

OutboxInv ==
  /\ outbox \in Seq(Messages) /\ sent \in 0..Len(outbox)
  /\ brokerUp \in BOOLEAN /\ (~brokerUp => sent = 0)
  /\ retained \in [status : {"online", "offline"}, partition : {"quiet", "alarm"},
                   fw_version : {"installed", "newer"}]
  /\ partition \in {"quiet", "alarm"}
  /\ (\A i \in 1..Len(outbox) : ~OfPartition(outbox[i])) /\ "partition" \notin lost
       => retained.partition = partition
  /\ "partition" \notin lost =>
       \A i \in 1..Len(outbox) :
         LastOfPartition(outbox, i, Len(outbox)) => outbox[i].value = partition
  /\ \A i \in 1..Len(outbox) :
       LastOfPartition(outbox, i, sent) => outbox[i].value = retained.partition

\* Messages that do not tell of the partition.
Others(ms) == ms \in Seq(Messages) /\ \A i \in 1..Len(ms) : ~OfPartition(ms[i])

LEMMA KeptOthers ==
  ASSUME NEW topics, NEW m \in {Message("status", "online"), Message("fw_version", "installed"),
                                Message("fw_version", "newer")}
  PROVE  Others(Kept(m, topics))
  <1>1. m \in Messages /\ ~OfPartition(m)
    BY DEF Message, Messages, OfPartition
  <1>2. CASE m.topic \in topics
    BY <1>1, <1>2 DEF Kept, Others
  <1>3. CASE m.topic \notin topics
    BY <1>3 DEF Kept, Others
  <1>4. QED
    BY <1>2, <1>3

LEMMA OthersJoined ==
  ASSUME NEW a, NEW b, Others(a), Others(b)
  PROVE  Others(a \o b)
  <1>1. /\ a \in Seq(Messages) /\ b \in Seq(Messages)
        /\ Len(a) \in Nat /\ Len(b) \in Nat /\ Len(a \o b) = Len(a) + Len(b)
        /\ a \o b \in Seq(Messages)
    BY DEF Others
  <1>2. ASSUME NEW i \in 1..Len(a \o b)
        PROVE  ~OfPartition((a \o b)[i])
    <2>1. CASE i <= Len(a)
      <3>1. i \in 1..Len(a) /\ (a \o b)[i] = a[i]
        BY <1>1, <2>1
      <3>2. QED
        BY <3>1 DEF Others
    <2>2. CASE ~(i <= Len(a))
      <3>1. i - Len(a) \in 1..Len(b) /\ (a \o b)[i] = b[i - Len(a)]
        BY <1>1, <2>2
      <3>2. QED
        BY <3>1 DEF Others
    <2>3. QED
      BY <2>1, <2>2
  <1>3. QED
    BY <1>1, <1>2 DEF Others

\* Messages that do not tell of the partition are put in the outbox.
LEMMA OthersQueued ==
  ASSUME OutboxInv, NEW ms \in Seq(Messages), \A i \in 1..Len(ms) : ~OfPartition(ms[i]),
         outbox' = outbox \o ms, sent' = sent, brokerUp' \in BOOLEAN, ~brokerUp' => sent = 0,
         retained' \in [status : {"online", "offline"}, partition : {"quiet", "alarm"},
                        fw_version : {"installed", "newer"}],
         retained'.partition = retained.partition, partition' = partition,
         "partition" \notin lost' => "partition" \notin lost
  PROVE  OutboxInv'
  <1> DEFINE n == Len(outbox)
             m == Len(outbox')
  <1>1. /\ n \in Nat /\ m \in Nat /\ n <= m /\ outbox' \in Seq(Messages)
        /\ \A i \in 1..n : outbox'[i] = outbox[i]
        /\ \A i \in 1..m : i \in 1..n \/ (i - n \in 1..Len(ms) /\ outbox'[i] = ms[i - n])
        /\ sent \in 0..n
    <2>1. outbox \in Seq(Messages) /\ ms \in Seq(Messages) /\ outbox' = outbox \o ms
      BY DEF OutboxInv
    <2>2. /\ n \in Nat /\ Len(ms) \in Nat /\ m = n + Len(ms) /\ outbox' \in Seq(Messages)
          /\ \A i \in 1..n + Len(ms) : outbox'[i] = IF i <= n THEN outbox[i] ELSE ms[i - n]
      BY <2>1
    <2>3. sent \in 0..n
      BY DEF OutboxInv
    <2> HIDE DEF n, m
    <2>4. \A i \in 1..m : i \in 1..n \/ (~(i <= n) /\ i - n \in 1..Len(ms))
      <3>1. n \in Nat /\ Len(ms) \in Nat /\ m = n + Len(ms)
        BY <2>2
      <3>2. ASSUME NEW i \in 1..m, ~(i <= n)
            PROVE  i - n \in 1..Len(ms)
        <4>1. i \in Int /\ i <= m /\ i > n
          BY <3>1, <3>2
        <4>2. i - n >= 1 /\ i - n <= Len(ms) /\ i - n \in Int
          BY <3>1, <4>1
        <4>3. QED
          BY <4>2, <3>1
      <3>3. \A i \in 1..m : i <= n => i \in 1..n
        BY <3>1
      <3>4. ASSUME NEW i \in 1..m
            PROVE  i \in 1..n \/ (~(i <= n) /\ i - n \in 1..Len(ms))
        <4>1. CASE i <= n
          BY <3>1, <3>3, <4>1
        <4>2. CASE ~(i <= n)
          BY <3>1, <3>2, <4>2
        <4>3. QED
          BY <4>1, <4>2
      <3>5. QED
        BY <3>4
    <2>5. n \in Nat /\ m \in Nat /\ n <= m /\ m = n + Len(ms)
      BY <2>2
    <2>6. ASSUME NEW i \in 1..m
          PROVE  /\ i <= n => outbox'[i] = outbox[i]
                 /\ ~(i <= n) => outbox'[i] = ms[i - n]
      BY <2>2, <2>5
    <2>7. \A i \in 1..n : i \in 1..m /\ i <= n
      BY <2>5
    <2>8. \A i \in 1..n : outbox'[i] = outbox[i]
      BY <2>6, <2>7
    <2>9. \A i \in 1..m : i \in 1..n \/ (i - n \in 1..Len(ms) /\ outbox'[i] = ms[i - n])
      BY <2>4, <2>6
    <2>10. QED
      BY <2>2, <2>3, <2>5, <2>8, <2>9
  <1> HIDE DEF n, m
  <1>2. \A i \in 1..m : i \in 1..n \/ ~OfPartition(outbox'[i])
    BY <1>1
  <1>3. \A i \in 1..n : i \in 1..m /\ outbox'[i] = outbox[i]
    <2>1. n \in Nat /\ m \in Nat /\ n <= m
      BY <1>1
    <2>2. 1..n \subseteq 1..m
      BY <2>1
    <2>3. QED
      BY <1>1, <2>2
  <1>4. ASSUME NEW i \in 1..m, LastOfPartition(outbox', i, m)
        PROVE  LastOfPartition(outbox, i, n) /\ outbox'[i] = outbox[i]
    <2>1. i \in 1..n /\ OfPartition(outbox[i])
      BY <1>2, <1>3, <1>4 DEF LastOfPartition
    <2>2. \A j \in i + 1..n : j \in i + 1..m /\ j \in 1..n
      BY <1>1, <2>1
    <2>3. \A j \in i + 1..n : ~OfPartition(outbox[j])
      BY <1>3, <1>4, <2>2 DEF LastOfPartition, m
    <2>4. QED
      BY <1>1, <2>1, <2>3 DEF LastOfPartition
  <1>5. ASSUME NEW i \in 1..m, LastOfPartition(outbox', i, sent)
        PROVE  LastOfPartition(outbox, i, sent) /\ outbox'[i] = outbox[i] /\ i \in 1..n
    <2>1. i \in 1..sent /\ i \in 1..n
      BY <1>1, <1>5 DEF LastOfPartition
    <2>2. \A j \in i + 1..sent : j \in 1..n
      BY <1>1, <2>1
    <2>3. QED
      BY <1>1, <1>3, <1>5, <2>1, <2>2 DEF LastOfPartition
  <1>6. /\ "partition" \notin lost =>
             \A i \in 1..m : LastOfPartition(outbox', i, m) => outbox'[i].value = partition
        /\ \A i \in 1..m : LastOfPartition(outbox', i, sent) => outbox'[i].value = retained.partition
    <2>1. \A i \in 1..m : LastOfPartition(outbox', i, m) => i \in 1..n
      BY <1>4 DEF LastOfPartition
    <2>2. QED
      BY <1>4, <1>5, <2>1 DEF OutboxInv, n
  <1>7. (\A i \in 1..m : ~OfPartition(outbox'[i])) /\ "partition" \notin lost
        => retained.partition = partition
    BY <1>3 DEF OutboxInv, n
  <1>8. sent' \in 0..m
    BY <1>1
  <1>9. QED
    BY <1>1, <1>6, <1>7, <1>8 DEF OutboxInv, LastOfPartition, m

\* The message at the head leaves the outbox.
LEMMA HeadLeaves ==
  ASSUME OutboxInv, outbox # <<>>, outbox' = Tail(outbox),
         UNCHANGED <<brokerUp, retained, partition>>,
         \/ sent > 0 /\ sent' = sent - 1 /\ lost' = lost
         \/ /\ sent = 0 /\ sent' = 0
            /\ "partition" \notin lost'
                 => "partition" \notin lost /\ ~NewestOfPartition(outbox[1])
  PROVE  OutboxInv'
  <1> DEFINE n == Len(outbox)
  <1>1. /\ n \in Nat \ {0} /\ Len(outbox') = n - 1 /\ outbox' \in Seq(Messages)
        /\ \A i \in 1..n - 1 : outbox'[i] = outbox[i + 1]
        /\ sent \in 0..n /\ sent \in Nat
    BY DEF OutboxInv
  <1>2. n \in Nat \ {0} /\ sent \in 0..n /\ sent \in Nat
    BY <1>1
  <1> HIDE DEF n
  <1>3. /\ \A i \in 1..n - 1 : i + 1 \in 1..n
        /\ \A j \in 2..n : j - 1 \in 1..n - 1 /\ (j - 1) + 1 = j
        /\ \A i \in 1..n : i = 1 \/ i \in 2..n
        /\ sent' \in 0..n - 1 /\ (sent = 0 => sent' = 0)
        /\ 1 \in 1..n
    BY <1>2
  <1>4. ASSUME NEW i \in 1..n - 1, LastOfPartition(outbox', i, n - 1)
        PROVE  LastOfPartition(outbox, i + 1, n)
    <2>1. \A j \in i + 1 + 1..n : j \in 2..n /\ j - 1 \in i + 1..n - 1
      BY <1>2
    <2>2. \A j \in i + 1 + 1..n : outbox'[j - 1] = outbox[j]
      BY <1>1, <1>3, <2>1
    <2>3. QED
      BY <1>1, <1>3, <1>4, <2>1, <2>2 DEF LastOfPartition
  <1>5. ASSUME NEW i \in 1..n - 1, LastOfPartition(outbox', i, sent')
        PROVE  LastOfPartition(outbox, i + 1, sent)
    <2>1. i \in 1..sent' /\ sent = sent' + 1
      <3>1. i \in 1..sent'
        BY <1>5 DEF LastOfPartition
      <3>2. sent' # 0
        BY <3>1
      <3>3. QED
        BY <1>2, <3>1, <3>2
    <2>2. /\ i + 1 \in 1..sent
          /\ \A j \in i + 1 + 1..sent : j \in 2..n /\ j - 1 \in i + 1..sent'
      BY <1>2, <2>1
    <2>3. \A j \in i + 1 + 1..sent : outbox'[j - 1] = outbox[j]
      BY <1>1, <1>3, <2>2
    <2>4. QED
      BY <1>1, <1>5, <2>2, <2>3 DEF LastOfPartition
  <1>6. /\ "partition" \notin lost =>
             \A i \in 1..n - 1 :
               LastOfPartition(outbox', i, n - 1) => outbox'[i].value = partition
        /\ \A i \in 1..n - 1 :
             LastOfPartition(outbox', i, sent') => outbox'[i].value = retained.partition
    BY <1>1, <1>3, <1>4, <1>5 DEF OutboxInv, n
  <1>7. ASSUME \A i \in 1..n - 1 : ~OfPartition(outbox'[i]), "partition" \notin lost'
        PROVE  retained.partition = partition
    <2>1. \A j \in 2..n : ~OfPartition(outbox[j])
      <3>1. \A j \in 2..n : outbox'[j - 1] = outbox[j]
        BY <1>1, <1>3
      <3>2. QED
        BY <1>3, <1>7, <3>1
    <2>2. CASE ~OfPartition(outbox[1])
      <3>1. \A j \in 1..n : ~OfPartition(outbox[j])
        BY <1>3, <2>1, <2>2
      <3>2. "partition" \notin lost
        BY <1>7
      <3>3. QED
        BY <3>1, <3>2 DEF OutboxInv, n
    <2>3. CASE OfPartition(outbox[1])
      <3>1. LastOfPartition(outbox, 1, n)
        BY <1>3, <2>1, <2>3 DEF LastOfPartition
      <3>2. sent > 0
        BY <1>7, <2>1, <2>3 DEF NewestOfPartition, OfPartition, n
      <3>3. 1 \in 1..sent /\ \A j \in 1 + 1..sent : j \in 2..n
        BY <1>2, <3>2
      <3>4. LastOfPartition(outbox, 1, sent)
        BY <2>1, <2>3, <3>3 DEF LastOfPartition
      <3>5. QED
        BY <1>3, <1>7, <3>1, <3>4 DEF OutboxInv, n
    <2>4. QED
      BY <2>2, <2>3
  <1>8. brokerUp' \in BOOLEAN /\ (~brokerUp' => sent' = 0)
    BY <1>3 DEF OutboxInv
  <1>9. QED
    BY <1>1, <1>3, <1>6, <1>7, <1>8 DEF OutboxInv

\* A change of the partition is put in the outbox, or is not taken.
LEMMA ChangeQueued ==
  ASSUME OutboxInv, NEW v \in {"quiet", "alarm"}, PartitionChanges(v)
  PROVE  OutboxInv'
  <1> DEFINE m == Message("partition", v)
             n == Len(outbox) + 1
  <1>0. /\ partition' = v /\ v \in {"quiet", "alarm"} /\ UNCHANGED <<brokerUp, retained, sent>>
        /\ outbox \in Seq(Messages)
    BY DEF PartitionChanges, OutboxInv
  <1>a. m \in Messages /\ OfPartition(m) /\ m.value = v
    BY DEF Messages, Message, OfPartition
  <1>b. PICK topics \in SUBSET {m.topic} :
          outbox' = outbox \o Kept(m, topics) /\ lost' = (lost \cup {m.topic}) \ topics
    BY DEF PartitionChanges, OnStateChange, Publish, Enqueue, Loses
  <1>c. m.topic = "partition"
    BY <1>a DEF OfPartition
  <1>d. CASE "partition" \notin topics
    <2>1. Kept(m, topics) = <<>> /\ "partition" \in lost'
      BY <1>b, <1>c, <1>d DEF Kept
    <2>2. outbox' = outbox
      BY <1>0, <1>b, <2>1
    <2>3. QED
      BY <1>0, <2>1, <2>2 DEF OutboxInv, LastOfPartition
  <1> SUFFICES ASSUME "partition" \in topics
               PROVE  OutboxInv'
    BY <1>d
  <1>1. /\ outbox' = outbox \o <<m>> /\ partition' = v
        /\ UNCHANGED <<brokerUp, retained, sent>>
    BY <1>0, <1>b, <1>c DEF Kept
  <1>2. m \in Messages /\ OfPartition(m) /\ m.value = v
    BY <1>a
  <1> HIDE DEF m
  <1>3. /\ outbox' \in Seq(Messages) /\ Len(outbox') = n /\ n \in Nat
        /\ outbox'[n] = m /\ \A i \in 1..Len(outbox) : outbox'[i] = outbox[i]
        /\ Len(outbox) \in Nat /\ sent \in 0..Len(outbox)
    BY <1>1, <1>2 DEF OutboxInv
  <1>4. n \in 1..n /\ sent \in 0..n /\ \A i \in 1..n : i # n => n \in i + 1..n
    <2>1. Len(outbox) \in Nat /\ sent \in 0..Len(outbox)
      BY <1>3
    <2>2. QED
      BY <2>1
  <1>5. \A i \in 1..n : LastOfPartition(outbox', i, n) => i = n
    BY <1>2, <1>3, <1>4 DEF LastOfPartition
  <1>6. ASSUME NEW i \in 1..n, LastOfPartition(outbox', i, sent)
        PROVE  i \in 1..Len(outbox) /\ LastOfPartition(outbox, i, sent)
    <2>1. i \in 1..sent /\ i \in 1..Len(outbox) /\ \A j \in i + 1..sent : j \in 1..Len(outbox)
      BY <1>3, <1>6 DEF LastOfPartition
    <2>2. QED
      BY <1>3, <1>6, <2>1 DEF LastOfPartition
  <1>7. \A i \in 1..n : LastOfPartition(outbox', i, sent) => outbox'[i].value = retained.partition
    BY <1>3, <1>6 DEF OutboxInv
  <1>8. ~(\A i \in 1..n : ~OfPartition(outbox'[i]))
    BY <1>2, <1>3, <1>4
  <1> HIDE DEF n
  <1>9. QED
    BY <1>1, <1>2, <1>3, <1>4, <1>5, <1>7, <1>8 DEF OutboxInv

LEMMA Transmitted == OutboxInv /\ Transmit => OutboxInv'
  <1> SUFFICES ASSUME OutboxInv, Transmit
               PROVE  OutboxInv'
    OBVIOUS
  <1> DEFINE m == outbox[sent + 1]
             n == Len(outbox)
  <1>1. /\ brokerUp /\ sent < n /\ sent' = sent + 1
        /\ retained' = [retained EXCEPT ![m.topic] = m.value]
        /\ UNCHANGED <<brokerUp, outbox, partition, lost>>
    BY DEF Transmit
  <1>2. /\ outbox \in Seq(Messages) /\ n \in Nat /\ sent \in 0..n
    BY DEF OutboxInv
  <1>3. /\ sent + 1 \in 1..n /\ m \in Messages
    BY <1>1, <1>2
  <1> HIDE DEF m, n
  <1>4. /\ retained' \in [status : {"online", "offline"}, partition : {"quiet", "alarm"},
                          fw_version : {"installed", "newer"}]
        /\ retained'.partition = IF OfPartition(m) THEN m.value ELSE retained.partition
    <2>1. retained \in [status : {"online", "offline"}, partition : {"quiet", "alarm"},
                        fw_version : {"installed", "newer"}]
      BY DEF OutboxInv
    <2>2. CASE m \in [topic : {"status"}, value : {"online", "offline"}]
      BY <1>1, <2>1, <2>2 DEF OfPartition
    <2>3. CASE m \in [topic : {"partition"}, value : {"quiet", "alarm"}]
      BY <1>1, <2>1, <2>3 DEF OfPartition
    <2>4. CASE m \in [topic : {"fw_version"}, value : {"installed", "newer"}]
      BY <1>1, <2>1, <2>4 DEF OfPartition
    <2>5. QED
      BY <1>3, <2>2, <2>3, <2>4 DEF Messages
  <1>5. ASSUME NEW i \in 1..n, LastOfPartition(outbox, i, sent')
        PROVE  outbox[i].value = retained'.partition
    <2>1. CASE OfPartition(m)
      <3>1. i \in 1..sent + 1 /\ ~(sent + 1 \in i + 1..sent + 1)
        BY <1>1, <1>5, <2>1 DEF LastOfPartition, m
      <3>2. i = sent + 1
        BY <1>2, <3>1
      <3>3. QED
        BY <1>4, <2>1, <3>2 DEF m
    <2>2. CASE ~OfPartition(m)
      <3>1. i \in 1..sent + 1 /\ OfPartition(outbox[i]) /\ i # sent + 1
        BY <1>1, <1>5, <2>2 DEF LastOfPartition, m
      <3>2. i \in 1..sent /\ \A j \in i + 1..sent : j \in i + 1..sent + 1
        BY <1>2, <3>1
      <3>3. LastOfPartition(outbox, i, sent)
        BY <1>1, <1>5, <3>1, <3>2 DEF LastOfPartition
      <3>4. outbox[i].value = retained.partition
        BY <3>3 DEF OutboxInv, n
      <3>5. QED
        BY <1>4, <2>2, <3>4
    <2>3. QED
      BY <2>1, <2>2
  <1>6. ASSUME \A i \in 1..n : ~OfPartition(outbox[i]), "partition" \notin lost
        PROVE  retained'.partition = partition
    <2>1. ~OfPartition(m)
      BY <1>3, <1>6 DEF m
    <2>2. retained.partition = partition
      BY <1>6 DEF OutboxInv, n
    <2>3. QED
      BY <1>4, <2>1, <2>2
  <1>7. sent' \in 0..n
    BY <1>1, <1>2
  <1>8. QED
    BY <1>1, <1>4, <1>5, <1>6, <1>7 DEF OutboxInv, n

LEMMA OutboxStep == OutboxInv /\ [MqttNext]_mqttVars => OutboxInv'
  <1> SUFFICES ASSUME OutboxInv, [MqttNext]_mqttVars
               PROVE  OutboxInv'
    OBVIOUS
  <1> DEFINE Shown == [status : {"online", "offline"}, partition : {"quiet", "alarm"},
                       fw_version : {"installed", "newer"}]
  <1>0. /\ outbox \in Seq(Messages) /\ brokerUp \in BOOLEAN /\ (~brokerUp => sent = 0)
        /\ retained \in Shown /\ sent \in Nat
    BY DEF OutboxInv
  <1>1. ASSUME UNCHANGED <<brokerUp, retained, outbox, sent, partition, lost>>
        PROVE  OutboxInv'
    BY <1>1 DEF OutboxInv, LastOfPartition
  <1>2. CASE UNCHANGED mqttVars \/ NetworkChanges
    BY <1>1, <1>2 DEF mqttVars, NetworkChanges
  <1>3. CASE Transmit
    BY <1>3, Transmitted
  <1>4. CASE Acknowledged
    <2>1. outbox # <<>>
      BY <1>4 DEF Acknowledged, OutboxInv
    <2>2. QED
      BY <1>0, <1>4, <2>1, HeadLeaves DEF Acknowledged
  <1>5. CASE Expires
    <2>1. /\ outbox # <<>> /\ outbox' = Tail(outbox) /\ sent = 0 /\ sent' = sent
          /\ UNCHANGED <<brokerUp, retained, partition>>
          /\ lost' = IF NewestOfPartition(Head(outbox)) THEN lost \cup {"partition"} ELSE lost
      BY <1>0, <1>5 DEF Expires
    <2>2. Head(outbox) = outbox[1]
      BY <1>0, <2>1
    <2>3. "partition" \notin lost' => "partition" \notin lost /\ ~NewestOfPartition(outbox[1])
      BY <2>1, <2>2
    <2>4. QED
      BY <2>1, <2>3, HeadLeaves
  <1>6. ASSUME outbox' = outbox, sent' \in {0, sent}, brokerUp' \in BOOLEAN, ~brokerUp' => sent' = 0,
               retained' \in Shown, retained'.partition = retained.partition,
               partition' = partition, "partition" \in lost' <=> "partition" \in lost
        PROVE  OutboxInv'
    <2>1. sent' \in 0..Len(outbox)
      BY <1>6 DEF OutboxInv
    <2>2. \A i \in 1..Len(outbox) : LastOfPartition(outbox, i, sent') => LastOfPartition(outbox, i, sent)
      BY <1>6 DEF LastOfPartition
    <2>3. QED
      BY <1>6, <2>1, <2>2 DEF OutboxInv
  <1>7. CASE ConnectionLost
    BY <1>0, <1>6, <1>7 DEF ConnectionLost
  <1>8. CASE WillPublished
    BY <1>0, <1>6, <1>8 DEF WillPublished
  <1>9. CASE MqttConnects
    <2> DEFINE online == Message("status", "online")
               installed == FwVersion("installed")
    <2>1. PICK topics \in SUBSET {"status", "fw_version", "commands"} :
            /\ outbox' = outbox \o (Kept(online, topics) \o Kept(installed, topics))
            /\ lost' = (lost \cup {"status", "fw_version", "commands"}) \ topics
      BY <1>9 DEF MqttConnects, OnConnect, Enqueue, Loses
    <2>2. /\ sent' = sent /\ brokerUp' = TRUE
          /\ retained' \in Shown /\ retained'.partition = retained.partition
          /\ partition' = partition
      BY <1>0, <1>9 DEF MqttConnects
    <2>3. Others(Kept(online, topics)) /\ Others(Kept(installed, topics))
      BY KeptOthers DEF FwVersion
    <2>4. "partition" \notin lost' => "partition" \notin lost
      BY <2>1
    <2> HIDE DEF online, installed
    <2>5. Others(Kept(online, topics) \o Kept(installed, topics))
      BY <2>3, OthersJoined
    <2>6. QED
      BY <2>1, <2>2, <2>4, <2>5, OthersQueued DEF Others
  <1>10. CASE OnNewFirmware
    <2>1. PICK topics \in SUBSET {"fw_version"} :
            /\ outbox' = outbox \o Kept(FwVersion("newer"), topics)
            /\ lost' = (lost \cup {"fw_version"}) \ topics
      BY <1>10 DEF OnNewFirmware, Publish, FwVersion, Message, Enqueue, Loses
    <2>2. UNCHANGED <<brokerUp, retained, sent, partition>>
      BY <1>10 DEF OnNewFirmware
    <2>3. Others(Kept(FwVersion("newer"), topics))
      BY KeptOthers DEF FwVersion
    <2>4. "partition" \notin lost' => "partition" \notin lost
      BY <2>1
    <2>5. QED
      BY <1>0, <2>1, <2>2, <2>3, <2>4, OthersQueued DEF Others
  <1>11. CASE \E v \in {"quiet", "alarm"} : PartitionChanges(v)
    BY <1>11, ChangeQueued
  <1>12. QED
    BY <1>2, <1>3, <1>4, <1>5, <1>7, <1>8, <1>9, <1>10, <1>11 DEF MqttNext

\* Once the outbox is empty the broker shows the partition's state (mqtt_on_state_change),
\* for an outbox of any size, whatever was sent twice or lost with the connection and
\* whichever messages were not taken, unless the newest one was not taken or expired.
THEOREM BrokerShowsPartition == MqttSpec => []PartitionIsShown
  <1>1. MqttInit => OutboxInv
    <2>1. MqttInit => /\ outbox \in Seq(Messages) /\ Len(outbox) = 0 /\ 1..Len(outbox) = {}
                      /\ sent = 0 /\ brokerUp = FALSE
                      /\ partition = "quiet" /\ retained.partition = "quiet"
                      /\ retained \in [status : {"online", "offline"}, partition : {"quiet", "alarm"},
                                       fw_version : {"installed", "newer"}]
      BY DEF MqttInit
    <2>2. MqttInit => /\ sent \in 0..Len(outbox) /\ brokerUp \in BOOLEAN
                      /\ partition \in {"quiet", "alarm"} /\ retained.partition = partition
      <3>1. 0 \in 0..0 /\ FALSE \in BOOLEAN
        OBVIOUS
      <3>2. QED
        BY <2>1, <3>1
    <2>3. QED
      BY <2>1, <2>2 DEF OutboxInv
  <1>2. OutboxInv => PartitionIsShown
    <2>1. outbox = <<>> => 1..Len(outbox) = {}
      OBVIOUS
    <2>2. QED
      BY <2>1 DEF OutboxInv, PartitionIsShown
  <1>3. QED
    BY <1>1, <1>2, OutboxStep, PTL DEF MqttSpec

--------------------------------------------------------------------------------
(* The panic buttons. *)

Ages == 0..(2 * Period)

\* Two presses that the count stands for: the later one set the timer, and the timer
\* was running since the earlier one.
TwoPresses ==
  \E k, l \in Ages :
    /\ k <= l /\ k + trigger_timer <= Period /\ l + trigger_timer <= 2 * Period
    /\ pressed[k] >= 1 /\ pressed[l] >= 1
    /\ k = l => pressed[k] >= 2

ButtonInv ==
  /\ trigger_count \in 0..4 /\ trigger_timer \in 0..Period
  /\ pressed \in [Ages -> 0..3]
  /\ clearing \in BOOLEAN /\ untimed \in BOOLEAN /\ alarmSent \in BOOLEAN
  /\ trigger_count >= 1 /\ ~untimed =>
       /\ trigger_timer >= 1 /\ ~clearing
       /\ \E k \in Ages : k + trigger_timer <= Period /\ pressed[k] >= 1
       /\ trigger_count >= 2 => TwoPresses
  /\ PanicTakesThreePresses

LEMMA ButtonConstants == Period \in Nat \ {0} /\ 2 * Period \in Nat /\ 0 \in Ages
  BY ButtonAssumption DEF Ages

LEMMA PressesAreFinite ==
  /\ IsFiniteSet(Ages \X (1..3))
  /\ IsFiniteSet(Presses) /\ IsFiniteSet(Presses') 
  /\ Cardinality(Presses) \in Nat /\ Cardinality(Presses') \in Nat
  <1>1. IsFiniteSet(Ages) /\ IsFiniteSet(1..3)
    <2>1. 0 \in Int /\ 2 * Period \in Int /\ 1 \in Int /\ 3 \in Int
      BY ButtonConstants
    <2>2. QED
      BY <2>1, FS_Interval DEF Ages
  <1>2. IsFiniteSet(Ages \X (1..3))
    BY <1>1, FS_Product
  <1>3. Presses \subseteq Ages \X (1..3) /\ Presses' \subseteq Ages \X (1..3)
    BY DEF Presses, Ages
  <1>4. IsFiniteSet(Presses) /\ IsFiniteSet(Presses')
    BY <1>2, <1>3, FS_Subset
  <1>5. QED
    BY <1>2, <1>4, FS_CardinalityType

\* Three different presses are three.
LEMMA ThreeArePresses ==
  ASSUME NEW a \in Presses', NEW b \in Presses', NEW c \in Presses', a # b, a # c, b # c
  PROVE  Cardinality(Presses') >= 3
  <1>1. /\ IsFiniteSet({a}) /\ Cardinality({a}) = 1
    BY FS_Singleton
  <1>2. /\ IsFiniteSet({a} \cup {b}) /\ Cardinality({a} \cup {b}) = 2
    BY <1>1, FS_AddElement
  <1>3. /\ IsFiniteSet(({a} \cup {b}) \cup {c}) /\ Cardinality(({a} \cup {b}) \cup {c}) = 3
    BY <1>2, FS_AddElement
  <1>4. ({a} \cup {b}) \cup {c} \subseteq Presses'
    OBVIOUS
  <1>5. 3 <= Cardinality(Presses')
    BY <1>3, <1>4, PressesAreFinite, FS_Subset
  <1>6. QED
    BY <1>5, PressesAreFinite

LEMMA PressStep ==
  ASSUME ButtonInv, NEW created \in BOOLEAN, Press(created)
  PROVE  ButtonInv'
  <1> USE ButtonConstants
  <1>1. /\ trigger_count' = IF trigger_count < 4 THEN trigger_count + 1 ELSE 4
        /\ pressed' = [pressed EXCEPT ![0] = Min3(pressed[0] + 1)]
        /\ alarmSent' = (trigger_count + 1 >= 3)
        /\ trigger_timer' = IF trigger_count + 1 >= 3 THEN trigger_timer
                            ELSE IF trigger_timer # 0 \/ created THEN Period ELSE 0
        /\ untimed' = (untimed \/ clearing \/ trigger_timer' = 0)
        /\ clearing' = clearing
    BY DEF Press
  <1>2. /\ trigger_count \in 0..4 /\ trigger_timer \in 0..Period /\ pressed \in [Ages -> 0..3]
        /\ clearing \in BOOLEAN /\ untimed \in BOOLEAN
    BY DEF ButtonInv
  <1>3. /\ pressed' \in [Ages -> 0..3] /\ pressed'[0] = Min3(pressed[0] + 1)
        /\ \A k \in Ages : k # 0 => pressed'[k] = pressed[k]
        /\ Min3(pressed[0] + 1) \in 0..3
    <2>1. pressed[0] \in 0..3 /\ Min3(pressed[0] + 1) \in 0..3
      BY <1>2 DEF Min3
    <2>2. QED
      BY <1>1, <1>2, <2>1
  <1>4. /\ pressed'[0] >= 1 /\ (pressed[0] >= 1 => pressed'[0] >= 2)
        /\ (pressed[0] >= 2 => pressed'[0] >= 3)
        /\ \A k \in Ages : pressed[k] \in 0..3 /\ pressed'[k] \in 0..3 /\ pressed[k] <= pressed'[k]
    <2>1. pressed[0] \in 0..3
      BY <1>2
    <2>2. \A k \in Ages : pressed[k] \in 0..3 /\ pressed'[k] \in 0..3
      BY <1>2, <1>3
    <2>3. pressed'[0] >= 1 /\ pressed[0] <= pressed'[0] /\ (pressed[0] >= 1 => pressed'[0] >= 2)
          /\ (pressed[0] >= 2 => pressed'[0] >= 3)
      BY <1>3, <2>1 DEF Min3
    <2>4. ASSUME NEW k \in Ages PROVE pressed[k] <= pressed'[k]
      BY <1>3, <2>2, <2>3
    <2>5. QED
      BY <2>2, <2>3, <2>4
  <1>5. /\ trigger_count' \in 0..4 /\ trigger_timer' \in 0..Period
        /\ clearing' \in BOOLEAN /\ untimed' \in BOOLEAN /\ alarmSent' \in BOOLEAN
    <2>1. trigger_count' \in 0..4
      BY <1>1, <1>2
    <2>2. trigger_timer' \in 0..Period
      BY <1>1, <1>2
    <2>3. QED
      BY <1>1, <1>2, <2>1, <2>2
  <1> SUFFICES ASSUME ~untimed'
               PROVE  ButtonInv'
    BY <1>3, <1>5 DEF ButtonInv, PanicTakesThreePresses
  <1>6. ~untimed /\ ~clearing /\ ~clearing' /\ trigger_timer' >= 1
    <2>1. trigger_timer' # 0
      BY <1>1
    <2>2. trigger_timer' \in 0..Period /\ Period \in Nat
      BY <1>5
    <2>3. trigger_timer' >= 1
      BY <2>1, <2>2
    <2>4. QED
      BY <1>1, <2>3
  <1>7. CASE trigger_count = 0
    <2>1. trigger_count' = 1 /\ ~alarmSent'
      BY <1>1, <1>7
    <2>2. 0 + trigger_timer' <= Period
      <3>1. trigger_timer' \in Int /\ trigger_timer' <= Period
        BY <1>5
      <3>2. \A t \in Int : t <= Period => 0 + t <= Period
        OBVIOUS
      <3>3. QED
        BY <3>1, <3>2
    <2>3. QED
      BY <1>3, <1>4, <1>5, <1>6, <2>1, <2>2 DEF ButtonInv, PanicTakesThreePresses
  <1>8. CASE trigger_count = 1
    <2>1. trigger_count' = 2 /\ ~alarmSent' /\ trigger_timer' = Period
      <3>1. trigger_timer' = IF trigger_timer # 0 \/ created THEN Period ELSE 0
        BY <1>1, <1>8
      <3>2. trigger_timer' # 0
        BY <1>1
      <3>3. trigger_timer' = Period
        BY <3>1, <3>2
      <3>4. QED
        BY <1>1, <1>8, <3>3
    <2>2. PICK l \in Ages : l + trigger_timer <= Period /\ pressed[l] >= 1
      BY <1>6, <1>8 DEF ButtonInv
    <2>3. l <= Period /\ l \in Nat
      BY <1>2, <2>2 DEF Ages
    <2>4. /\ 0 <= l /\ 0 + trigger_timer' <= Period /\ l + trigger_timer' <= 2 * Period
          /\ pressed'[0] >= 1 /\ pressed'[l] >= 1 /\ (0 = l => pressed'[0] >= 2)
      BY <1>4, <2>1, <2>2, <2>3
    <2>5. TwoPresses'
      BY <2>4 DEF TwoPresses
    <2>6. QED
      BY <1>3, <1>4, <1>5, <1>6, <2>1, <2>4, <2>5 DEF ButtonInv, PanicTakesThreePresses
  <1>9. CASE trigger_count >= 2
    <2>1. trigger_timer' = trigger_timer
      BY <1>1, <1>2, <1>9
    <2>2. PICK k \in Ages, l \in Ages :
            /\ k <= l /\ k + trigger_timer <= Period /\ l + trigger_timer <= 2 * Period
            /\ pressed[k] >= 1 /\ pressed[l] >= 1 /\ (k = l => pressed[k] >= 2)
      BY <1>2, <1>6, <1>9 DEF ButtonInv, TwoPresses
    <2>3. /\ pressed'[k] >= 1 /\ pressed'[l] >= 1 /\ (k = l => pressed'[k] >= 2)
      BY <1>4, <2>2
    <2>4. TwoPresses'
      BY <2>1, <2>2, <2>3 DEF TwoPresses
    <2>5. ASSUME NEW j \in Ages
          PROVE  /\ pressed'[j] >= 1 => <<j, 1>> \in Presses'
                 /\ pressed'[j] >= 2 => <<j, 2>> \in Presses'
                 /\ pressed'[j] >= 3 => <<j, 3>> \in Presses'
      <3>1. pressed'[j] \in 0..3
        BY <1>4
      <3>2. \A n \in 1..3 : <<j, n>> \in (0..(2 * Period)) \X (1..3)
        BY DEF Ages
      <3>3. \A n \in 1..3 : n <= pressed'[j] => <<j, n>> \in Presses'
        BY <3>2 DEF Presses
      <3>4. QED
        BY <3>1, <3>3
    <2>6. Cardinality(Presses') >= 3
      <3>1. CASE l = 0
        <4>1. k = 0 /\ pressed'[0] >= 3
          BY <1>4, <2>2, <3>1 DEF Ages
        <4>2. <<0, 1>> \in Presses' /\ <<0, 2>> \in Presses' /\ <<0, 3>> \in Presses'
          BY <1>4, <2>5, <4>1
        <4>3. QED
          BY <4>2, ThreeArePresses
      <3>2. CASE l # 0 /\ k = 0
        <4>1. pressed'[0] >= 2
          BY <1>4, <2>2, <3>2
        <4>2. <<0, 1>> \in Presses' /\ <<0, 2>> \in Presses' /\ <<l, 1>> \in Presses'
          BY <1>4, <2>3, <2>5, <4>1, 0 \in Ages
        <4>3. QED
          BY <3>2, <4>2, ThreeArePresses
      <3>3. CASE k # 0 /\ k # l /\ l # 0
        <4>1. <<0, 1>> \in Presses' /\ <<k, 1>> \in Presses' /\ <<l, 1>> \in Presses'
          BY <1>4, <2>3, <2>5
        <4>2. QED
          BY <3>3, <4>1, ThreeArePresses
      <3>4. CASE k # 0 /\ k = l
        <4>1. <<0, 1>> \in Presses' /\ <<k, 1>> \in Presses' /\ <<k, 2>> \in Presses'
          BY <1>4, <2>3, <2>5, <3>4
        <4>2. QED
          BY <3>4, <4>1, ThreeArePresses
      <3>5. QED
        BY <3>1, <3>2, <3>3, <3>4
    <2>7. k + trigger_timer' <= Period
      BY <2>1, <2>2
    <2>8. QED
      BY <1>3, <1>5, <1>6, <2>3, <2>4, <2>6, <2>7 DEF ButtonInv, PanicTakesThreePresses
  <1>10. QED
    BY <1>2, <1>7, <1>8, <1>9

LEMMA TickStep ==
  ASSUME ButtonInv, Tick
  PROVE  ButtonInv'
  <1> USE ButtonConstants
  <1>1. /\ trigger_timer # 1 /\ ~clearing
        /\ trigger_timer' = IF trigger_timer = 0 THEN 0 ELSE trigger_timer - 1
        /\ pressed' = [k \in Ages |-> IF k = 0 THEN 0 ELSE pressed[k - 1]]
        /\ alarmSent' = FALSE
        /\ UNCHANGED <<trigger_count, clearing, untimed>>
    BY DEF Tick, Ages
  <1>2. /\ trigger_count \in 0..4 /\ trigger_timer \in 0..Period /\ pressed \in [Ages -> 0..3]
        /\ clearing \in BOOLEAN /\ untimed \in BOOLEAN
    BY DEF ButtonInv
  <1>3. trigger_timer' \in 0..Period
    BY <1>1, <1>2
  <1>4. pressed' \in [Ages -> 0..3]
    <2>1. \A k \in Ages : k # 0 => k - 1 \in Ages
      BY DEF Ages
    <2>2. \A k \in Ages : (IF k = 0 THEN 0 ELSE pressed[k - 1]) \in 0..3
      BY <1>2, <2>1
    <2>3. QED
      BY <1>1, <2>2
  <1>5. ASSUME NEW k \in Ages, k + 1 \in Ages
        PROVE  pressed'[k + 1] = pressed[k]
    <2>1. k + 1 # 0 /\ (k + 1) - 1 = k
      BY DEF Ages
    <2>2. QED
      BY <1>1, <1>5, <2>1
  <1>6. FALSE \in BOOLEAN /\ ~alarmSent'
    BY <1>1
  <1> SUFFICES ASSUME trigger_count >= 1, ~untimed
               PROVE  ButtonInv'
    BY <1>1, <1>2, <1>3, <1>4, <1>6 DEF ButtonInv, PanicTakesThreePresses
  <1>7. /\ trigger_timer >= 2 /\ trigger_timer' = trigger_timer - 1 /\ trigger_timer' >= 1
    <2>1. trigger_timer >= 1
      BY DEF ButtonInv
    <2>2. QED
      BY <1>1, <1>2, <2>1
  <1>8. PICK k \in Ages : k + trigger_timer <= Period /\ pressed[k] >= 1
    BY DEF ButtonInv
  <1>9. k + 1 \in Ages /\ (k + 1) + trigger_timer' <= Period /\ pressed'[k + 1] >= 1
    <2>1. k + 1 \in Ages /\ (k + 1) + trigger_timer' <= Period
      BY <1>2, <1>7, <1>8 DEF Ages
    <2>2. QED
      BY <1>5, <1>8, <2>1
  <1>10. ASSUME TwoPresses
         PROVE  TwoPresses'
    <2>1. PICK i \in Ages, j \in Ages :
            /\ i <= j /\ i + trigger_timer <= Period /\ j + trigger_timer <= 2 * Period
            /\ pressed[i] >= 1 /\ pressed[j] >= 1 /\ (i = j => pressed[i] >= 2)
      BY <1>10 DEF TwoPresses
    <2>2. /\ i + 1 \in Ages /\ j + 1 \in Ages /\ i + 1 <= j + 1
          /\ (i + 1) + trigger_timer' <= Period /\ (j + 1) + trigger_timer' <= 2 * Period
          /\ (i + 1 = j + 1 => i = j)
      BY <1>2, <1>7, <2>1 DEF Ages
    <2>3. pressed'[i + 1] = pressed[i] /\ pressed'[j + 1] = pressed[j]
      BY <1>5, <2>2
    <2>4. QED
      BY <2>1, <2>2, <2>3 DEF TwoPresses
  <1>11. trigger_count >= 2 => TwoPresses'
    BY <1>10 DEF ButtonInv
  <1>12. QED
    BY <1>1, <1>2, <1>3, <1>4, <1>6, <1>7, <1>9, <1>11 DEF ButtonInv, PanicTakesThreePresses

\* The panel is told of a panic only after three presses within two periods of the timer
\* (cap_panic_alarm_cmd_cb and its like), whatever its period, unless a press found no
\* timer or came while the timer's callback ran.
THEOREM PanicNeedsThreePresses == ButtonSpec => []PanicTakesThreePresses
  <1> USE ButtonConstants
  <1>1. ButtonInit => ButtonInv
    <2> SUFFICES ASSUME ButtonInit
                 PROVE  ButtonInv
      OBVIOUS
    <2>1. /\ trigger_count = 0 /\ trigger_timer = 0 /\ pressed = [k \in Ages |-> 0]
          /\ clearing = FALSE /\ untimed = FALSE /\ alarmSent = FALSE
      BY DEF ButtonInit, Ages
    <2>2. trigger_count \in 0..4 /\ trigger_timer \in 0..Period /\ pressed \in [Ages -> 0..3]
      BY <2>1
    <2>3. ~(trigger_count >= 1)
      BY <2>1
    <2>4. QED
      BY <2>1, <2>2, <2>3 DEF ButtonInv, PanicTakesThreePresses
  <1>2. ButtonInv /\ [ButtonNext]_pressVars => ButtonInv'
    <2> SUFFICES ASSUME ButtonInv, [ButtonNext]_pressVars
                 PROVE  ButtonInv'
      OBVIOUS
    <2>1. CASE \E created \in BOOLEAN : Press(created)
      BY <2>1, PressStep
    <2>2. CASE Tick
      BY <2>2, TickStep
    <2>3. CASE TriggerClears
      <3>1. /\ clearing' = TRUE /\ trigger_count' = 0 /\ untimed' = FALSE /\ alarmSent' = FALSE
            /\ UNCHANGED <<trigger_timer, pressed>>
        BY <2>3 DEF TriggerClears
      <3>2. trigger_count' \in 0..4 /\ ~(trigger_count' >= 1)
        BY <3>1
      <3>3. QED
        BY <3>1, <3>2 DEF ButtonInv, PanicTakesThreePresses
    <2>4. CASE TriggerCleared
      <3>1. /\ clearing /\ clearing' = FALSE /\ trigger_timer' = 0 /\ alarmSent' = FALSE
            /\ UNCHANGED <<trigger_count, pressed, untimed>>
        BY <2>4 DEF TriggerCleared
      <3>2. ~(trigger_count >= 1 /\ ~untimed)
        BY <3>1 DEF ButtonInv
      <3>3. trigger_timer' \in 0..Period
        BY <3>1
      <3>4. QED
        BY <3>1, <3>2, <3>3 DEF ButtonInv, PanicTakesThreePresses
    <2>5. CASE UNCHANGED pressVars
      BY <2>5 DEF pressVars, ButtonInv, TwoPresses, PanicTakesThreePresses, Presses
    <2>6. QED
      BY <2>1, <2>2, <2>3, <2>4, <2>5 DEF ButtonNext
  <1>3. ButtonInv => PanicTakesThreePresses
    BY DEF ButtonInv
  <1>4. QED
    BY <1>1, <1>2, <1>3, PTL DEF ButtonSpec
================================================================================
