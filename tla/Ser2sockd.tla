-------------------------------- MODULE Ser2sockd --------------------------------
(***************************************************************************)
(* The ser2sock server: every byte the alarm panel sends goes to every     *)
(* connected client.  Three tasks share the table my_fds:                  *)
(*   - the parser's task queues each buffer for each client                *)
(*     (ser2sockd_sendall) and marks a client whose queue is full;         *)
(*   - the server task accepts, reads, writes and closes sockets;          *)
(*   - the task that restarts the device runs ser2sockd_shutdown.          *)
(*                                                                         *)
(* A step is one critical section of fds_mutex, or what lies between two   *)
(* of them: what a task copied from the table may be stale when it uses    *)
(* it.  External: the sockets (open, with the lowest free number next),    *)
(* and what each call on them returns.                                     *)
(***************************************************************************)
EXTENDS Integers, Sequences, FiniteSetsExt

CONSTANTS
  MAXCONNECTIONS,    \* slots: the listening socket and the clients
  MAX_FIFO_BUFFERS,  \* buffers queued per client
  MaxFd,             \* sockets the network stack has
  BufferSize,        \* bytes of a buffer
  MaxSent            \* bound on the number of buffers from the panel

Slots == 0..(MAXCONNECTIONS - 1)
Fds   == 1..MaxFd
NoFd  == -1

ASSUME ServerAssumption ==
  /\ MAXCONNECTIONS \in Nat \ {0}
  /\ MAX_FIFO_BUFFERS \in Nat \ {0}
  /\ MaxFd \in Nat \ {0}
  /\ BufferSize \in Nat \ {0}
  /\ MaxSent \in Nat

VARIABLES
  my_fds,         \* my_fds[n]: fd_type, fd, disconnect_requested, send_buffer
  listen_sock,
  ser2sockd_shutting_down,
  sockets,        \* sockets[fd]: "free", "listen" or "client"
  connected,      \* hal_get_network_connected()
  pc, n,          \* the server task's place and the slot its loop is at
  fd,             \* the descriptor it works on
  cleanup, after, \* slots it still has to clean up, and where it goes then
  closing,        \* a descriptor it took out of the table and has not closed
  read_fdset, write_fdset,
  producer,       \* the parser's task: "idle", or "add" after the flag was tested
  shut, shutFd,   \* the restarting task: -1, its slot, MAXCONNECTIONS at the end; as closing
  \* What was sent: buffers from the panel so far, and for each client socket
  \* how far in that stream it has got.
  sent, reached

server   == <<pc, n, fd, cleanup, after, closing, read_fdset, write_fdset>>
shutdown == <<ser2sockd_shutting_down, shut, shutFd>>
vars == <<my_fds, listen_sock, sockets, connected, server, producer, shutdown, sent,
          reached>>

Unused == [fd_type |-> "NA", fd |-> NoFd, disconnect_requested |-> FALSE,
           send_buffer |-> <<>>]

InUse(k)    == my_fds[k].fd_type # "NA"
IsClient(k) == my_fds[k].fd_type = "client"

Init ==
  /\ my_fds = [k \in Slots |-> Unused]
  /\ listen_sock = NoFd
  /\ ser2sockd_shutting_down = FALSE
  /\ sockets = [f \in Fds |-> "free"]
  /\ connected = FALSE
  /\ pc = "start" /\ n = 0 /\ fd = NoFd
  /\ cleanup = {} /\ after = "start" /\ closing = NoFd
  /\ read_fdset = {} /\ write_fdset = {}
  /\ producer = "idle"
  /\ shut = -1 /\ shutFd = NoFd
  /\ sent = 0
  /\ reached = [f \in Fds |-> 0]

--------------------------------------------------------------------------------
(* ser2sockd_sendall, in the parser's task. *)

Test ==
  /\ producer = "idle"
  /\ sent < MaxSent
  /\ ~ser2sockd_shutting_down
  /\ producer' = "add"
  /\ UNCHANGED <<my_fds, listen_sock, sockets, connected, server, shutdown, sent, reached>>

Buffer == [id |-> sent + 1, offset |-> 0]

\* Mutant: a client that is marked already still gets what fits.
QueuedUnlessFull(slot, failed) ==
  IF slot.fd_type # "client" THEN slot
  ELSE IF failed \/ Len(slot.send_buffer) = MAX_FIFO_BUFFERS
       THEN [slot EXCEPT !.disconnect_requested = TRUE]
       ELSE [slot EXCEPT !.send_buffer = Append(@, Buffer)]

\* No memory or no room in the queue: the client is marked and gets no more.
Queued(slot, failed) ==
  IF slot.fd_type # "client" \/ slot.disconnect_requested THEN slot
  ELSE IF failed \/ Len(slot.send_buffer) = MAX_FIFO_BUFFERS
       THEN [slot EXCEPT !.disconnect_requested = TRUE]
       ELSE [slot EXCEPT !.send_buffer = Append(@, Buffer)]

\* noMemory: the clients for which malloc() fails.
SendAll(noMemory) ==
  /\ producer = "add"
  /\ my_fds' = [k \in Slots |-> Queued(my_fds[k], k \in noMemory)]
  /\ sent' = sent + 1
  /\ producer' = "idle"
  /\ UNCHANGED <<listen_sock, sockets, connected, server, shutdown, reached>>

--------------------------------------------------------------------------------
(* _cleanup_fd: the slot is freed under the mutex, the socket closed after. *)

\* Mutant: the slot is only marked before its socket is closed.
ReleasedByMark(k) == [my_fds EXCEPT ![k].disconnect_requested = InUse(k)]

Released(k) == [my_fds EXCEPT ![k] = Unused]
ClosedSocket(f) == [sockets EXCEPT ![f] = "free"]
ListenAfter(f)  == IF f = listen_sock THEN NoFd ELSE listen_sock

\* The server task: the slots in cleanup, lowest first, then on with the loop.
CleanUp ==
  /\ pc = "cleanup" /\ closing = NoFd /\ cleanup # {}
  /\ LET k == Min(cleanup) IN
     /\ cleanup' = cleanup \ {k}
     /\ closing' = my_fds[k].fd
     /\ my_fds' = Released(k)
  /\ UNCHANGED <<listen_sock, sockets, connected, pc, n, fd, after, read_fdset,
                 write_fdset, producer, shutdown, sent, reached>>

Close ==
  /\ pc = "cleanup" /\ closing # NoFd
  /\ sockets' = ClosedSocket(closing)
  /\ listen_sock' = ListenAfter(closing)
  /\ closing' = NoFd
  /\ reached' = [reached EXCEPT ![closing] = 0]
  /\ UNCHANGED <<my_fds, connected, pc, n, fd, cleanup, after, read_fdset,
                 write_fdset, producer, shutdown, sent>>

CleanedUp ==
  /\ pc = "cleanup" /\ closing = NoFd /\ cleanup = {}
  /\ pc' = after /\ after' = "start"
  /\ UNCHANGED <<my_fds, listen_sock, sockets, connected, n, fd, cleanup, closing,
                 read_fdset, write_fdset, producer, shutdown, sent, reached>>

\* ser2sockd_shutdown: every slot once, in the restarting task.
StartShutdown ==
  /\ shut = -1
  /\ ser2sockd_shutting_down' = TRUE
  /\ shut' = 0
  /\ UNCHANGED <<my_fds, listen_sock, sockets, connected, server, producer, shutFd,
                 sent, reached>>

Shutdown ==
  /\ shut \in Slots /\ shutFd = NoFd
  /\ shutFd' = my_fds[shut].fd
  /\ my_fds' = Released(shut)
  /\ shut' = IF InUse(shut) THEN shut ELSE shut + 1
  /\ UNCHANGED <<listen_sock, sockets, connected, server, producer,
                 ser2sockd_shutting_down, sent, reached>>

ShutdownClose ==
  /\ shutFd # NoFd
  /\ sockets' = ClosedSocket(shutFd)
  /\ listen_sock' = ListenAfter(shutFd)
  /\ shutFd' = NoFd
  /\ shut' = shut + 1
  /\ reached' = [reached EXCEPT ![shutFd] = 0]
  /\ UNCHANGED <<my_fds, connected, server, producer, ser2sockd_shutting_down, sent>>

--------------------------------------------------------------------------------
(* ser2sockd_server_task: opening the listening socket. *)

unchangedByServer == <<connected, producer, shutdown, sent>>

Goto(place) == pc' = place /\ UNCHANGED <<n, fd, cleanup, after, closing, read_fdset, write_fdset>>

\* _cleanup_fd for the slots ks, then on at place with slot k.
GotoCleanUp(ks, place, k) ==
  /\ pc' = "cleanup" /\ cleanup' = ks /\ after' = place /\ n' = k /\ fd' = NoFd
  /\ UNCHANGED <<closing, read_fdset, write_fdset>>

FreeFds == {f \in Fds : sockets[f] = "free"}

\* No free socket ends the task.
Open ==
  /\ pc = "start" /\ connected
  /\ ~ser2sockd_shutting_down
  /\ IF FreeFds = {}
     THEN Goto("ended") /\ listen_sock' = NoFd /\ UNCHANGED sockets
     ELSE /\ listen_sock' = Min(FreeFds)
          /\ sockets' = [sockets EXCEPT ![Min(FreeFds)] = "listen"]
          /\ Goto("bind")
  /\ UNCHANGED <<my_fds, unchangedByServer, reached>>

Stop ==
  /\ pc = "start" /\ ser2sockd_shutting_down
  /\ Goto("ended")
  /\ UNCHANGED <<my_fds, listen_sock, sockets, unchangedByServer, reached>>

\* bind() and listen().
Bind(ok) ==
  /\ pc = "bind"
  /\ IF ok THEN /\ pc' = "add" /\ fd' = listen_sock
                /\ UNCHANGED <<n, cleanup, after, closing, read_fdset, write_fdset>>
           ELSE GotoCleanUp(Slots, "start", 0)
  /\ UNCHANGED <<my_fds, listen_sock, sockets, unchangedByServer, reached>>

--------------------------------------------------------------------------------
(* _add_fd for the listening socket and for clients: the flag is tested first, *)
(* the slot taken under the mutex after it.                                    *)

\* What happens to the socket when there is no place for it: an accepted client
\* is closed, the listening socket is not.
Refused ==
  IF sockets[fd] = "client"
  THEN /\ sockets' = ClosedSocket(fd)
       /\ pc' = "read" /\ n' = n + 1 /\ fd' = NoFd
       /\ UNCHANGED <<cleanup, after, closing, read_fdset, write_fdset>>
  ELSE GotoCleanUp(Slots, "start", 0) /\ UNCHANGED sockets

TestFlag ==
  /\ pc = "add"
  /\ IF ser2sockd_shutting_down THEN Refused ELSE Goto("place") /\ UNCHANGED sockets
  /\ UNCHANGED <<my_fds, listen_sock, unchangedByServer, reached>>

Place ==
  /\ pc = "place"
  /\ LET unused == {k \in Slots : ~InUse(k)} IN
     IF unused = {} THEN Refused /\ UNCHANGED <<my_fds, reached>>
     ELSE /\ my_fds' = [my_fds EXCEPT ![Min(unused)] =
                          [Unused EXCEPT !.fd_type = sockets[fd], !.fd = fd]]
          /\ reached' = [reached EXCEPT ![fd] = sent * BufferSize]
          /\ fd' = NoFd
          /\ IF sockets[fd] = "client" THEN pc' = "read" /\ n' = n + 1
                                       ELSE pc' = "loop" /\ UNCHANGED n
          /\ UNCHANGED <<sockets, cleanup, after, closing, read_fdset, write_fdset>>
  /\ UNCHANGED <<listen_sock, unchangedByServer>>

--------------------------------------------------------------------------------
(* The server loop. *)

\* Mutant: a marked client is closed when its queue is empty.
RequestedDrained ==
  {k \in Slots : InUse(k) /\ my_fds[k].disconnect_requested /\ my_fds[k].send_buffer = <<>>}

Requested == {k \in Slots : InUse(k) /\ my_fds[k].disconnect_requested}

\* _cleanup_requested_fds, before and after select().
Loop ==
  /\ pc = "loop"
  /\ IF ser2sockd_shutting_down THEN GotoCleanUp(Slots, "start", 0)
                                ELSE GotoCleanUp(Requested, "select", 0)
  /\ UNCHANGED <<my_fds, listen_sock, sockets, unchangedByServer, reached>>

\* _build_fdsets and select(): which descriptors are ready is decided where they
\* are tested.
Select ==
  /\ pc = "select"
  /\ LET polled == {k \in Slots : InUse(k) /\ ~my_fds[k].disconnect_requested} IN
     /\ read_fdset' = {my_fds[k].fd : k \in polled}
     /\ write_fdset' = {my_fds[k].fd : k \in {j \in polled :
                                         IsClient(j) /\ my_fds[j].send_buffer # <<>>}}
  /\ pc' = "selected"
  /\ UNCHANGED <<my_fds, listen_sock, sockets, n, fd, cleanup, after, closing,
                 unchangedByServer, reached>>

\* An error starts the loop again.
SelectFails ==
  /\ pc = "select"
  /\ Goto("loop")
  /\ UNCHANGED <<my_fds, listen_sock, sockets, unchangedByServer, reached>>

Selected ==
  /\ pc = "selected"
  /\ GotoCleanUp(Requested, "except", 0)
  /\ UNCHANGED <<my_fds, listen_sock, sockets, unchangedByServer, reached>>

NextSlot(place) ==
  /\ n' = n + 1 /\ pc' = place /\ fd' = NoFd
  /\ UNCHANGED <<cleanup, after, closing, read_fdset, write_fdset>>

\* The set of a loop that is over is not looked at again.
AllPolled(place, next) ==
  /\ pc = place /\ n = MAXCONNECTIONS
  /\ pc' = next /\ n' = 0
  /\ read_fdset' = IF place = "except" THEN read_fdset ELSE {}
  /\ write_fdset' = IF place = "write" THEN {} ELSE write_fdset
  /\ UNCHANGED <<my_fds, listen_sock, sockets, fd, cleanup, after, closing,
                 unchangedByServer, reached>>

\* _poll_exception_fdset for slot n.
PollException(ready) ==
  /\ pc = "except" /\ n \in Slots
  /\ ready => IsClient(n) /\ my_fds[n].fd \in read_fdset
  /\ IF ready THEN GotoCleanUp({n}, "except", n + 1) ELSE NextSlot("except")
  /\ UNCHANGED <<my_fds, listen_sock, sockets, unchangedByServer, reached>>

\* _poll_read_fdset for slot n: the descriptor is copied under the mutex ...
PollRead(ready) ==
  /\ pc = "read" /\ n \in Slots
  /\ ready => InUse(n) /\ my_fds[n].fd \in read_fdset
  /\ IF ~ready THEN NextSlot("read")
     ELSE /\ fd' = my_fds[n].fd
          /\ pc' = IF IsClient(n) THEN "recv" ELSE "accept"
          /\ UNCHANGED <<n, cleanup, after, closing, read_fdset, write_fdset>>
  /\ UNCHANGED <<my_fds, listen_sock, sockets, unchangedByServer, reached>>

\* ... and used without it.  recv() fails on a socket closed in between.
Recv(lost) ==
  /\ pc = "recv"
  /\ sockets[fd] = "free" => lost
  /\ IF lost THEN GotoCleanUp({n}, "read", n + 1) ELSE NextSlot("read")
  /\ UNCHANGED <<my_fds, listen_sock, sockets, unchangedByServer, reached>>

\* Nobody to accept, no socket for him, or the ACL rejects him: closed at once.
AcceptNone ==
  /\ pc = "accept"
  /\ NextSlot("read")
  /\ UNCHANGED <<my_fds, listen_sock, sockets, unchangedByServer, reached>>

Accept ==
  /\ pc = "accept"
  /\ sockets[fd] = "listen" /\ FreeFds # {}
  /\ fd' = Min(FreeFds)
  /\ sockets' = [sockets EXCEPT ![Min(FreeFds)] = "client"]
  /\ pc' = "add"
  /\ UNCHANGED <<my_fds, listen_sock, n, cleanup, after, closing, read_fdset,
                 write_fdset, unchangedByServer, reached>>

\* What is queued after count bytes of the first buffer were sent.
Rest(slot, count) ==
  LET done == Head(slot.send_buffer).offset + count IN
  IF done = BufferSize THEN Tail(slot.send_buffer)
  ELSE [slot.send_buffer EXCEPT ![1].offset = done]

\* _poll_write_fdset for slot n, all of it under the mutex.
Writable == n \in Slots /\ IsClient(n) /\ my_fds[n].fd \in write_fdset
                        /\ my_fds[n].send_buffer # <<>>

Write(count) ==
  /\ pc = "write" /\ Writable
  /\ Head(my_fds[n].send_buffer).offset + count <= BufferSize
  /\ my_fds' = [my_fds EXCEPT ![n].send_buffer = Rest(my_fds[n], count)]
  /\ reached' = [reached EXCEPT ![my_fds[n].fd] = @ + count]
  /\ NextSlot("write")
  /\ UNCHANGED <<listen_sock, sockets, unchangedByServer>>

\* Nothing to write, not ready, or the client's buffer is full.
WriteNone ==
  /\ pc = "write" /\ n \in Slots
  /\ NextSlot("write")
  /\ UNCHANGED <<my_fds, listen_sock, sockets, unchangedByServer, reached>>

WriteFails ==
  /\ pc = "write" /\ Writable
  /\ GotoCleanUp({n}, "write", n + 1)
  /\ UNCHANGED <<my_fds, listen_sock, sockets, unchangedByServer, reached>>

TestNetwork ==
  /\ pc = "net"
  /\ IF connected THEN Goto("loop") ELSE GotoCleanUp(Slots, "start", 0)
  /\ UNCHANGED <<my_fds, listen_sock, sockets, unchangedByServer, reached>>

Network ==
  /\ connected' = ~connected
  /\ UNCHANGED <<my_fds, listen_sock, sockets, server, producer, shutdown, sent, reached>>

Server ==
  \/ Open \/ Stop \/ \E ok \in BOOLEAN : Bind(ok)
  \/ TestFlag \/ Place
  \/ Loop \/ Select \/ SelectFails \/ Selected
  \/ \E ready \in BOOLEAN : PollException(ready) \/ PollRead(ready)
  \/ \E lost \in BOOLEAN : Recv(lost)
  \/ AcceptNone \/ Accept
  \/ \E count \in 1..BufferSize : Write(count)
  \/ WriteNone \/ WriteFails
  \/ AllPolled("except", "read") \/ AllPolled("read", "write") \/ AllPolled("write", "net")
  \/ TestNetwork
  \/ CleanUp \/ Close \/ CleanedUp

Next ==
  \/ Test
  \/ \E noMemory \in SUBSET {k \in Slots : IsClient(k)} : SendAll(noMemory)
  \/ Server
  \/ StartShutdown \/ Shutdown \/ ShutdownClose
  \/ Network

Spec == Init /\ [][Next]_vars

\* The server task is never blocked for good: all its calls are non-blocking.
FairSpec == Spec /\ WF_vars(Server)

--------------------------------------------------------------------------------
(* Properties. *)

\* Every variable has its type, and no queue is longer than its table.
TypeOK ==
  /\ my_fds \in [Slots -> [fd_type : {"NA", "listen", "client"}, fd : Fds \cup {NoFd},
                           disconnect_requested : BOOLEAN,
                           send_buffer : Seq([id : 1..sent, offset : 0..(BufferSize - 1)])]]
  /\ \A k \in Slots : Len(my_fds[k].send_buffer) <= MAX_FIFO_BUFFERS
  /\ listen_sock \in Fds \cup {NoFd}
  /\ sockets \in [Fds -> {"free", "listen", "client"}]
  /\ n \in 0..MAXCONNECTIONS
  /\ fd \in Fds \cup {NoFd} /\ closing \in Fds \cup {NoFd} /\ shutFd \in Fds \cup {NoFd}
  /\ cleanup \subseteq Slots
  /\ read_fdset \subseteq Fds /\ write_fdset \subseteq Fds
  /\ shut \in -1..MAXCONNECTIONS
  /\ reached \in [Fds -> Nat]

Position(buffer) == (buffer.id - 1) * BufferSize + buffer.offset

\* A client gets every byte from the buffer after it connected on, once and in
\* order: its queue starts where the last byte sent to it ended and has no gap,
\* and only a marked client, which is going to be closed, misses the end.
StreamHasNoGap ==
  \A k \in Slots : IsClient(k) =>
    LET queue == my_fds[k].send_buffer
        last  == queue[Len(queue)]
    IN /\ queue # <<>> => Position(Head(queue)) = reached[my_fds[k].fd]
       /\ \A i \in 1..(Len(queue) - 1) : /\ queue[i + 1].id = queue[i].id + 1
                                         /\ queue[i + 1].offset = 0
       /\ ~my_fds[k].disconnect_requested =>
            IF queue = <<>> THEN reached[my_fds[k].fd] = sent * BufferSize
                            ELSE last.id = sent

\* A descriptor in the table is an open socket of its kind, and in one slot: no
\* task closes a socket the table still names, or twice, although two tasks
\* clean up.  And no client is forgotten: an open client socket is in the table,
\* about to be put there, or about to be closed.
Owners(f) ==
  {<<"slot", k>> : k \in {j \in Slots : my_fds[j].fd = f}}
    \cup {o \in {<<"server", 0>>, <<"closing", 0>>, <<"shutdown", 0>>} :
            \/ o[1] = "server" /\ fd = f /\ pc \in {"add", "place"}
            \/ o[1] = "closing" /\ closing = f
            \/ o[1] = "shutdown" /\ shutFd = f}

SocketsAreOwnedOnce ==
  \A f \in Fds :
    /\ \A o1, o2 \in Owners(f) : o1 = o2
    /\ sockets[f] = "client" => Owners(f) # {}
    /\ \A k \in Slots : my_fds[k].fd = f => sockets[f] = my_fds[k].fd_type
    /\ f \in {closing, shutFd} => sockets[f] # "free"

\* A client marked because it is too slow does not keep its slot.
SlowClientsAreClosed ==
  \A k \in Slots : []<>~(InUse(k) /\ my_fds[k].disconnect_requested)
================================================================================
