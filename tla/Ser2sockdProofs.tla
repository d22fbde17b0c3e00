----------------------------- MODULE Ser2sockdProofs -----------------------------
(***************************************************************************)
(* Proofs about Ser2sockd for any number of clients, sockets, buffers and  *)
(* bytes.                                                                  *)
(***************************************************************************)
EXTENDS Ser2sockd, SequenceTheorems, WellFoundedInduction, TLAPS

LEMMA Sizes ==
  /\ MAXCONNECTIONS \in Nat /\ MAXCONNECTIONS > 0
  /\ MAX_FIFO_BUFFERS \in Nat /\ MAX_FIFO_BUFFERS > 0
  /\ MaxFd \in Nat /\ BufferSize \in Nat /\ BufferSize > 0
  /\ NoFd \notin Fds /\ NoFd = -1
  BY ServerAssumption DEF Fds, NoFd

LEMMA MinIsMember ==
  ASSUME NEW T \in SUBSET Nat, T # {}
  PROVE  Min(T) \in T
  <1> DEFINE R == OpToRel(<, Nat)
  <1>1. PICK x \in T : \A y \in T : ~(<<y, x>> \in R)
    <2>1. IsWellFoundedOn(R, Nat)
      BY NatLessThanWellFounded DEF R
    <2> HIDE DEF R
    <2> QED
      BY <2>1, WFMin
  <1>2. ASSUME NEW y \in T  PROVE x <= y
    <2>1. CASE y < x
      <3>1. <<y, x>> \in Nat \X Nat
        BY <1>2
      <3> QED
        BY <1>1, <1>2, <2>1, <3>1 DEF OpToRel
    <2> QED
      BY <2>1
  <1> QED
    BY <1>2 DEF Min

--------------------------------------------------------------------------------
(* Types. *)

Buffers(end) == [id : 1..end, offset : 0..(BufferSize - 1)]

Entry(slot, end) ==
  /\ slot \in [fd_type : {"NA", "listen", "client"}, fd : Fds \cup {NoFd},
               disconnect_requested : BOOLEAN, send_buffer : Seq(Buffers(end))]
  /\ Len(slot.send_buffer) <= MAX_FIFO_BUFFERS

\* The places of the server task at which it neither has a socket in hand nor uses a
\* descriptor it copied.
Plain == {"start", "ended", "loop", "select", "selected", "except", "read", "write",
          "net", "cleanup"}

\* The types, and what the server task's place says of the other variables.
TypeInv ==
  /\ TypeOK
  /\ sent \in Nat
  /\ after \in {"start", "select", "read", "write", "except"}
  /\ pc \in {"recv", "accept"} => n \in Slots
  /\ shutFd # NoFd => shut \in Slots

\* An open socket that no slot has.
Loose(f) ==
  /\ f \in Fds
  /\ sockets[f] # "free"
  /\ \A k \in Slots : my_fds[k].fd # f

\* The table has open sockets, each once; a socket in the hands of a task is not in
\* the table and in the hands of one task only; a client is in either.
SockInv ==
  /\ \A k \in Slots : my_fds[k].fd_type = "NA" <=> my_fds[k].fd = NoFd
  /\ \A k \in Slots : my_fds[k].fd # NoFd => sockets[my_fds[k].fd] = my_fds[k].fd_type
  /\ \A j, k \in Slots : my_fds[j].fd = my_fds[k].fd /\ my_fds[k].fd # NoFd => j = k
  /\ pc = "bind" => Loose(listen_sock) /\ sockets[listen_sock] = "listen"
                    /\ listen_sock # shutFd
  /\ pc \in {"add", "place"} => /\ Loose(fd) /\ fd # shutFd
                                /\ sockets[fd] = "client" => n \in Slots
  /\ closing # NoFd => pc = "cleanup" /\ Loose(closing) /\ closing # shutFd
  /\ shutFd # NoFd => Loose(shutFd)
  /\ \A f \in Fds : sockets[f] = "client" =>
       \/ \E k \in Slots : my_fds[k].fd = f
       \/ pc \in {"add", "place"} /\ fd = f
       \/ closing = f
       \/ shutFd = f

\* A queue continues what has reached the client, in order and without a gap.
Stream(slot, at, end) ==
  /\ slot.send_buffer # <<>> => Position(slot.send_buffer[1]) = at
  /\ \A i \in 1..(Len(slot.send_buffer) - 1) :
       /\ slot.send_buffer[i + 1].id = slot.send_buffer[i].id + 1
       /\ slot.send_buffer[i + 1].offset = 0
  /\ ~slot.disconnect_requested =>
       IF slot.send_buffer = <<>> THEN at = end * BufferSize
       ELSE slot.send_buffer[Len(slot.send_buffer)].id = end

StreamInv == \A k \in Slots : IsClient(k) => Stream(my_fds[k], reached[my_fds[k].fd], sent)

Inv == TypeInv /\ SockInv /\ StreamInv

\* What a step of the server may do to the variables that are about its way only.
WayTypes ==
  /\ n' \in 0..MAXCONNECTIONS /\ fd' \in Fds \cup {NoFd}
  /\ cleanup' \subseteq Slots
  /\ read_fdset' \subseteq Fds /\ write_fdset' \subseteq Fds
  /\ after' \in {"start", "select", "read", "write", "except"}

\* A step that touches no socket, without a socket in hand.
LEMMA WalkKeeps ==
  ASSUME Inv, UNCHANGED <<my_fds, listen_sock, sockets, shutdown, sent, reached, closing>>,
         closing = NoFd, pc \notin {"add", "place"}, pc' \in Plain, WayTypes
  PROVE  Inv'
  <1>1. TypeInv'
    BY DEF Inv, TypeInv, TypeOK, WayTypes, Plain, shutdown
  <1>2. SockInv'
    BY DEF Inv, SockInv, Loose, Plain, shutdown
  <1>3. StreamInv'
    BY DEF Inv, StreamInv, IsClient, Stream, Position, shutdown
  <1> QED
    BY <1>1, <1>2, <1>3 DEF Inv

\* A step of another task that touches none of these.
LEMMA OtherKeeps ==
  ASSUME Inv, UNCHANGED <<my_fds, listen_sock, sockets, server, sent, reached, shutFd>>,
         shut' \in -1..MAXCONNECTIONS, shutFd = NoFd \/ shut' = shut
  PROVE  Inv'
  <1>1. TypeInv'
    BY DEF Inv, TypeInv, TypeOK, server
  <1>2. SockInv'
    BY DEF Inv, SockInv, Loose, server
  <1>3. StreamInv'
    BY DEF Inv, StreamInv, IsClient, Stream, Position, server
  <1> QED
    BY <1>1, <1>2, <1>3 DEF Inv

--------------------------------------------------------------------------------
(* The parser's task. *)

LEMMA EntriesTyped ==
  ASSUME TypeOK
  PROVE  \A k \in Slots : Entry(my_fds[k], sent)
  BY DEF TypeOK, Entry, Buffers

LEMMA QueuedKeeps ==
  ASSUME NEW slot, NEW at, NEW failed \in BOOLEAN, sent \in Nat, Entry(slot, sent),
         slot.fd_type = "client" => Stream(slot, at, sent)
  PROVE  /\ Entry(Queued(slot, failed), sent + 1)
         /\ Queued(slot, failed).fd = slot.fd /\ Queued(slot, failed).fd_type = slot.fd_type
         /\ slot.fd_type = "client" => Stream(Queued(slot, failed), at, sent + 1)
  <1> DEFINE q == slot.send_buffer
             a == Append(q, Buffer)
  <1>1. q \in Seq(Buffers(sent)) /\ Len(q) \in Nat
    BY LenProperties DEF Entry
  <1>2. q \in Seq(Buffers(sent + 1))
    <2>1. Buffers(sent) \subseteq Buffers(sent + 1)
      BY DEF Buffers
    <2>2. \A i \in 1..Len(q) : q[i] \in Buffers(sent + 1)
      BY <1>1, <2>1, ElementOfSeq
    <2> QED
      BY <1>1, <2>1, <2>2
  <1>3. Buffer \in Buffers(sent + 1)
    BY Sizes DEF Buffer, Buffers
  <1>4. /\ a \in Seq(Buffers(sent + 1)) /\ Len(a) = Len(q) + 1 /\ a # <<>>
        /\ \A i \in 1..Len(q) : a[i] = q[i]
        /\ a[Len(q) + 1] = Buffer
    BY <1>2, <1>3, AppendProperties
  <1>5. CASE slot.fd_type # "client" \/ slot.disconnect_requested
    <2>1. Queued(slot, failed) = slot
      BY <1>5 DEF Queued
    <2> QED
      BY <1>2, <1>5, <2>1 DEF Entry, Stream
  <1>6. CASE /\ slot.fd_type = "client" /\ ~slot.disconnect_requested
             /\ failed \/ Len(q) = MAX_FIFO_BUFFERS
    <2>1. Queued(slot, failed) = [slot EXCEPT !.disconnect_requested = TRUE]
      BY <1>6 DEF Queued
    <2> QED
      BY <1>2, <1>6, <2>1 DEF Entry, Stream
  <1>7. CASE /\ slot.fd_type = "client" /\ ~slot.disconnect_requested
             /\ ~(failed \/ Len(q) = MAX_FIFO_BUFFERS)
    <2>1. Queued(slot, failed) = [slot EXCEPT !.send_buffer = a]
      BY <1>7 DEF Queued
    <2>2. Len(a) <= MAX_FIFO_BUFFERS
      BY <1>1, <1>4, <1>7, Sizes DEF Entry
    <2>3. Entry(Queued(slot, failed), sent + 1)
      BY <1>4, <2>1, <2>2 DEF Entry
    <2>4. Stream([slot EXCEPT !.send_buffer = a], at, sent + 1)
      <3>1. ASSUME NEW s, s.send_buffer = a, s.disconnect_requested = FALSE
            PROVE  Stream(s, at, sent + 1)
        <4>1. CASE q = <<>>
          <5>1. at = sent * BufferSize /\ Len(q) = 0
            BY <1>7, <4>1 DEF Stream
          <5>2. a[1] = Buffer /\ Len(a) = 1
            BY <1>4, <5>1
          <5>3. Buffer.id = sent + 1 /\ Buffer.offset = 0
            BY DEF Buffer
          <5>4. Position(Buffer) = sent * BufferSize
            BY <5>3, Sizes DEF Position
          <5> HIDE DEF a, q
          <5>5. Position(a[1]) = at /\ a[1].id = sent + 1
            BY <5>1, <5>2, <5>3, <5>4
          <5>6. \A i \in 1..(Len(a) - 1) : FALSE
            BY <5>2
          <5> QED
            BY <1>4, <3>1, <5>2, <5>5, <5>6 DEF Stream
        <4>2. CASE q # <<>>
          <5>1. Len(q) \in Nat /\ Len(q) > 0
            BY <1>1, <4>2, EmptySeq
          <5>2. /\ Position(q[1]) = at /\ q[Len(q)].id = sent
                /\ \A i \in 1..(Len(q) - 1) : q[i + 1].id = q[i].id + 1 /\ q[i + 1].offset = 0
            BY <1>7, <4>2 DEF Stream
          <5>3. Buffer.id = sent + 1 /\ Buffer.offset = 0
            BY DEF Buffer
          <5> HIDE DEF a, q
          <5>4. ASSUME NEW i \in 1..(Len(a) - 1)
                PROVE  a[i + 1].id = a[i].id + 1 /\ a[i + 1].offset = 0
            <6>1. CASE i = Len(q)
              BY <1>4, <5>1, <5>2, <5>3, <6>1
            <6>2. CASE i # Len(q)
              <7>1. i \in 1..(Len(q) - 1) /\ i + 1 \in 1..Len(q) /\ i \in 1..Len(q)
                BY <1>4, <5>1, <5>4, <6>2
              <7> QED
                BY <1>4, <5>2, <7>1
            <6> QED
              BY <6>1, <6>2
          <5> QED
            BY <1>4, <3>1, <5>1, <5>2, <5>3, <5>4 DEF Stream
        <4> QED
          BY <4>1, <4>2
      <3> QED
        BY <1>7, <3>1 DEF Entry
    <2> QED
      BY <1>7, <2>1, <2>3, <2>4 DEF Entry
  <1> QED
    BY <1>5, <1>6, <1>7

LEMMA SendAllKeeps ==
  ASSUME Inv, NEW noMemory, SendAll(noMemory)
  PROVE  Inv'
  <1> DEFINE Q(k) == Queued(my_fds[k], k \in noMemory)
  <1>1. /\ my_fds' = [k \in Slots |-> Q(k)] /\ sent' = sent + 1 /\ sent \in Nat
        /\ UNCHANGED <<listen_sock, sockets, server, shutdown, reached>>
    BY DEF SendAll, Inv, TypeInv
  <1>2. ASSUME NEW k \in Slots
        PROVE  /\ Entry(Q(k), sent + 1)
               /\ Q(k).fd = my_fds[k].fd /\ Q(k).fd_type = my_fds[k].fd_type
               /\ IsClient(k) => Stream(Q(k), reached[my_fds[k].fd], sent + 1)
    <2>1. Entry(my_fds[k], sent)
      BY EntriesTyped DEF Inv, TypeInv
    <2>2. IsClient(k) => Stream(my_fds[k], reached[my_fds[k].fd], sent)
      BY DEF Inv, StreamInv
    <2>3. (k \in noMemory) \in BOOLEAN
      OBVIOUS
    <2> QED
      BY <1>1, <2>1, <2>2, <2>3, QueuedKeeps DEF IsClient
  <1> HIDE DEF Q
  <1>3. TypeInv'
    <2>1. TypeOK
      BY DEF Inv, TypeInv
    <2>2. TypeOK'
      BY <1>1, <1>2, <2>1 DEF TypeOK, Entry, Buffers, server, shutdown
    <2> QED
      BY <1>1, <2>2 DEF Inv, TypeInv, server, shutdown
  <1>4. SockInv'
    BY <1>1, <1>2 DEF Inv, SockInv, Loose, server, shutdown
  <1>5. StreamInv'
    BY <1>1, <1>2 DEF Inv, StreamInv, IsClient
  <1> QED
    BY <1>3, <1>4, <1>5 DEF Inv

--------------------------------------------------------------------------------
(* Slots and sockets given back. *)

LEMMA UnusedEntry ==
  ASSUME NEW end \in Nat
  PROVE  Entry(Unused, end) /\ Unused.fd = NoFd /\ Unused.fd_type = "NA"
  <1>1. <<>> \in Seq(Buffers(end)) /\ Len(<<>>) = 0
    BY EmptySeq
  <1> QED
    BY <1>1, Sizes DEF Entry, Unused

\* A slot is freed; its descriptor goes to the task that freed it.
LEMMA ReleaseKeeps ==
  ASSUME Inv, NEW k \in Slots, my_fds' = Released(k),
         UNCHANGED <<listen_sock, sockets, sent, reached, pc, n, fd, after, read_fdset,
                     write_fdset>>,
         cleanup' \subseteq Slots, shut' \in -1..MAXCONNECTIONS,
         \/ pc = "cleanup" /\ closing = NoFd /\ closing' = my_fds[k].fd /\ UNCHANGED <<shut, shutFd>>
         \/ shutFd = NoFd /\ shutFd' = my_fds[k].fd /\ UNCHANGED closing
            /\ (shutFd' # NoFd => shut' \in Slots)
  PROVE  Inv'
  <1>1. my_fds' = [my_fds EXCEPT ![k] = Unused] /\ sent \in Nat /\ TypeOK
    BY DEF Released, Inv, TypeInv
  <1>2. Entry(Unused, sent) /\ Unused.fd = NoFd /\ Unused.fd_type = "NA"
    BY <1>1, UnusedEntry
  <1>3. my_fds[k].fd \in Fds \cup {NoFd}
    BY <1>1 DEF TypeOK
  <1> HIDE DEF Unused
  <1>4. TypeInv'
    <2>1. TypeOK'
      BY <1>1, <1>2, <1>3 DEF TypeOK, Entry, Buffers
    <2> QED
      BY <2>1 DEF Inv, TypeInv
  <1>5. SockInv'
    BY <1>1, <1>2, <1>3 DEF Inv, SockInv, Loose, TypeOK
  <1>6. StreamInv'
    BY <1>1, <1>2 DEF Inv, StreamInv, IsClient, TypeOK
  <1> QED
    BY <1>4, <1>5, <1>6 DEF Inv

\* A socket that no slot has is closed.
LEMMA ClosedKeeps ==
  ASSUME Inv, NEW f, Loose(f), sockets' = ClosedSocket(f), listen_sock' = ListenAfter(f),
         \A g \in Fds : g # f => reached'[g] = reached[g],
         reached' \in [Fds -> Nat],
         UNCHANGED <<my_fds, sent, fd, cleanup, after, read_fdset, write_fdset>>,
         shut' \in -1..MAXCONNECTIONS, n' \in 0..MAXCONNECTIONS,
         \/ f = closing /\ closing' = NoFd /\ UNCHANGED <<shut, shutFd, pc, n>>
         \/ f = shutFd /\ shutFd' = NoFd /\ UNCHANGED <<closing, pc, n>>
  PROVE  Inv'
  <1>1. sockets' = [sockets EXCEPT ![f] = "free"] /\ f \in Fds /\ f # NoFd
    BY Sizes DEF ClosedSocket, Loose
  <1>2. listen_sock' \in {NoFd, listen_sock}
        /\ (listen_sock # f => listen_sock' = listen_sock)
    BY DEF ListenAfter
  <1>3. TypeInv'
    <2>1. TypeOK'
      BY <1>1, <1>2 DEF TypeOK, Inv, TypeInv
    <2> QED
      BY <2>1 DEF Inv, TypeInv
  <1>4. SockInv'
    <2>1. \A g \in Fds : sockets'[g] = IF g = f THEN "free" ELSE sockets[g]
      BY <1>1 DEF Inv, TypeInv, TypeOK
    <2>2. \A g \in Fds : Loose(g) /\ g # f => Loose(g)'
      BY <2>1 DEF Loose
    <2>3. \A k \in Slots : my_fds[k].fd # f /\ my_fds[k].fd \in Fds \cup {NoFd}
      BY DEF Loose, Inv, TypeInv, TypeOK
    <2>4. pc = "bind" => Loose(listen_sock) /\ sockets[listen_sock] = "listen"
                         /\ listen_sock # shutFd /\ f = shutFd
      BY <1>1 DEF Inv, SockInv
    <2>5. pc \in {"add", "place"} => f = shutFd /\ Loose(fd) /\ fd # f /\ fd \in Fds
      BY <1>1 DEF Inv, SockInv, Loose
    <2>6. /\ \A k \in Slots : my_fds'[k].fd_type = "NA" <=> my_fds'[k].fd = NoFd
          /\ \A k \in Slots : my_fds'[k].fd # NoFd => sockets'[my_fds'[k].fd] = my_fds'[k].fd_type
          /\ \A j, k \in Slots : my_fds'[j].fd = my_fds'[k].fd /\ my_fds'[k].fd # NoFd => j = k
      BY <2>1, <2>3 DEF Inv, SockInv
    <2>7. pc' = "bind" => Loose(listen_sock)' /\ sockets'[listen_sock'] = "listen"
                          /\ listen_sock' # shutFd'
      BY <1>1, <1>2, <2>1, <2>2, <2>4, Sizes DEF Loose
    <2>8. pc' \in {"add", "place"} =>
            /\ Loose(fd)' /\ fd' # shutFd'
            /\ sockets'[fd'] = "client" => n' \in Slots
      BY <1>1, <2>1, <2>2, <2>5, Sizes DEF Inv, SockInv, Loose
    <2>9. closing' # NoFd => pc' = "cleanup" /\ Loose(closing)' /\ closing' # shutFd'
      BY <1>1, <2>2, Sizes DEF Inv, SockInv, Loose
    <2>10. shutFd' # NoFd => Loose(shutFd)'
      BY <1>1, <2>2, Sizes DEF Inv, SockInv, Loose
    <2>11. \A g \in Fds : sockets'[g] = "client" =>
             \/ \E k \in Slots : my_fds'[k].fd = g
             \/ pc' \in {"add", "place"} /\ fd' = g
             \/ closing' = g
             \/ shutFd' = g
      BY <1>1, <2>1, Sizes DEF Inv, SockInv
    <2> QED
      BY <2>6, <2>7, <2>8, <2>9, <2>10, <2>11 DEF SockInv
  <1>5. StreamInv'
    BY <1>1 DEF Inv, StreamInv, IsClient, TypeInv, TypeOK, Loose, SockInv
  <1> QED
    BY <1>3, <1>4, <1>5 DEF Inv

LEMMA CleanUpKeeps == Inv /\ (CleanUp \/ Close) => Inv'
  <1>1. ASSUME Inv, CleanUp  PROVE Inv'
    <2>1. Min(cleanup) \in Slots
      <3>1. cleanup \in SUBSET Slots /\ Slots \in SUBSET Nat /\ cleanup # {}
        BY <1>1, Sizes DEF CleanUp, Inv, TypeInv, TypeOK, Slots
      <3>2. cleanup \in SUBSET Nat
        BY <3>1
      <3> QED
        BY <3>1, <3>2, MinIsMember
    <2> QED
      BY <1>1, <2>1, ReleaseKeeps DEF CleanUp, shutdown, Inv, TypeInv, TypeOK
  <1>2. ASSUME Inv, Close  PROVE Inv'
    <2>1. Loose(closing)
      BY <1>2 DEF Close, Inv, SockInv
    <2>2. /\ \A g \in Fds : g # closing => reached'[g] = reached[g]
          /\ reached' \in [Fds -> Nat]
      BY <1>2, <2>1 DEF Close, Inv, TypeInv, TypeOK
    <2> QED
      BY <1>2, <2>1, <2>2, ClosedKeeps DEF Close, shutdown, Inv, TypeInv, TypeOK
  <1> QED
    BY <1>1, <1>2

LEMMA ShutdownKeeps == Inv /\ (StartShutdown \/ Shutdown \/ ShutdownClose) => Inv'
  <1>1. ASSUME Inv, StartShutdown  PROVE Inv'
    BY <1>1, OtherKeeps, Sizes DEF StartShutdown, Inv, TypeInv, Slots
  <1>2. ASSUME Inv, Shutdown  PROVE Inv'
    <2>1. /\ shut \in Slots /\ shut' \in -1..MAXCONNECTIONS
          /\ shutFd' # NoFd => shut' \in Slots
      BY <1>2, Sizes DEF Shutdown, Slots, InUse, Inv, SockInv
    <2> QED
      BY <1>2, <2>1, ReleaseKeeps DEF Shutdown, server, Inv, TypeInv, TypeOK
  <1>3. ASSUME Inv, ShutdownClose  PROVE Inv'
    <2>1. Loose(shutFd) /\ shut \in Slots
      BY <1>3 DEF ShutdownClose, Inv, SockInv, TypeInv
    <2>2. /\ \A g \in Fds : g # shutFd => reached'[g] = reached[g]
          /\ reached' \in [Fds -> Nat] /\ shut' \in -1..MAXCONNECTIONS
      BY <1>3, <2>1, Sizes DEF ShutdownClose, Inv, TypeInv, TypeOK, Slots
    <2> QED
      BY <1>3, <2>1, <2>2, ClosedKeeps DEF ShutdownClose, server, Inv, TypeInv, TypeOK
  <1> QED
    BY <1>1, <1>2, <1>3

--------------------------------------------------------------------------------
(* The server task: sockets opened, placed and refused. *)

LEMMA FreeFdIsFree == FreeFds # {} => Min(FreeFds) \in Fds /\ sockets[Min(FreeFds)] = "free"
  <1> SUFFICES ASSUME FreeFds # {}
               PROVE  Min(FreeFds) \in Fds /\ sockets[Min(FreeFds)] = "free"
    OBVIOUS
  <1>1. FreeFds \in SUBSET Nat
    BY Sizes DEF FreeFds, Fds
  <1>2. Min(FreeFds) \in FreeFds
    BY <1>1, MinIsMember
  <1> QED
    BY <1>2 DEF FreeFds

LEMMA OpenKeeps == Inv /\ Open => Inv'
  <1> SUFFICES ASSUME Inv, Open  PROVE Inv'
    OBVIOUS
  <1>1. pc = "start" /\ UNCHANGED <<my_fds, connected, producer, shutdown, sent, reached>>
        /\ UNCHANGED <<n, fd, cleanup, after, closing, read_fdset, write_fdset>>
        /\ closing = NoFd
    BY DEF Open, unchangedByServer, Goto, Inv, SockInv
  <1>2. CASE FreeFds = {}
    <2>1. pc' = "ended" /\ listen_sock' = NoFd /\ UNCHANGED sockets
      BY <1>2 DEF Open, Goto
    <2>2. TypeInv'
      BY <1>1, <2>1 DEF Inv, TypeInv, TypeOK, shutdown
    <2>3. SockInv'
      BY <1>1, <2>1 DEF Inv, SockInv, Loose, shutdown
    <2>4. StreamInv'
      BY <1>1 DEF Inv, StreamInv, IsClient, Stream, Position
    <2> QED
      BY <2>2, <2>3, <2>4 DEF Inv
  <1>3. CASE FreeFds # {}
    <2>0. PICK f : f = Min(FreeFds)
      OBVIOUS
    <2>1. f \in Fds /\ sockets[f] = "free"
      BY <1>3, <2>0, FreeFdIsFree
    <2>2. pc' = "bind" /\ listen_sock' = f /\ sockets' = [sockets EXCEPT ![f] = "listen"]
      BY <1>3, <2>0 DEF Open, Goto
    <2>3. TypeInv'
      BY <1>1, <2>1, <2>2 DEF Inv, TypeInv, TypeOK, shutdown
    <2>4. \A k \in Slots : my_fds[k].fd # f
      BY <2>1, Sizes DEF Inv, SockInv, TypeInv, TypeOK
    <2>5. \A g \in Fds : sockets'[g] = IF g = f THEN "listen" ELSE sockets[g]
      BY <2>2 DEF Inv, TypeInv, TypeOK
    <2>6. SockInv'
      <3>1. \A g \in Fds : Loose(g) => Loose(g)' /\ g # f
        BY <1>1, <2>1, <2>5 DEF Loose
      <3>2. Loose(f)' /\ sockets'[f] = "listen" /\ f # shutFd
        BY <1>1, <2>1, <2>4, <2>5, Sizes DEF Inv, SockInv, Loose
      <3>3. shutFd' # NoFd => Loose(shutFd)'
        BY <1>1, <3>1 DEF Inv, SockInv, Loose, shutdown
      <3>4. /\ \A k \in Slots : my_fds'[k].fd_type = "NA" <=> my_fds'[k].fd = NoFd
            /\ \A k \in Slots : my_fds'[k].fd # NoFd => sockets'[my_fds'[k].fd] = my_fds'[k].fd_type
            /\ \A j, k \in Slots : my_fds'[j].fd = my_fds'[k].fd /\ my_fds'[k].fd # NoFd => j = k
        BY <1>1, <2>4, <2>5 DEF Inv, SockInv, TypeInv, TypeOK
      <3>5. \A g \in Fds : sockets'[g] = "client" =>
              \/ \E k \in Slots : my_fds'[k].fd = g
              \/ closing' = g
              \/ shutFd' = g
        BY <1>1, <2>5 DEF Inv, SockInv, shutdown
      <3> QED
        BY <1>1, <2>2, <3>2, <3>3, <3>4, <3>5 DEF SockInv, shutdown
    <2>7. StreamInv'
      BY <1>1 DEF Inv, StreamInv, IsClient, Stream, Position
    <2> QED
      BY <2>3, <2>6, <2>7 DEF Inv
  <1> QED
    BY <1>2, <1>3

LEMMA BindKeeps == ASSUME NEW ok \in BOOLEAN, Inv, Bind(ok)  PROVE Inv'
  <1>1. pc = "bind" /\ closing = NoFd
        /\ UNCHANGED <<my_fds, listen_sock, sockets, connected, producer, shutdown, sent, reached>>
    BY DEF Bind, unchangedByServer, Inv, SockInv
  <1>2. CASE ok
    <2>1. pc' = "add" /\ fd' = listen_sock
          /\ UNCHANGED <<n, cleanup, after, closing, read_fdset, write_fdset>>
      BY <1>2 DEF Bind
    <2>2. TypeInv'
      BY <1>1, <2>1 DEF Inv, TypeInv, TypeOK, shutdown
    <2>3. SockInv'
      BY <1>1, <2>1 DEF Inv, SockInv, Loose, shutdown
    <2>4. StreamInv'
      BY <1>1 DEF Inv, StreamInv, IsClient, Stream, Position
    <2> QED
      BY <2>2, <2>3, <2>4 DEF Inv
  <1>3. CASE ~ok
    <2>1. GotoCleanUp(Slots, "start", 0)
      BY <1>3 DEF Bind
    <2>2. WayTypes /\ pc' \in Plain /\ closing' = closing
      BY <2>1, Sizes DEF GotoCleanUp, WayTypes, Plain, Inv, TypeInv, TypeOK
    <2> QED
      BY <1>1, <2>2, WalkKeeps
  <1> QED
    BY <1>2, <1>3

LEMMA RefusedKeeps ==
  ASSUME Inv, pc \in {"add", "place"}, Refused,
         UNCHANGED <<my_fds, listen_sock, connected, producer, shutdown, sent, reached>>
  PROVE  Inv'
  <1>1. closing = NoFd /\ Loose(fd) /\ fd # shutFd /\ fd \in Fds /\ fd # NoFd
    BY Sizes DEF Inv, SockInv, Loose
  <1>2. CASE sockets[fd] = "client"
    <2>1. /\ sockets' = [sockets EXCEPT ![fd] = "free"]
          /\ pc' = "read" /\ n' = n + 1 /\ fd' = NoFd /\ n \in Slots
          /\ UNCHANGED <<cleanup, after, closing, read_fdset, write_fdset>>
      BY <1>2 DEF Refused, ClosedSocket, Inv, SockInv
    <2>2. TypeInv'
      <3>1. n' \in 0..MAXCONNECTIONS
        BY <2>1, Sizes DEF Slots
      <3>2. sockets' \in [Fds -> {"free", "listen", "client"}]
        BY <2>1 DEF Inv, TypeInv, TypeOK
      <3>3. TypeOK'
        BY <2>1, <3>1, <3>2 DEF Inv, TypeInv, TypeOK, shutdown
      <3> QED
        BY <2>1, <3>3 DEF Inv, TypeInv, shutdown
    <2>3. \A g \in Fds : sockets'[g] = IF g = fd THEN "free" ELSE sockets[g]
      BY <2>1 DEF Inv, TypeInv, TypeOK
    <2>4. SockInv'
      BY <1>1, <2>1, <2>3, Sizes DEF Inv, SockInv, Loose, TypeInv, TypeOK, shutdown
    <2>5. StreamInv'
      BY <1>1 DEF Inv, StreamInv, IsClient, Stream, Position
    <2> QED
      BY <2>2, <2>4, <2>5 DEF Inv
  <1>3. CASE sockets[fd] # "client"
    <2>1. GotoCleanUp(Slots, "start", 0) /\ UNCHANGED sockets
      BY <1>3 DEF Refused
    <2>2. /\ pc' = "cleanup" /\ fd' = NoFd /\ n' = 0 /\ cleanup' = Slots /\ after' = "start"
          /\ UNCHANGED <<closing, read_fdset, write_fdset>>
      BY <2>1 DEF GotoCleanUp
    <2>3. TypeInv'
      <3>1. n' \in 0..MAXCONNECTIONS
        BY <2>2, Sizes
      <3>2. TypeOK'
        BY <2>1, <2>2, <3>1 DEF Inv, TypeInv, TypeOK, shutdown
      <3> QED
        BY <2>1, <2>2, <3>2 DEF Inv, TypeInv, shutdown
    <2>4. SockInv'
      BY <1>1, <1>3, <2>1, <2>2 DEF Inv, SockInv, Loose, shutdown
    <2>5. StreamInv'
      BY DEF Inv, StreamInv, IsClient, Stream, Position
    <2> QED
      BY <2>3, <2>4, <2>5 DEF Inv
  <1> QED
    BY <1>2, <1>3

LEMMA AddKeeps == Inv /\ (TestFlag \/ Place) => Inv'
  <1>1. ASSUME Inv, TestFlag  PROVE Inv'
    <2>1. CASE ser2sockd_shutting_down
      BY <1>1, <2>1, RefusedKeeps DEF TestFlag, unchangedByServer
    <2>2. CASE ~ser2sockd_shutting_down
      <3>1. pc = "add" /\ pc' = "place"
            /\ UNCHANGED <<my_fds, listen_sock, sockets, shutdown, sent, reached,
                           n, fd, cleanup, after, closing, read_fdset, write_fdset>>
        BY <1>1, <2>2 DEF TestFlag, Goto, unchangedByServer
      <3>2. TypeInv'
        BY <1>1, <3>1 DEF Inv, TypeInv, TypeOK, shutdown
      <3>3. SockInv'
        BY <1>1, <3>1 DEF Inv, SockInv, Loose, shutdown
      <3>4. StreamInv'
        BY <1>1, <3>1 DEF Inv, StreamInv, IsClient, Stream, Position
      <3> QED
        BY <3>2, <3>3, <3>4 DEF Inv
    <2> QED
      BY <2>1, <2>2
  <1>2. ASSUME Inv, Place  PROVE Inv'
    <2> DEFINE unused == {k \in Slots : ~InUse(k)}
               k == Min(unused)
               new == [Unused EXCEPT !.fd_type = sockets[fd], !.fd = fd]
    <2>1. CASE unused = {}
      BY <1>2, <2>1, RefusedKeeps DEF Place, unchangedByServer
    <2>2. CASE unused # {}
      <3>1. /\ pc = "place" /\ my_fds' = [my_fds EXCEPT ![k] = new]
            /\ reached' = [reached EXCEPT ![fd] = sent * BufferSize]
            /\ fd' = NoFd
            /\ IF sockets[fd] = "client" THEN pc' = "read" /\ n' = n + 1
                                         ELSE pc' = "loop" /\ UNCHANGED n
            /\ UNCHANGED <<sockets, cleanup, after, closing, read_fdset, write_fdset>>
            /\ UNCHANGED <<listen_sock, shutdown, sent>>
        BY <1>2, <2>2 DEF Place, unchangedByServer
      <3>2. k \in Slots /\ my_fds[k].fd = NoFd
        <4>1. unused \in SUBSET Slots /\ Slots \in SUBSET Nat
          BY Sizes DEF Slots
        <4>2. unused \in SUBSET Nat
          BY <4>1
        <4>3. k \in unused
          <5> HIDE DEF unused
          <5> QED
            BY <2>2, <4>2, MinIsMember
        <4> QED
          BY <1>2, <4>3 DEF InUse, Inv, SockInv
      <3>3. Loose(fd) /\ fd \in Fds /\ fd # NoFd /\ fd # shutFd /\ closing = NoFd
            /\ sockets[fd] \in {"listen", "client"}
        BY <1>2, <3>1, Sizes DEF Inv, SockInv, Loose, TypeInv, TypeOK
      <3>4. Entry(new, sent) /\ new.fd = fd /\ new.fd_type = sockets[fd]
            /\ new.send_buffer = <<>> /\ new.disconnect_requested = FALSE
        <4>1. /\ Entry(Unused, sent) /\ Unused.send_buffer = <<>>
              /\ Unused.disconnect_requested = FALSE
          BY <1>2, UnusedEntry DEF Unused, Inv, TypeInv
        <4> HIDE DEF Unused
        <4> QED
          BY <3>3, <4>1, Sizes DEF Entry
      <3>5. sent * BufferSize \in Nat
        BY <1>2, Sizes DEF Inv, TypeInv
      <3> HIDE DEF k, new
      <3>6. \A j \in Slots : my_fds'[j] = IF j = k THEN new ELSE my_fds[j]
        BY <1>2, <3>1, <3>2 DEF Inv, TypeInv, TypeOK
      <3>7. TypeInv'
        <4>1. TypeOK'
          <5>1. n' \in 0..MAXCONNECTIONS
            <6>1. CASE sockets[fd] = "client"
              <7>1. n \in Slots /\ n' = n + 1
                BY <1>2, <3>1, <6>1 DEF Inv, SockInv
              <7> QED
                BY <7>1, Sizes DEF Slots
            <6>2. CASE sockets[fd] # "client"
              BY <1>2, <3>1, <6>2 DEF Inv, TypeInv, TypeOK
            <6> QED
              BY <6>1, <6>2
          <5>2. reached' \in [Fds -> Nat]
            BY <1>2, <3>1, <3>5 DEF Inv, TypeInv, TypeOK
          <5> QED
            BY <1>2, <3>1, <3>2, <3>4, <5>1, <5>2
               DEF Inv, TypeInv, TypeOK, Entry, Buffers, shutdown
        <4> QED
          BY <1>2, <3>1, <4>1 DEF Inv, TypeInv, shutdown
      <3>8. SockInv'
        <4>1. closing' = NoFd /\ pc' \in {"read", "loop"} /\ fd' = NoFd /\ shutFd' = shutFd
          BY <3>1, <3>3 DEF shutdown
        <4>2. shutFd' # NoFd => Loose(shutFd)'
          <5>1. SUFFICES ASSUME shutFd # NoFd  PROVE Loose(shutFd)'
            BY <4>1
          <5>2. Loose(shutFd) /\ shutFd # fd
            BY <1>2, <3>3, <5>1 DEF Inv, SockInv
          <5>3. \A j \in Slots : my_fds'[j].fd # shutFd
            BY <3>4, <3>6, <5>2 DEF Loose
          <5> QED
            BY <3>1, <4>1, <5>2, <5>3 DEF Loose
        <4>3. \A g \in Fds : sockets'[g] = "client" =>
                \/ \E j \in Slots : my_fds'[j].fd = g
                \/ shutFd' = g
          BY <1>2, <3>1, <3>2, <3>3, <3>4, <3>6, <4>1, Sizes DEF Inv, SockInv
        <4>4. /\ \A j \in Slots : my_fds'[j].fd_type = "NA" <=> my_fds'[j].fd = NoFd
              /\ \A j \in Slots : my_fds'[j].fd # NoFd => sockets'[my_fds'[j].fd] = my_fds'[j].fd_type
          BY <1>2, <3>1, <3>3, <3>4, <3>6 DEF Inv, SockInv
        <4>5. \A i, j \in Slots : my_fds'[i].fd = my_fds'[j].fd /\ my_fds'[j].fd # NoFd => i = j
          BY <1>2, <3>3, <3>4, <3>6 DEF Inv, SockInv, Loose
        <4> QED
          BY <4>1, <4>2, <4>3, <4>4, <4>5 DEF SockInv
      <3>9. StreamInv'
        <4>1. ASSUME NEW j \in Slots, IsClient(j)'
              PROVE  Stream(my_fds[j], reached[my_fds[j].fd], sent)'
          <5>1. CASE j = k
            BY <1>2, <3>1, <3>3, <3>4, <3>6, <5>1 DEF Stream, Inv, TypeInv, TypeOK
          <5>2. CASE j # k
            <6>1. my_fds'[j] = my_fds[j] /\ my_fds[j].fd # fd
              BY <3>3, <3>6, <5>2 DEF Loose
            <6>2. reached'[my_fds[j].fd] = reached[my_fds[j].fd]
              BY <1>2, <3>1, <4>1, <6>1 DEF Inv, TypeInv, TypeOK, SockInv, IsClient
            <6> QED
              BY <1>2, <3>1, <4>1, <6>1, <6>2 DEF Inv, StreamInv, IsClient
          <5> QED
            BY <5>1, <5>2
        <4> QED
          BY <4>1 DEF StreamInv
      <3> QED
        BY <3>7, <3>8, <3>9 DEF Inv
    <2> QED
      BY <2>1, <2>2
  <1> QED
    BY <1>1, <1>2

LEMMA AcceptKeeps == Inv /\ Accept => Inv'
  <1> SUFFICES ASSUME Inv, Accept  PROVE Inv'
    OBVIOUS
  <1>0. PICK f : f = Min(FreeFds)
    OBVIOUS
  <1>1. f \in Fds /\ sockets[f] = "free" /\ f # NoFd
    BY <1>0, FreeFdIsFree, Sizes DEF Accept
  <1>2. /\ pc = "accept" /\ pc' = "add" /\ fd' = f /\ sockets' = [sockets EXCEPT ![f] = "client"]
        /\ UNCHANGED <<my_fds, listen_sock, n, cleanup, after, closing, read_fdset, write_fdset,
                       shutdown, sent, reached>>
        /\ closing = NoFd /\ n \in Slots
    BY <1>0 DEF Accept, unchangedByServer, Inv, SockInv, TypeInv
  <1>3. TypeInv'
    BY <1>1, <1>2 DEF Inv, TypeInv, TypeOK, shutdown
  <1>4. SockInv'
    <2>1. \A g \in Fds : sockets'[g] = IF g = f THEN "client" ELSE sockets[g]
      BY <1>2 DEF Inv, TypeInv, TypeOK
    <2>2. \A k \in Slots : my_fds[k].fd # f
      BY <1>1, Sizes DEF Inv, SockInv, TypeInv, TypeOK
    <2>3. \A g \in Fds : Loose(g) => Loose(g)' /\ g # f
      BY <1>1, <1>2, <2>1 DEF Loose
    <2>4. Loose(fd)' /\ fd' # shutFd'
      BY <1>1, <1>2, <2>1, <2>2 DEF Inv, SockInv, Loose, shutdown
    <2>5. shutFd' # NoFd => Loose(shutFd)'
      BY <1>2, <2>3 DEF Inv, SockInv, Loose, shutdown
    <2>6. /\ \A k \in Slots : my_fds'[k].fd_type = "NA" <=> my_fds'[k].fd = NoFd
          /\ \A k \in Slots : my_fds'[k].fd # NoFd => sockets'[my_fds'[k].fd] = my_fds'[k].fd_type
          /\ \A j, k \in Slots : my_fds'[j].fd = my_fds'[k].fd /\ my_fds'[k].fd # NoFd => j = k
      BY <1>2, <2>1, <2>2 DEF Inv, SockInv, TypeInv, TypeOK
    <2>7. \A g \in Fds : sockets'[g] = "client" =>
            \/ \E k \in Slots : my_fds'[k].fd = g
            \/ fd' = g
            \/ closing' = g
            \/ shutFd' = g
      BY <1>2, <2>1 DEF Inv, SockInv, shutdown
    <2> QED
      BY <1>2, <2>4, <2>5, <2>6, <2>7 DEF SockInv
  <1>5. StreamInv'
    BY <1>2 DEF Inv, StreamInv, IsClient, Stream, Position
  <1> QED
    BY <1>3, <1>4, <1>5 DEF Inv

LEMMA PollReadKeeps ==
  ASSUME NEW ready \in BOOLEAN, Inv, PollRead(ready)
  PROVE  Inv'
  <1>1. pc = "read" /\ n \in Slots /\ closing = NoFd
        /\ UNCHANGED <<my_fds, listen_sock, sockets, shutdown, sent, reached>>
    BY DEF PollRead, unchangedByServer, Inv, SockInv
  <1>2. CASE ready
    <2>1. /\ fd' = my_fds[n].fd /\ pc' \in {"recv", "accept"}
          /\ UNCHANGED <<n, cleanup, after, closing, read_fdset, write_fdset>>
      BY <1>2 DEF PollRead
    <2>2. TypeInv'
      BY <1>1, <2>1 DEF Inv, TypeInv, TypeOK, shutdown
    <2>3. SockInv'
      BY <1>1, <2>1 DEF Inv, SockInv, Loose, shutdown
    <2>4. StreamInv'
      BY <1>1 DEF Inv, StreamInv, IsClient, Stream, Position
    <2> QED
      BY <2>2, <2>3, <2>4 DEF Inv
  <1>3. CASE ~ready
    <2>1. NextSlot("read")
      BY <1>3 DEF PollRead
    <2>2. WayTypes /\ pc' \in Plain /\ closing' = closing
      BY <1>1, <2>1, Sizes DEF NextSlot, WayTypes, Plain, Slots, Inv, TypeInv, TypeOK
    <2> QED
      BY <1>1, <2>2, WalkKeeps
  <1> QED
    BY <1>2, <1>3

--------------------------------------------------------------------------------
(* The server task: writing. *)

LEMMA RestKeeps ==
  ASSUME NEW slot, NEW at \in Nat, NEW count \in 1..BufferSize,
         Entry(slot, sent), sent \in Nat, slot.send_buffer # <<>>,
         Head(slot.send_buffer).offset + count <= BufferSize, Stream(slot, at, sent)
  PROVE  /\ Rest(slot, count) \in Seq(Buffers(sent))
         /\ Len(Rest(slot, count)) <= Len(slot.send_buffer)
         /\ \A s : s.send_buffer = Rest(slot, count)
                   /\ s.disconnect_requested = slot.disconnect_requested
              => Stream(s, at + count, sent)
  <1> DEFINE q == slot.send_buffer
             b == q[1]
             done == b.offset + count
  <1>1. q \in Seq(Buffers(sent)) /\ Len(q) \in Nat /\ Len(q) > 0
    BY LenProperties, EmptySeq DEF Entry
  <1>2. Head(q) = b /\ b \in Buffers(sent)
    BY <1>1, ElementOfSeq
  <1>3. b.id \in Nat /\ b.offset \in Nat /\ done \in Nat /\ done <= BufferSize
    BY <1>2, Sizes DEF Buffers
  <1>4. /\ Position(b) = at
        /\ \A i \in 1..(Len(q) - 1) : q[i + 1].id = q[i].id + 1 /\ q[i + 1].offset = 0
        /\ ~slot.disconnect_requested => q[Len(q)].id = sent
    BY DEF Stream
  <1>5. CASE done = BufferSize
    <2> DEFINE r == Tail(q)
    <2>1. Rest(slot, count) = r
      BY <1>2, <1>5 DEF Rest
    <2>2. r \in Seq(Buffers(sent)) /\ Len(r) = Len(q) - 1 /\ \A i \in 1..Len(r) : r[i] = q[i + 1]
      BY <1>1, HeadTailProperties
    <2>3. at + count = b.id * BufferSize
      <3>1. at = (b.id - 1) * BufferSize + b.offset
        BY <1>4 DEF Position
      <3>2. (b.id - 1) * BufferSize = b.id * BufferSize - BufferSize
        BY <1>3, Sizes
      <3>3. ASSUME NEW x \in Int, NEW y \in Int, NEW o \in Int, x = y - BufferSize,
                   o + count = BufferSize, at = x + o
            PROVE  at + count = y
        BY <3>3, Sizes
      <3>4. (b.id - 1) * BufferSize \in Int /\ b.id * BufferSize \in Int /\ b.offset \in Int
        <4>1. \A x \in Nat : (x - 1) * BufferSize \in Int /\ x * BufferSize \in Int
          BY Sizes
        <4>2. b.id \in Nat /\ b.offset \in Nat
          BY <1>3
        <4> HIDE DEF b
        <4>3. b.offset \in Int
          BY <4>2
        <4> QED
          BY <4>1, <4>2, <4>3, Zenon
      <3> HIDE DEF b
      <3> QED
        BY <1>5, <3>1, <3>2, <3>3, <3>4
    <2> HIDE DEF r, q
    <2>4. ASSUME NEW i \in 1..(Len(r) - 1)
          PROVE  r[i + 1].id = r[i].id + 1 /\ r[i + 1].offset = 0
      <3>1. i \in 1..Len(r) /\ i + 1 \in 1..Len(r) /\ i + 1 \in 1..(Len(q) - 1)
        BY <1>1, <2>2, <2>4
      <3> QED
        BY <1>4, <2>2, <3>1
    <2>5. CASE r = <<>>
      <3>1. Len(q) = 1
        BY <1>1, <2>2, <2>5, EmptySeq
      <3>2. ~slot.disconnect_requested => at + count = sent * BufferSize
        BY <1>4, <2>3, <3>1
      <3>3. \A i \in 1..(Len(r) - 1) : FALSE
        BY <2>2, <3>1
      <3> QED
        BY <1>1, <2>1, <2>2, <2>5, <3>2, <3>3 DEF Stream, q
    <2>6. CASE r # <<>>
      <3>1. Len(r) > 0 /\ Len(q) > 1
        BY <1>1, <2>2, <2>6, EmptySeq
      <3>2. r[1] = q[2] /\ q[2].id = b.id + 1 /\ q[2].offset = 0
        BY <1>1, <1>4, <2>2, <3>1
      <3>3. Position(r[1]) = at + count
        <4>1. Position(r[1]) = ((b.id + 1) - 1) * BufferSize + 0
          BY <3>2 DEF Position
        <4>2. ((b.id + 1) - 1) * BufferSize + 0 = b.id * BufferSize
          BY <1>3, Sizes
        <4> QED
          BY <2>3, <4>1, <4>2
      <3>4. r[Len(r)] = q[Len(q)]
        BY <1>1, <2>2, <3>1
      <3>5. ASSUME NEW s, s.send_buffer = r,
                   s.disconnect_requested = slot.disconnect_requested
            PROVE  Stream(s, at + count, sent)
        BY <1>4, <2>4, <2>6, <3>3, <3>4, <3>5 DEF Stream
      <3> QED
        BY <1>1, <2>1, <2>2, <3>5 DEF q
    <2> QED
      BY <2>5, <2>6
  <1>6. CASE done # BufferSize
    <2> DEFINE c == [b EXCEPT !.offset = done]
               r == [q EXCEPT ![1] = c]
    <2>1. Rest(slot, count) = r
      BY <1>2, <1>6 DEF Rest
    <2>2. c \in Buffers(sent) /\ c.id = b.id /\ c.offset = done
      <3>1. ASSUME NEW x \in Buffers(sent), NEW d \in 0..(BufferSize - 1)
            PROVE  /\ [x EXCEPT !.offset = d] \in Buffers(sent)
                   /\ [x EXCEPT !.offset = d].id = x.id /\ [x EXCEPT !.offset = d].offset = d
        BY DEF Buffers
      <3>2. done \in 0..(BufferSize - 1)
        <4> HIDE DEF done
        <4> QED
          BY <1>3, <1>6, Sizes
      <3> HIDE DEF b, done
      <3> QED
        BY <1>2, <3>1, <3>2
    <2> HIDE DEF c
    <2>3. /\ r \in Seq(Buffers(sent)) /\ Len(r) = Len(q)
          /\ r[1] = c /\ \A i \in 2..Len(q) : r[i] = q[i]
      BY <1>1, <2>2, ExceptSeq
    <2>4. Position(c) = at + count
      <3>1. Position(c) = (b.id - 1) * BufferSize + done
        BY <2>2 DEF Position
      <3>2. at = (b.id - 1) * BufferSize + b.offset
        BY <1>4 DEF Position
      <3>3. (b.id - 1) * BufferSize \in Int
        BY <1>3, Sizes
      <3> HIDE DEF b
      <3> QED
        BY <1>3, <3>1, <3>2, <3>3
    <2> HIDE DEF r, q
    <2>5. ASSUME NEW i \in 1..(Len(r) - 1)
          PROVE  r[i + 1].id = r[i].id + 1 /\ r[i + 1].offset = 0
      <3>1. i \in 1..(Len(q) - 1) /\ i + 1 \in 2..Len(q)
        BY <1>1, <2>3, <2>5
      <3>2. r[i].id = q[i].id
        BY <1>1, <2>2, <2>3, <3>1
      <3> QED
        BY <1>4, <2>3, <3>1, <3>2
    <2>6. r # <<>> /\ r[Len(r)].id = q[Len(q)].id
      <3>1. r # <<>>
        BY <1>1, <2>3, EmptySeq
      <3>2. CASE Len(q) = 1
        <4>1. r[1].id = q[1].id
          BY <2>2, <2>3
        <4> QED
          BY <2>3, <3>1, <3>2, <4>1
      <3>3. CASE Len(q) # 1
        BY <1>1, <2>3, <3>3
      <3> QED
        BY <3>1, <3>2, <3>3
    <2>7. ASSUME NEW s, s.send_buffer = r,
                 s.disconnect_requested = slot.disconnect_requested
          PROVE  Stream(s, at + count, sent)
      BY <1>4, <2>3, <2>4, <2>5, <2>6, <2>7 DEF Stream
    <2> QED
      BY <1>1, <2>1, <2>3, <2>7 DEF q
  <1> QED
    BY <1>5, <1>6

LEMMA WriteKeeps ==
  ASSUME NEW count \in 1..BufferSize, Inv, Write(count)
  PROVE  Inv'
  <1> DEFINE slot == my_fds[n]
             at == reached[slot.fd]
             new == [slot EXCEPT !.send_buffer = Rest(slot, count)]
  <1>1. /\ pc = "write" /\ n \in Slots /\ IsClient(n) /\ slot.send_buffer # <<>>
        /\ Head(slot.send_buffer).offset + count <= BufferSize
        /\ my_fds' = [my_fds EXCEPT ![n] = new]
        /\ reached' = [reached EXCEPT ![slot.fd] = @ + count]
        /\ NextSlot("write")
        /\ UNCHANGED <<listen_sock, sockets, shutdown, sent>> /\ closing = NoFd
    BY DEF Write, Writable, unchangedByServer, Inv, SockInv
  <1>2. /\ n' = n + 1 /\ pc' = "write" /\ fd' = NoFd
        /\ UNCHANGED <<cleanup, after, closing, read_fdset, write_fdset>>
    BY <1>1 DEF NextSlot
  <1>3. sent \in Nat /\ TypeOK /\ n + 1 \in 0..MAXCONNECTIONS
    BY <1>1, Sizes DEF Inv, TypeInv, Slots
  <1>4. Entry(slot, sent)
    BY <1>1, <1>3, EntriesTyped
  <1>5. slot.fd \in Fds /\ at \in Nat
    <2>1. slot.fd # NoFd
      BY <1>1 DEF IsClient, Inv, SockInv
    <2> QED
      BY <1>1, <1>3, <2>1 DEF TypeOK
  <1>6. Stream(slot, at, sent)
    BY <1>1 DEF Inv, StreamInv
  <1>7. /\ Rest(slot, count) \in Seq(Buffers(sent))
        /\ Len(Rest(slot, count)) <= Len(slot.send_buffer)
        /\ \A s : s.send_buffer = Rest(slot, count)
                  /\ s.disconnect_requested = slot.disconnect_requested
             => Stream(s, at + count, sent)
    <2> HIDE DEF slot, at
    <2> QED
      BY <1>1, <1>3, <1>4, <1>5, <1>6, RestKeeps
  <1>8. /\ Entry(new, sent) /\ new.fd = slot.fd /\ new.fd_type = slot.fd_type
        /\ new.send_buffer = Rest(slot, count)
        /\ new.disconnect_requested = slot.disconnect_requested
    <2> DEFINE rest == Rest(slot, count)
    <2>1. Len(rest) \in Nat /\ Len(slot.send_buffer) \in Nat
      BY <1>4, <1>7, LenProperties DEF Entry
    <2>2. Len(rest) <= MAX_FIFO_BUFFERS
      BY <1>4, <1>7, <2>1, Sizes DEF Entry
    <2> HIDE DEF rest, slot
    <2> QED
      BY <1>4, <1>7, <2>2 DEF Entry, rest
  <1>9. Stream(new, at + count, sent)
    <2> HIDE DEF new, slot, at
    <2> QED
      BY <1>7, <1>8
  <1> HIDE DEF new
  <1>10. \A k \in Slots : my_fds'[k] = IF k = n THEN new ELSE my_fds[k]
    BY <1>1, <1>3 DEF TypeOK
  <1>11. /\ reached' \in [Fds -> Nat] /\ reached'[slot.fd] = at + count
         /\ \A f \in Fds : f # slot.fd => reached'[f] = reached[f]
    <2>1. at + count \in Nat
      <3> HIDE DEF at
      <3> QED
        BY <1>5, Sizes
    <2>2. reached' = [reached EXCEPT ![slot.fd] = at + count]
      BY <1>1
    <2> HIDE DEF slot, at
    <2> QED
      BY <1>3, <1>5, <2>1, <2>2 DEF TypeOK
  <1>12. TypeInv'
    <2>1. TypeOK'
      BY <1>1, <1>2, <1>3, <1>8, <1>11 DEF TypeOK, Entry, Buffers, shutdown
    <2> QED
      BY <1>1, <1>2, <2>1 DEF Inv, TypeInv, shutdown
  <1>13. SockInv'
    <2>1. \A k \in Slots : my_fds'[k].fd = my_fds[k].fd /\ my_fds'[k].fd_type = my_fds[k].fd_type
      BY <1>8, <1>10
    <2> QED
      BY <1>1, <1>2, <2>1 DEF Inv, SockInv, Loose, shutdown
  <1>14. StreamInv'
    <2>1. ASSUME NEW k \in Slots, IsClient(k)'
          PROVE  Stream(my_fds[k], reached[my_fds[k].fd], sent)'
      <3>1. sent' = sent
        BY <1>1
      <3>2. CASE k = n
        BY <1>8, <1>9, <1>10, <1>11, <3>1, <3>2 DEF Stream
      <3>3. CASE k # n
        <4>1. my_fds'[k] = my_fds[k] /\ IsClient(k)
          BY <1>10, <2>1, <3>3 DEF IsClient
        <4>2. my_fds[k].fd \in Fds /\ my_fds[k].fd # slot.fd
          BY <1>1, <1>3, <1>5, <3>3, <4>1, Sizes DEF Inv, SockInv, IsClient, TypeOK
        <4>3. Stream(my_fds[k], reached[my_fds[k].fd], sent)
          BY <4>1 DEF Inv, StreamInv
        <4> QED
          BY <1>11, <3>1, <4>1, <4>2, <4>3 DEF Stream
      <3> QED
        BY <3>2, <3>3
    <2> QED
      BY <2>1 DEF StreamInv
  <1> QED
    BY <1>12, <1>13, <1>14 DEF Inv

--------------------------------------------------------------------------------
(* The rest of the server's way, and the theorems. *)

LEMMA WayKeeps ==
  ASSUME Inv,
         \/ Stop \/ Loop \/ Select \/ SelectFails \/ Selected
         \/ \E ready \in BOOLEAN : PollException(ready)
         \/ \E lost \in BOOLEAN : Recv(lost)
         \/ AcceptNone \/ WriteNone \/ WriteFails
         \/ AllPolled("except", "read") \/ AllPolled("read", "write") \/ AllPolled("write", "net")
         \/ TestNetwork \/ CleanedUp
  PROVE  Inv'
  <1> USE DEF WayTypes, Plain, unchangedByServer, Goto, GotoCleanUp, NextSlot, shutdown
  <1>0. /\ n \in 0..MAXCONNECTIONS /\ fd \in Fds \cup {NoFd} /\ cleanup \subseteq Slots
        /\ read_fdset \subseteq Fds /\ write_fdset \subseteq Fds
        /\ after \in {"start", "select", "read", "write", "except"}
        /\ pc \in {"recv", "accept"} => n \in Slots
        /\ closing # NoFd => pc = "cleanup"
        /\ NoFd \in Fds \cup {NoFd} /\ 0 \in 0..MAXCONNECTIONS
        /\ n \in Slots => n + 1 \in 0..MAXCONNECTIONS /\ {n} \subseteq Slots
        /\ Requested \subseteq Slots /\ Slots \subseteq Slots /\ {} \subseteq Fds
    BY Sizes DEF Inv, TypeInv, TypeOK, SockInv, Requested, Slots
  <1>1. CASE Stop  BY <1>0, <1>1, WalkKeeps DEF Stop
  <1>2. CASE Loop
    <2>1. WayTypes /\ pc' \in Plain /\ pc \notin {"add", "place"} /\ closing' = closing /\ closing = NoFd
      BY <1>0, <1>2 DEF Loop
    <2> QED
      BY <1>2, <2>1, WalkKeeps DEF Loop
  <1>3. CASE Select
    <2>1. read_fdset' \subseteq Fds /\ write_fdset' \subseteq Fds
      BY <1>3 DEF Select, InUse, IsClient, Inv, SockInv, TypeInv, TypeOK
    <2> QED
      BY <1>0, <1>3, <2>1, WalkKeeps DEF Select
  <1>4. CASE SelectFails  BY <1>0, <1>4, WalkKeeps DEF SelectFails
  <1>5. CASE Selected  BY <1>0, <1>5, WalkKeeps DEF Selected
  <1>6. ASSUME NEW ready \in BOOLEAN, PollException(ready)  PROVE Inv'
    BY <1>0, <1>6, WalkKeeps DEF PollException
  <1>7. ASSUME NEW lost \in BOOLEAN, Recv(lost)  PROVE Inv'
    BY <1>0, <1>7, WalkKeeps DEF Recv
  <1>8. CASE AcceptNone  BY <1>0, <1>8, WalkKeeps DEF AcceptNone
  <1>9. CASE WriteNone  BY <1>0, <1>9, WalkKeeps DEF WriteNone
  <1>10. CASE WriteFails  BY <1>0, <1>10, WalkKeeps DEF WriteFails, Writable
  <1>11. CASE AllPolled("except", "read")  BY <1>0, <1>11, WalkKeeps DEF AllPolled
  <1>12. CASE AllPolled("read", "write")  BY <1>0, <1>12, WalkKeeps DEF AllPolled
  <1>13. CASE AllPolled("write", "net")  BY <1>0, <1>13, WalkKeeps DEF AllPolled
  <1>14. CASE TestNetwork  BY <1>0, <1>14, WalkKeeps DEF TestNetwork
  <1>15. CASE CleanedUp  BY <1>0, <1>15, WalkKeeps DEF CleanedUp
  <1> QED
    BY <1>1, <1>2, <1>3, <1>4, <1>5, <1>6, <1>7, <1>8, <1>9, <1>10, <1>11, <1>12, <1>13,
       <1>14, <1>15

LEMMA InvStep == Inv /\ [Next]_vars => Inv'
  <1> SUFFICES ASSUME Inv, [Next]_vars  PROVE Inv'
    OBVIOUS
  <1>1. CASE UNCHANGED vars
    <2>1. /\ UNCHANGED <<my_fds, listen_sock, sockets, server, sent, reached, shutFd, shut>>
          /\ shut \in -1..MAXCONNECTIONS
      BY <1>1 DEF vars, shutdown, Inv, TypeInv, TypeOK
    <2> QED
      BY <2>1, OtherKeeps
  <1>2. CASE Test
    BY <1>2, OtherKeeps DEF Test, shutdown, Inv, TypeInv, TypeOK
  <1>3. ASSUME NEW noMemory \in SUBSET {k \in Slots : IsClient(k)}, SendAll(noMemory)
        PROVE  Inv'
    BY <1>3, SendAllKeeps
  <1>4. CASE StartShutdown \/ Shutdown \/ ShutdownClose
    BY <1>4, ShutdownKeeps
  <1>5. CASE Network
    BY <1>5, OtherKeeps DEF Network, shutdown, Inv, TypeInv, TypeOK
  <1>6. CASE Server
    BY <1>6, OpenKeeps, BindKeeps, AddKeeps, AcceptKeeps, PollReadKeeps, WriteKeeps,
       CleanUpKeeps, WayKeeps DEF Server
  <1> QED
    BY <1>1, <1>2, <1>3, <1>4, <1>5, <1>6 DEF Next

LEMMA InvInit == Init => Inv
  <1> SUFFICES ASSUME Init  PROVE Inv
    OBVIOUS
  <1>1. Entry(Unused, 0) /\ Unused.fd = NoFd /\ Unused.fd_type = "NA"
    BY UnusedEntry
  <1> HIDE DEF Unused
  <1>2. TypeInv
    BY <1>1, Sizes DEF Init, TypeInv, TypeOK, Entry, Buffers
  <1>3. SockInv
    BY <1>1, Sizes DEF Init, SockInv
  <1>4. StreamInv
    BY <1>1 DEF Init, StreamInv, IsClient
  <1> QED
    BY <1>2, <1>3, <1>4 DEF Inv

LEMMA InvHolds == Spec => []Inv
  BY InvInit, InvStep, PTL DEF Spec

\* Type correctness: every queue is bounded and holds buffers the panel sent.
THEOREM ServerTypeCorrect == Spec => []TypeOK
  <1>1. Inv => TypeOK
    BY DEF Inv, TypeInv
  <1> QED
    BY <1>1, InvHolds, PTL

\* A client's stream has no gap, for any number of clients, length of the queues and
\* of a buffer, however much each write takes.
THEOREM StreamsHaveNoGap == Spec => []StreamHasNoGap
  <1>1. ASSUME Inv  PROVE StreamHasNoGap
    <2>1. ASSUME NEW k \in Slots, my_fds[k].send_buffer # <<>>
          PROVE  Head(my_fds[k].send_buffer) = my_fds[k].send_buffer[1]
      BY <1>1, <2>1 DEF Inv, TypeInv, TypeOK
    <2> QED
      BY <1>1, <2>1 DEF Inv, StreamInv, Stream, StreamHasNoGap
  <1> QED
    BY <1>1, InvHolds, PTL

\* No socket has two owners, none is closed while the table names it, and no client
\* is forgotten, for any number of slots and sockets, while two tasks clean up.
THEOREM SocketsOwnedOnce == Spec => []SocketsAreOwnedOnce
  <1>1. ASSUME Inv  PROVE SocketsAreOwnedOnce
    <2>1. ASSUME NEW f \in Fds, NEW o1 \in Owners(f), NEW o2 \in Owners(f)  PROVE o1 = o2
      BY <1>1, <2>1, Sizes DEF Inv, SockInv, Loose, Owners
    <2>2. ASSUME NEW f \in Fds, sockets[f] = "client"  PROVE Owners(f) # {}
      <3>1. CASE \E k \in Slots : my_fds[k].fd = f
        <4>1. PICK k \in Slots : my_fds[k].fd = f
          BY <3>1
        <4>2. <<"slot", k>> \in Owners(f)
          BY <4>1 DEF Owners
        <4> QED
          BY <4>2
      <3>2. CASE pc \in {"add", "place"} /\ fd = f
        <4>1. <<"server", 0>> \in Owners(f)
          BY <3>2 DEF Owners
        <4> QED
          BY <4>1
      <3>3. CASE closing = f
        <4>1. <<"closing", 0>> \in Owners(f)
          BY <3>3 DEF Owners
        <4> QED
          BY <4>1
      <3>4. CASE shutFd = f
        <4>1. <<"shutdown", 0>> \in Owners(f)
          BY <3>4 DEF Owners
        <4> QED
          BY <4>1
      <3> QED
        BY <1>1, <2>2, <3>1, <3>2, <3>3, <3>4 DEF Inv, SockInv
    <2>3. ASSUME NEW f \in Fds
          PROVE  /\ \A k \in Slots : my_fds[k].fd = f => sockets[f] = my_fds[k].fd_type
                 /\ f \in {closing, shutFd} => sockets[f] # "free"
      BY <1>1, <2>3, Sizes DEF Inv, SockInv, Loose
    <2> QED
      BY <2>1, <2>2, <2>3 DEF SocketsAreOwnedOnce
  <1> QED
    BY <1>1, InvHolds, PTL
================================================================================
