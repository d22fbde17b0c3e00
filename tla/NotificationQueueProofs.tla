------------------------- MODULE NotificationQueueProofs -----------------------
(***************************************************************************)
(* Proofs about NotificationQueue, for any accounts, lists of accounts,    *)
(* settings and length of the queue.                                       *)
(***************************************************************************)
EXTENDS NotificationQueue, SequenceTheorems, TLAPS

Records ==
  [component : {"twilio", "pushover"}, account : 0..255,
   url : Types \cup {"Pushover"}, next : {"GET", "DONE"},
   body : Types \cup {"none", "Pushover"}, method : {"POST", "GET"}]

SentRecords ==
  [id : Nat, method : {"POST", "GET"}, url : Types \cup {"Pushover"},
   body : Types \cup {"none", "Pushover"}]

\* The types the other parts rest on.
QueueTypes ==
  /\ request \in Seq(Records \cup {Free})
  /\ queue \in Seq(Nat) /\ Len(queue) <= HTTP_SEND_QUEUE_SIZE
  /\ slots \in Seq(0..255) /\ component \in {"twilio", "pushover"}
  /\ type \in [Accounts -> Types \cup {"none"}]
  /\ pc \in {"poll", "receive", "ready", "perform", "done"}
  /\ current \in 0..made
  /\ sent \in Seq(SentRecords)

\* The queue holds, in the order they were made, requests made after the one in
\* hand; what is allocated is there or in hand.
QueueOrder ==
  /\ \A i \in 1..Len(queue) : queue[i] \in 1..made /\ queue[i] > current
  /\ \A i, j \in 1..Len(queue) : i < j => queue[i] < queue[j]
  /\ InFlight \subseteq 1..made
  /\ \A r \in 1..made :
       request[r] # Free <=> (\E i \in 1..Len(queue) : queue[i] = r) \/ r \in InFlight

\* Only the POST of a call is followed, by a GET.
FollowsCall(r) ==
  /\ r.next = "GET" => r.method = "POST" /\ r.url = "Call"
  /\ r.method = "GET" => r.next = "DONE" /\ r.url = "Call"

SentBefore(n) == \A i \in 1..n : sent[i].id < current

\* What was sent last, next to the request in hand.
SentOrder ==
  /\ \A r \in 1..made : request[r] # Free => FollowsCall(request[r])
  /\ \A i \in 1..Len(queue) : request[queue[i]].method = "POST"
  /\ SentOnceInOrder
  /\ pc \in {"poll", "receive"} => \A i \in 1..Len(sent) : sent[i].id <= current
  /\ pc = "ready" => SentBefore(Len(sent)) /\ request[current].method = "POST"
  /\ pc = "perform" =>
       IF request[current].method = "POST"
       THEN SentBefore(Len(sent))
       ELSE /\ Len(sent) > 0 /\ SentBefore(Len(sent) - 1)
            /\ sent[Len(sent)].id = current
            /\ sent[Len(sent)].method = "POST" /\ sent[Len(sent)].url = "Call"
  /\ pc = "done" =>
       /\ Len(sent) > 0 /\ sent[Len(sent)].id = current
       /\ sent[Len(sent)].method = request[current].method
       /\ sent[Len(sent)].url = request[current].url
       /\ request[current].method = "POST" => SentBefore(Len(sent) - 1)
       /\ \A i \in 1..Len(sent) : sent[i].id <= current

QueueInv == QueueTypes /\ QueueOrder /\ SentOrder

LEMMA FreeIsNone == Free \notin Records
  BY DEF Free, Records

\* The accounts of a list, as they are kept.
LEMMA SlotsType == ASSUME NEW list \in NotifyLists  PROVE Slots(list) \in Seq(0..255)
  <1>1. list \in Seq(Nat)  BY QueueAssumption DEF QueueAssumption
  <1>2. /\ Len(list) \in Nat /\ DOMAIN list = 1..Len(list)
        /\ \A i \in 1..Len(list) : Reverse(list)[i] \in Nat
    BY <1>1 DEF Reverse
  <1>3. \A i \in 1..Len(list) : Reverse(list)[i] % 256 \in 0..255
    <2>1. \A n \in Nat : n % 256 \in 0..255  OBVIOUS
    <2>2. QED  BY <1>2, <2>1
  <1>4. Slots(list) \in [1..Len(list) -> 0..255]
    BY <1>2, <1>3 DEF Slots
  <1>5. [1..Len(list) -> 0..255] \in {[1..n -> 0..255] : n \in Nat}
    BY <1>2
  <1>6. Seq(0..255) = UNION {[1..n -> 0..255] : n \in Nat}
    BY SeqDef
  <1>7. QED  BY <1>4, <1>5, <1>6, Zenon

LEMMA TypesStep == QueueTypes /\ QueueOrder /\ [Next]_vars => QueueTypes'
  <1> SUFFICES ASSUME QueueTypes, QueueOrder, [Next]_vars  PROVE QueueTypes'
    OBVIOUS
  <1> USE QueueAssumption, FreeIsNone
      DEF QueueAssumption, QueueTypes, settings, callback, consumer, host, made
  <1>1. ASSUME NEW c \in Components, NEW list \in NotifyLists, Match(c, list)
        PROVE  QueueTypes'
    BY <1>1, SlotsType DEF Match
  <1>2. CASE SkipDisabled \/ AbortUnknown
    <2>1. /\ slots # <<>> /\ slots' \in {Tail(slots), <<>>}
          /\ UNCHANGED <<request, queue, type, component, pc, current, sent>>
      BY <1>2 DEF SkipDisabled, AbortUnknown
    <2>2. slots' \in Seq(0..255)
      <3>1. Tail(slots) \in Seq(0..255)  BY <2>1, HeadTailProperties, Zenon
      <3>2. <<>> \in Seq(0..255)  BY EmptySeq, Zenon
      <3>3. QED  BY <2>1, <3>1, <3>2
    <2>3. QED  BY <2>1, <2>2
  <1>3. CASE Enqueue \/ Drop
    <2>1. /\ slots # <<>> /\ slots' = Tail(slots)
          /\ UNCHANGED <<type, component, pc, current, sent>>
      BY <1>3 DEF Enqueue, Drop, TryHead, Sendable
    <2>2. CASE Enqueue
      <3>1. Made(Head(slots)) \in Records
        <4>1. Head(slots) \in 0..255  BY <2>1, HeadTailProperties, Zenon
        <4>2. component = "twilio" => TypeOf(Head(slots)) \in Types
          BY <2>2, <4>1 DEF Enqueue, TryHead, Sendable, TypeOf
        <4>3. QED  BY <4>1, <4>2 DEF Made, Records
      <3>2. /\ request' = Append(request, Made(Head(slots)))
            /\ queue' = Append(queue, Len(request) + 1)
            /\ Len(queue) < HTTP_SEND_QUEUE_SIZE
        BY <2>2 DEF Enqueue
      <3>3. QED  BY <2>1, <3>1, <3>2
    <2>3. CASE Drop
      <3>1. request' = Append(request, Free) /\ queue' = queue
        BY <2>3 DEF Drop
      <3>2. QED  BY <2>1, <3>1
    <2>4. QED  BY <1>3, <2>2, <2>3
  <1>4. CASE Poll \/ Receive
    <2>1. CASE Poll  BY <2>1 DEF Poll
    <2>2. CASE Receive
      <3>1. /\ queue # <<>> /\ current' = Head(queue) /\ queue' = Tail(queue)
            /\ pc' = "ready" /\ UNCHANGED <<request, type, component, slots, sent>>
        BY <2>2 DEF Receive
      <3>2. Head(queue) \in 1..Len(request)  BY <3>1 DEF QueueOrder
      <3>3. Tail(queue) \in Seq(Nat) /\ Len(Tail(queue)) <= HTTP_SEND_QUEUE_SIZE  BY <3>1
      <3>4. QED  BY <3>1, <3>2, <3>3
    <2>3. QED  BY <1>4, <2>1, <2>2
  <1>5. CASE Ready \/ FollowUp \/ Done
    <2>1. current \in 1..Len(request) /\ request[current] \in Records
      BY <1>5 DEF Ready, FollowUp, Done, QueueOrder, InFlight
    <2>2. PICK r \in Records \cup {Free} : request' = [request EXCEPT ![current] = r]
      <3>1. CASE Ready
        <4> DEFINE b == IF request[current].component = "pushover" THEN "Pushover"
                        ELSE TypeOf(request[current].account)
        <4>1. b \in Types \cup {"none", "Pushover"}  BY DEF TypeOf
        <4>2. [request[current] EXCEPT !.body = b] \in Records
          <5> HIDE DEF b
          <5>1. QED  BY <2>1, <4>1 DEF Records
        <4>3. request' = [request EXCEPT ![current] = [request[current] EXCEPT !.body = b]]
          BY <3>1 DEF Ready
        <4>4. QED  BY <4>2, <4>3
      <3>2. CASE FollowUp
        <4> DEFINE q == [request[current] EXCEPT !.next = "DONE", !.method = "GET"]
        <4>1. q \in Records  BY <2>1 DEF Records
        <4>2. request' = [request EXCEPT ![current] = q]
          BY <2>1, <3>2 DEF FollowUp
        <4>3. QED  BY <4>1, <4>2
      <3>3. CASE Done  BY <3>3 DEF Done
      <3>4. QED  BY <1>5, <3>1, <3>2, <3>3
    <2>3. /\ UNCHANGED <<type, component, slots, queue, current, sent>>
          /\ pc' \in {"perform", "poll"}
      BY <1>5 DEF Ready, FollowUp, Done
    <2>4. QED  BY <2>1, <2>2, <2>3
  <1>6. ASSUME NEW a \in {"failed", "ok", "link"}, Perform(a)  PROVE QueueTypes'
    <2>1. current \in 1..Len(request) /\ request[current] \in Records
      BY <1>6 DEF Perform, QueueOrder, InFlight
    <2>2. [id |-> current, method |-> request[current].method,
           url |-> request[current].url, body |-> request[current].body] \in SentRecords
      BY <2>1 DEF Records, SentRecords
    <2>3. QED  BY <1>6, <2>2 DEF Perform
  <1>7. ASSUME NEW a \in Settable, NEW t \in Types \cup {"none"}, SetType(a, t)
        PROVE  QueueTypes'
    BY <1>7 DEF SetType
  <1>8. ASSUME NEW a \in Settable, NEW b \in BOOLEAN, SetDisabled(a, b)
        PROVE  QueueTypes'
    BY <1>8 DEF SetDisabled
  <1>9. CASE Network \/ Console  BY <1>9 DEF Network, Console
  <1>10. CASE UNCHANGED vars  BY <1>10 DEF vars
  <1>11. QED
    BY <1>1, <1>2, <1>3, <1>4, <1>5, <1>6, <1>7, <1>8, <1>9, <1>10 DEF Next, Callback, Consumer

LEMMA OrderStep == QueueTypes /\ QueueOrder /\ [Next]_vars => QueueOrder'
  <1> SUFFICES ASSUME QueueTypes, QueueOrder, [Next]_vars  PROVE QueueOrder'
    OBVIOUS
  <1> USE FreeIsNone DEF settings, callback, consumer, host, made
  <1>1. ASSUME UNCHANGED <<request, queue, current>>, InFlight' = InFlight
        PROVE  QueueOrder'
    BY <1>1 DEF QueueOrder
  <1>2. ASSUME UNCHANGED <<request, queue, current, pc>>  PROVE QueueOrder'
    BY <1>1, <1>2 DEF InFlight
  <1>3. CASE Enqueue \/ Drop
    <2>1. UNCHANGED <<pc, current>> /\ InFlight' = InFlight
      BY <1>3 DEF Enqueue, Drop, TryHead, InFlight
    <2>2. PICK r \in Records \cup {Free} : request' = Append(request, r)
      <3>1. CASE Enqueue
        <4>1. /\ slots # <<>> /\ ~(component = "twilio" /\ TypeOf(Head(slots)) = "none")
              /\ request' = Append(request, Made(Head(slots)))
          BY <3>1 DEF Enqueue, TryHead, Sendable
        <4>2. Head(slots) \in 0..255  BY <4>1, HeadTailProperties, Zenon DEF QueueTypes
        <4>3. component = "twilio" => TypeOf(Head(slots)) \in Types
          BY <4>1, <4>2 DEF TypeOf, QueueTypes
        <4>4. Made(Head(slots)) \in Records
          BY <4>2, <4>3 DEF Made, Records, QueueTypes
        <4>5. QED  BY <4>1, <4>4
      <3>2. CASE Drop  BY <3>2 DEF Drop
      <3>3. QED  BY <1>3, <3>1, <3>2
    <2>3. /\ Len(request') = Len(request) + 1
          /\ \A i \in 1..Len(request) : request'[i] = request[i]
          /\ request'[Len(request) + 1] = r
      BY <2>2 DEF QueueTypes
    <2>0. Len(request) \in Nat /\ Len(queue) \in Nat /\ current \in 0..Len(request)
      BY DEF QueueTypes
    <2>4. CASE Drop
      <3>1. r = Free /\ queue' = queue
        <4>1. request' = Append(request, Free) /\ queue' = queue  BY <2>4 DEF Drop
        <4>2. QED  BY <2>3, <4>1 DEF QueueTypes
      <3>2. Len(queue') = Len(queue)  BY <3>1
      <3>3. \A i \in 1..Len(queue) : queue[i] # Len(request) + 1
        BY <2>0 DEF QueueOrder
      <3>4. Len(request) + 1 \notin InFlight  BY <2>0 DEF QueueOrder
      <3>5. \A n \in 1..Len(request') : n = Len(request) + 1 \/ n \in 1..Len(request)
        BY <2>0, <2>3
      <3>6. \A n \in 1..Len(request) : n \in 1..Len(request')
        BY <2>0, <2>3
      <3> HIDE DEF Free
      <3>7. QED
        BY <2>1, <2>3, <3>1, <3>2, <3>3, <3>4, <3>5, <3>6 DEF QueueOrder
    <2>5. CASE Enqueue
      <3>1. /\ Len(queue') = Len(queue) + 1
            /\ \A i \in 1..Len(queue) : queue'[i] = queue[i]
            /\ queue'[Len(queue) + 1] = Len(request) + 1
        BY <2>5 DEF Enqueue, QueueTypes
      <3>2. r # Free
        <4>1. /\ slots # <<>> /\ request' = Append(request, Made(Head(slots)))
          BY <2>5 DEF Enqueue, TryHead, Sendable
        <4>2. Made(Head(slots)).component \in {"twilio", "pushover"}
          BY DEF Made, QueueTypes
        <4>3. r = Made(Head(slots))  BY <2>3, <4>1 DEF QueueTypes
        <4>4. QED  BY <4>2, <4>3 DEF Free
      <3>0. ASSUME NEW i \in 1..Len(queue')
            PROVE  \/ i \in 1..Len(queue) /\ queue'[i] = queue[i] /\ queue[i] \in 1..Len(request)
                      /\ queue[i] > current
                   \/ i = Len(queue) + 1 /\ queue'[i] = Len(request) + 1
        BY <2>0, <3>1 DEF QueueOrder
      <3>3. \A i \in 1..Len(queue') : queue'[i] \in 1..Len(request') /\ queue'[i] > current'
        BY <2>0, <2>1, <2>3, <3>0
      <3>4. \A i, j \in 1..Len(queue') : i < j => queue'[i] < queue'[j]
        <4> SUFFICES ASSUME NEW i \in 1..Len(queue'), NEW j \in 1..Len(queue'), i < j
                     PROVE  queue'[i] < queue'[j]
          OBVIOUS
        <4>1. i \in 1..Len(queue) /\ queue'[i] = queue[i] /\ queue[i] \in 1..Len(request)
          BY <2>0, <3>0, <3>1
        <4>2. CASE j \in 1..Len(queue)
          BY <3>1, <4>1, <4>2 DEF QueueOrder
        <4>3. CASE j = Len(queue) + 1
          BY <2>0, <3>1, <4>1, <4>3
        <4>4. QED  BY <3>0, <4>2, <4>3
      <3>5. InFlight' \subseteq 1..Len(request')
        BY <2>0, <2>1, <2>3 DEF QueueOrder
      <3>6. ASSUME NEW n \in 1..Len(request')
            PROVE  request'[n] # Free <=>
                     (\E i \in 1..Len(queue') : queue'[i] = n) \/ n \in InFlight'
        <4> HIDE DEF Free
        <4>1. CASE n = Len(request) + 1
          <5>1. Len(queue) + 1 \in 1..Len(queue')  BY <2>0, <3>1
          <5>2. QED  BY <2>3, <3>1, <3>2, <4>1, <5>1
        <4>2. CASE n \in 1..Len(request)
          <5>1. n # Len(request) + 1  BY <2>0, <4>2
          <5>2. \A i \in 1..Len(queue) : i \in 1..Len(queue')  BY <2>0, <3>1
          <5>3. (\E i \in 1..Len(queue') : queue'[i] = n)
                  <=> (\E i \in 1..Len(queue) : queue[i] = n)
            BY <3>0, <3>1, <5>1, <5>2
          <5>4. QED  BY <2>1, <2>3, <4>2, <5>3 DEF QueueOrder
        <4>3. QED  BY <2>0, <2>3, <4>1, <4>2
      <3>7. QED  BY <3>3, <3>4, <3>5, <3>6 DEF QueueOrder
    <2>6. QED  BY <1>3, <2>4, <2>5
  <1>4. CASE Receive
    <2>1. /\ queue # <<>> /\ current' = Head(queue) /\ queue' = Tail(queue)
          /\ pc = "receive" /\ pc' = "ready" /\ request' = request
      BY <1>4 DEF Receive
    <2>2. /\ Len(queue) \in Nat /\ Len(queue) > 0 /\ Len(queue') = Len(queue) - 1
          /\ \A i \in 1..Len(queue') : queue'[i] = queue[i + 1]
          /\ current' = queue[1]
      BY <2>1 DEF QueueTypes
    <2>3. InFlight' = {current'} /\ InFlight = {}  BY <2>1 DEF InFlight
    <2>4. /\ \A i \in 1..Len(queue') : queue'[i] \in 1..made' /\ queue'[i] > current'
          /\ \A i, j \in 1..Len(queue') : i < j => queue'[i] < queue'[j]
          /\ InFlight' \subseteq 1..made'
      BY <2>1, <2>2, <2>3 DEF QueueOrder
    <2>5. ASSUME NEW r \in 1..made
          PROVE  (\E i \in 1..Len(queue) : queue[i] = r) <=>
                   (\E i \in 1..Len(queue') : queue'[i] = r) \/ r = current'
      <3>1. ASSUME NEW i \in 1..Len(queue), i # 1
            PROVE  i - 1 \in 1..Len(queue') /\ queue'[i - 1] = queue[i]
        BY <2>2, <3>1
      <3>2. ASSUME NEW i \in 1..Len(queue')
            PROVE  i + 1 \in 1..Len(queue) /\ queue'[i] = queue[i + 1]
        BY <2>2, <3>2
      <3>3. 1 \in 1..Len(queue)  BY <2>2
      <3>4. QED  BY <2>2, <3>1, <3>2, <3>3
    <2>6. QED
      BY <2>1, <2>3, <2>4, <2>5 DEF QueueOrder
  <1>5. CASE Ready \/ FollowUp
    <2>1. InFlight' = InFlight /\ current \in InFlight /\ UNCHANGED <<queue, current>>
      BY <1>5 DEF Ready, FollowUp, InFlight
    <2>2. current \in 1..Len(request) /\ request[current] # Free
      BY <2>1 DEF QueueOrder
    <2>3. request[current] \in Records  BY <2>2 DEF QueueTypes
    <2>4. /\ Len(request') = Len(request)
          /\ \A i \in 1..Len(request) : i # current => request'[i] = request[i]
      BY <1>5 DEF Ready, FollowUp, QueueTypes
    <2>5. request'[current] # Free
      <3>1. request'[current].component = request[current].component
        <4>1. CASE Ready  BY <2>2, <2>3, <4>1 DEF Ready, QueueTypes, Records
        <4>2. CASE FollowUp  BY <2>2, <2>3, <4>2 DEF FollowUp, QueueTypes, Records
        <4>3. QED  BY <1>5, <4>1, <4>2
      <3>2. QED  BY <2>3, <3>1 DEF Records, Free
    <2>6. QED
      BY <2>1, <2>2, <2>4, <2>5 DEF QueueOrder
  <1>6. CASE Done
    <2>1. /\ InFlight = {current} /\ InFlight' = {} /\ UNCHANGED <<queue, current>>
          /\ request' = [request EXCEPT ![current] = Free]
      BY <1>6 DEF Done, InFlight
    <2>2. current \in 1..Len(request)  BY <2>1 DEF QueueOrder
    <2>3. /\ Len(request') = Len(request) /\ request'[current] = Free
          /\ \A i \in 1..Len(request) : i # current => request'[i] = request[i]
      BY <2>1, <2>2 DEF QueueTypes
    <2>4. \A i \in 1..Len(queue) : queue[i] # current
      BY DEF QueueOrder, QueueTypes
    <2>5. QED
      BY <2>1, <2>2, <2>3, <2>4 DEF QueueOrder
  <1>7. CASE Poll \/ \E a \in {"failed", "ok", "link"} : Perform(a)
    BY <1>1, <1>7 DEF Poll, Perform, InFlight
  <1>8. CASE SkipDisabled \/ AbortUnknown \/ Network \/ Console \/ UNCHANGED vars
    BY <1>2, <1>8 DEF SkipDisabled, AbortUnknown, Network, Console, vars
  <1>9. CASE \/ \E c \in Components, list \in NotifyLists : Match(c, list)
             \/ \E a \in Settable, t \in Types \cup {"none"} : SetType(a, t)
             \/ \E a \in Settable, b \in BOOLEAN : SetDisabled(a, b)
    BY <1>2, <1>9 DEF Match, SetType, SetDisabled
  <1>10. QED
    BY <1>3, <1>4, <1>5, <1>6, <1>7, <1>8, <1>9 DEF Next, Callback, Consumer

\* What was sent stays; so do the requests, or one is new and not in hand.
LEMMA SentKept ==
  ASSUME QueueTypes, QueueOrder, SentOrder, UNCHANGED <<sent, current>>,
         pc' = pc \/ (pc = "poll" /\ pc' = "receive"),
         Len(request') >= Len(request), Len(request') \in Nat,
         \A r \in 1..Len(request) : request'[r] = request[r],
         \A r \in 1..Len(request') : r \notin 1..Len(request) /\ request'[r] # Free =>
           FollowsCall(request'[r]),
         \A i \in 1..Len(queue') : request'[queue'[i]].method = "POST"
  PROVE  SentOrder'
  <1>1. \A r \in 1..Len(request') : request'[r] # Free => FollowsCall(request'[r])
    BY DEF SentOrder, made
  <1>2. InFlight # {} => current \in 1..Len(request)
    BY DEF InFlight, QueueOrder, made
  <1>3. pc \in {"ready", "perform", "done"} => request'[current] = request[current]
    BY <1>2 DEF InFlight
  <1>4. SentOnceInOrder'  BY DEF SentOrder, SentOnceInOrder
  <1>5. \A n : SentBefore(n)' <=> SentBefore(n)  BY DEF SentBefore
  <1>6. /\ pc' \in {"poll", "receive"} => \A i \in 1..Len(sent') : sent'[i].id <= current'
        /\ pc' = "ready" => SentBefore(Len(sent))' /\ request'[current'].method = "POST"
    BY <1>3, <1>5 DEF SentOrder
  <1>7. pc' = "perform" =>
       IF request'[current'].method = "POST"
       THEN SentBefore(Len(sent))'
       ELSE /\ Len(sent') > 0 /\ SentBefore(Len(sent) - 1)'
            /\ sent'[Len(sent')].id = current'
            /\ sent'[Len(sent')].method = "POST" /\ sent'[Len(sent')].url = "Call"
    BY <1>3, <1>5 DEF SentOrder
  <1>8. pc' = "done" =>
       /\ Len(sent') > 0 /\ sent'[Len(sent')].id = current'
       /\ sent'[Len(sent')].method = request'[current'].method
       /\ sent'[Len(sent')].url = request'[current'].url
       /\ request'[current'].method = "POST" => SentBefore(Len(sent) - 1)'
       /\ \A i \in 1..Len(sent') : sent'[i].id <= current'
    BY <1>3, <1>5 DEF SentOrder
  <1>9. QED  BY <1>1, <1>4, <1>6, <1>7, <1>8 DEF SentOrder, made

LEMMA SentStep == QueueTypes /\ QueueOrder /\ SentOrder /\ [Next]_vars => SentOrder'
  <1> SUFFICES ASSUME QueueTypes, QueueOrder, SentOrder, [Next]_vars  PROVE SentOrder'
    OBVIOUS
  <1> USE DEF settings, callback, consumer, host
  <1>0. Len(request) \in Nat /\ Len(queue) \in Nat /\ Len(sent) \in Nat /\ current \in Nat
    BY DEF QueueTypes, made
  <1>10. \A i \in 1..Len(sent) : sent[i].id \in Nat
    <2>1. \A i \in 1..Len(sent) : sent[i] \in SentRecords
      BY ElementOfSeq, Zenon DEF QueueTypes
    <2>2. QED  BY <2>1 DEF SentRecords
  <1>1. ASSUME UNCHANGED <<request, queue, sent, current>>,
               pc' = pc \/ (pc = "poll" /\ pc' = "receive")
        PROVE  SentOrder'
    <2>1. \A i \in 1..Len(queue') : request'[queue'[i]].method = "POST"
      BY <1>1 DEF SentOrder
    <2>2. QED  BY <1>0, <1>1, <2>1, SentKept
  <1>2. CASE Enqueue
    <2>1. /\ UNCHANGED <<sent, current, pc>>
          /\ request' = Append(request, Made(Head(slots)))
          /\ queue' = Append(queue, Len(request) + 1)
      BY <1>2 DEF Enqueue, TryHead, made
    <2>2. /\ Made(Head(slots)).method = "POST"
          /\ FollowsCall(Made(Head(slots)))
      BY DEF Made, FollowsCall
    <2>3. /\ Len(request') = Len(request) + 1
          /\ \A i \in 1..Len(request) : request'[i] = request[i]
          /\ request'[Len(request) + 1] = Made(Head(slots))
      BY <2>1 DEF QueueTypes
    <2>4. /\ Len(queue') = Len(queue) + 1
          /\ \A i \in 1..Len(queue) : queue'[i] = queue[i]
          /\ queue'[Len(queue) + 1] = Len(request) + 1
      BY <2>1 DEF QueueTypes
    <2>5. ASSUME NEW i \in 1..Len(queue')  PROVE request'[queue'[i]].method = "POST"
      <3>1. CASE i = Len(queue) + 1  BY <2>2, <2>3, <2>4, <3>1
      <3>2. CASE i \in 1..Len(queue)
        <4>1. queue'[i] = queue[i] /\ queue[i] \in 1..Len(request)
          BY <2>4, <3>2 DEF QueueOrder, made
        <4>2. QED  BY <2>3, <3>2, <4>1 DEF SentOrder
      <3>3. QED  BY <1>0, <2>4, <3>1, <3>2
    <2>6. ASSUME NEW r \in 1..Len(request'), r \notin 1..Len(request)
          PROVE  FollowsCall(request'[r])
      <3>1. r = Len(request) + 1  BY <1>0, <2>3, <2>6
      <3>2. QED  BY <2>2, <2>3, <3>1
    <2>7. Len(request') >= Len(request) /\ Len(request') \in Nat  BY <1>0, <2>3
    <2>8. QED  BY <2>1, <2>3, <2>5, <2>6, <2>7, SentKept
  <1>3. CASE Drop
    <2>1. /\ UNCHANGED <<sent, current, pc, queue>>
          /\ request' = Append(request, Free)
      BY <1>3 DEF Drop, TryHead
    <2>2. /\ Len(request') = Len(request) + 1
          /\ \A i \in 1..Len(request) : request'[i] = request[i]
          /\ request'[Len(request) + 1] = Free
      BY <2>1 DEF QueueTypes
    <2>3. ASSUME NEW i \in 1..Len(queue')  PROVE request'[queue'[i]].method = "POST"
      <3>1. queue'[i] = queue[i] /\ queue[i] \in 1..Len(request)
        BY <2>1 DEF QueueOrder, made
      <3>2. QED  BY <2>1, <2>2, <3>1 DEF SentOrder
    <2>4. ASSUME NEW r \in 1..Len(request'), r \notin 1..Len(request)  PROVE request'[r] = Free
      <3>1. r = Len(request) + 1  BY <1>0, <2>2, <2>4
      <3>2. QED  BY <2>2, <3>1
    <2>5. Len(request') >= Len(request) /\ Len(request') \in Nat  BY <1>0, <2>2
    <2>6. QED  BY <2>1, <2>2, <2>3, <2>4, <2>5, SentKept
  <1>4. CASE Receive
    <2>1. /\ queue # <<>> /\ current' = Head(queue) /\ queue' = Tail(queue)
          /\ pc = "receive" /\ pc' = "ready" /\ request' = request /\ sent' = sent
      BY <1>4 DEF Receive
    <2>2. /\ Len(queue) > 0 /\ Len(queue') = Len(queue) - 1
          /\ \A i \in 1..Len(queue') : queue'[i] = queue[i + 1]
          /\ current' = queue[1]
      BY <2>1 DEF QueueTypes
    <2>3. /\ request[current'].method = "POST" /\ current' > current /\ current' \in Nat
      BY <1>0, <2>2 DEF SentOrder, QueueOrder, made
    <2>4. SentBefore(Len(sent))'
      <3> SUFFICES ASSUME NEW i \in 1..Len(sent)  PROVE sent[i].id < current'
        BY <2>1 DEF SentBefore
      <3>1. sent[i].id \in Nat  BY <1>10
      <3>2. sent[i].id <= current  BY <2>1 DEF SentOrder
      <3>3. QED  BY <1>0, <2>3, <3>1, <3>2
    <2>5. \A i \in 1..Len(queue') : request[queue'[i]].method = "POST"
      BY <1>0, <2>2 DEF SentOrder
    <2>6. SentOnceInOrder'  BY <2>1 DEF SentOrder, SentOnceInOrder
    <2>7. QED
      BY <2>1, <2>3, <2>4, <2>5, <2>6 DEF SentOrder, made
  <1>5. CASE Ready \/ FollowUp \/ Done
    <2>1. current \in 1..Len(request) /\ request[current] # Free
      BY <1>5 DEF Ready, FollowUp, Done, InFlight, QueueOrder, made
    <2>2. request[current] \in Records  BY <2>1 DEF QueueTypes
    <2>3. /\ UNCHANGED <<queue, current, sent>> /\ Len(request') = Len(request)
          /\ \A i \in 1..Len(request) : i # current => request'[i] = request[i]
      BY <1>5 DEF Ready, FollowUp, Done, QueueTypes
    <2>4. \A i \in 1..Len(queue') : request'[queue'[i]].method = "POST"
      <3> SUFFICES ASSUME NEW i \in 1..Len(queue)  PROVE request'[queue[i]].method = "POST"
        BY <2>3
      <3>1. queue[i] \in 1..Len(request) /\ queue[i] # current
        BY <1>0 DEF QueueOrder, made
      <3>2. QED  BY <2>3, <3>1 DEF SentOrder
    <2>5. SentOnceInOrder'  BY <2>3 DEF SentOrder, SentOnceInOrder
    <2>6. \A n : SentBefore(n)' <=> SentBefore(n)  BY <2>3 DEF SentBefore
    <2>7. ASSUME request'[current] = Free \/ FollowsCall(request'[current])
          PROVE  \A r \in 1..Len(request') : request'[r] # Free => FollowsCall(request'[r])
      BY <2>3, <2>7 DEF SentOrder, made
    <2>8. FollowsCall(request[current])  BY <2>1 DEF SentOrder, made
    <2>9. CASE Ready
      <3>1. /\ request'[current].method = request[current].method
            /\ request'[current].url = request[current].url
            /\ request'[current].next = request[current].next
            /\ pc = "ready" /\ pc' = "perform"
        BY <2>1, <2>2, <2>9 DEF Ready, QueueTypes, Records
      <3>2. FollowsCall(request'[current])  BY <2>8, <3>1 DEF FollowsCall
      <3>3. request'[current].method = "POST" /\ SentBefore(Len(sent))
        BY <3>1 DEF SentOrder
      <3>4. QED
        BY <2>3, <2>4, <2>5, <2>6, <2>7, <3>1, <3>2, <3>3 DEF SentOrder, made
    <2>10. CASE FollowUp
      <3>1. /\ request'[current].method = "GET"
            /\ request'[current].url = request[current].url
            /\ request'[current].next = "DONE" /\ request[current].next = "GET"
            /\ pc = "done" /\ pc' = "perform"
        BY <2>1, <2>2, <2>10 DEF FollowUp, QueueTypes, Records
      <3>2. request[current].method = "POST" /\ request[current].url = "Call"
        BY <2>8, <3>1 DEF FollowsCall
      <3>3. FollowsCall(request'[current])  BY <3>1, <3>2 DEF FollowsCall
      <3>4. /\ Len(sent) > 0 /\ SentBefore(Len(sent) - 1) /\ sent[Len(sent)].id = current
            /\ sent[Len(sent)].method = "POST" /\ sent[Len(sent)].url = "Call"
        BY <3>1, <3>2 DEF SentOrder
      <3>5. QED
        BY <2>3, <2>4, <2>5, <2>6, <2>7, <3>1, <3>3, <3>4 DEF SentOrder, made
    <2>11. CASE Done
      <3>1. request'[current] = Free /\ pc = "done" /\ pc' = "poll"
        BY <2>1, <2>11 DEF Done, QueueTypes
      <3>2. \A i \in 1..Len(sent) : sent[i].id <= current  BY <3>1 DEF SentOrder
      <3>3. QED
        BY <2>3, <2>4, <2>5, <2>7, <3>1, <3>2 DEF SentOrder, made
    <2>12. QED  BY <1>5, <2>9, <2>10, <2>11
  <1>6. ASSUME NEW a \in {"failed", "ok", "link"}, Perform(a)  PROVE SentOrder'
    <2> DEFINE n == Len(sent)
    <2>1. /\ pc = "perform" /\ pc' = "done" /\ UNCHANGED <<request, queue, current>>
          /\ sent' = Append(sent, [id |-> current, method |-> request[current].method,
                                   url |-> request[current].url,
                                   body |-> request[current].body])
      BY <1>6 DEF Perform
    <2>2. /\ Len(sent') = n + 1 /\ \A i \in 1..n : sent'[i] = sent[i]
          /\ sent'[n + 1].id = current /\ sent'[n + 1].method = request[current].method
          /\ sent'[n + 1].url = request[current].url
      BY <2>1 DEF QueueTypes
    <2>3. current \in 1..Len(request) /\ request[current] # Free
      BY <2>1 DEF InFlight, QueueOrder, made
    <2>4. request[current].method \in {"POST", "GET"}
      BY <2>3 DEF QueueTypes, Records
    <2>5. ASSUME NEW i \in 1..n
          PROVE  \/ sent[i].id < current
                 \/ /\ i = n /\ request[current].method = "GET" /\ sent[i].id = current
                    /\ sent[i].method = "POST" /\ sent[i].url = "Call"
      <3>1. CASE request[current].method = "POST"
        BY <2>1, <3>1 DEF SentOrder, SentBefore
      <3>2. CASE request[current].method = "GET"
        <4>1. i \in 1..(n - 1) \/ i = n  BY <1>0
        <4>2. QED  BY <2>1, <3>2, <4>1 DEF SentOrder, SentBefore
      <3>3. QED  BY <2>4, <3>1, <3>2
    <2>6. \A i \in 1..n : sent[i].id \in Nat  BY <1>10
    <2>7. SentOnceInOrder'
      <3> SUFFICES ASSUME NEW i \in 1..Len(sent'), NEW j \in 1..Len(sent'), i < j
                   PROVE  \/ sent'[i].id < sent'[j].id
                          \/ /\ sent'[i].id = sent'[j].id /\ j = i + 1
                             /\ sent'[i].method = "POST" /\ sent'[j].method = "GET"
                             /\ sent'[i].url = "Call"
        <4>1. DOMAIN sent' = 1..Len(sent')  BY <2>1 DEF QueueTypes
        <4>2. QED  BY <4>1 DEF SentOnceInOrder
      <3>1. i \in 1..n  BY <1>0, <2>2
      <3>2. CASE j = n + 1
        BY <2>2, <2>5, <3>1, <3>2
      <3>3. CASE j \in 1..n
        <4>1. DOMAIN sent = 1..n  BY DEF QueueTypes
        <4>2. QED  BY <2>2, <3>1, <3>3, <4>1 DEF SentOrder, SentOnceInOrder
      <3>4. QED  BY <1>0, <2>2, <3>2, <3>3
    <2>8. \A i \in 1..Len(sent') : sent'[i].id <= current
      <3> SUFFICES ASSUME NEW i \in 1..Len(sent')  PROVE sent'[i].id <= current
        OBVIOUS
      <3>1. CASE i \in 1..n  BY <1>0, <2>2, <2>5, <2>6, <3>1
      <3>2. CASE i = n + 1  BY <1>0, <2>2, <3>2
      <3>3. QED  BY <1>0, <2>2, <3>1, <3>2
    <2>9. request[current].method = "POST" => SentBefore(Len(sent) - 1)'
      <3> SUFFICES ASSUME request[current].method = "POST", NEW i \in 1..(Len(sent') - 1)
                   PROVE  sent'[i].id < current
        BY <2>1 DEF SentBefore
      <3>1. i \in 1..n  BY <1>0, <2>2
      <3>2. QED  BY <2>2, <2>5, <3>1
    <2>10. \A i \in 1..Len(queue) : request[queue[i]].method = "POST"  BY DEF SentOrder
    <2>11. \A r \in 1..Len(request) : request[r] # Free => FollowsCall(request[r])
      BY DEF SentOrder, made
    <2>12. Len(sent') > 0  BY <1>0, <2>2
    <2>13. QED
      BY <2>1, <2>2, <2>7, <2>8, <2>9, <2>10, <2>11, <2>12 DEF SentOrder, made
  <1>7. CASE SkipDisabled \/ AbortUnknown \/ Network \/ Console \/ Poll \/ UNCHANGED vars
    BY <1>1, <1>7 DEF SkipDisabled, AbortUnknown, Network, Console, Poll, vars
  <1>8. CASE \/ \E c \in Components, list \in NotifyLists : Match(c, list)
             \/ \E a \in Settable, t \in Types \cup {"none"} : SetType(a, t)
             \/ \E a \in Settable, b \in BOOLEAN : SetDisabled(a, b)
    BY <1>1, <1>8 DEF Match, SetType, SetDisabled
  <1>9. QED
    BY <1>2, <1>3, <1>4, <1>5, <1>6, <1>7, <1>8 DEF Next, Callback, Consumer

LEMMA QueueInvariant == Spec => []QueueInv
  <1>1. Init => QueueInv
    <2> SUFFICES ASSUME Init  PROVE QueueInv
      OBVIOUS
    <2>1. /\ type = InitialType /\ component = "twilio" /\ slots = <<>> /\ request = <<>>
          /\ queue = <<>> /\ pc = "poll" /\ current = 0 /\ sent = <<>>
      BY DEF Init
    <2>2. /\ \A S : <<>> \in Seq(S)
          /\ Len(<<>>) = 0 /\ 1..0 = {} /\ DOMAIN <<>> = {}
      BY EmptySeq
    <2>3. QueueTypes
      BY <2>1, <2>2, QueueAssumption DEF QueueTypes, QueueAssumption, made
    <2>4. InFlight = {}  BY <2>1 DEF InFlight
    <2>5. QueueOrder
      BY <2>1, <2>2, <2>4 DEF QueueOrder, made
    <2>6. SentOrder
      BY <2>1, <2>2 DEF SentOrder, SentOnceInOrder, made
    <2>7. QED  BY <2>3, <2>5, <2>6 DEF QueueInv
  <1>2. QueueInv /\ [Next]_vars => QueueInv'
    BY TypesStep, OrderStep, SentStep DEF QueueInv
  <1>3. QED  BY <1>1, <1>2, PTL DEF Spec

\* Every allocated request is in the queue or in the consumer's hands, in one of them
\* and once, and requests go out in the order they were made, each at most once, only
\* a call's followed by one GET; for any accounts, lists and length of the queue,
\* whatever the answers and the changes of the settings.
THEOREM RequestsHandledOnce == Spec => []RequestsAreHandledOnce
  <1>1. QueueInv => RequestsAreHandledOnce
    <2> SUFFICES ASSUME QueueInv  PROVE RequestsAreHandledOnce
      OBVIOUS
    <2>1. DOMAIN queue = 1..Len(queue) /\ Len(queue) \in Nat /\ current \in Nat
          /\ Len(request) \in Nat
      BY DEF QueueInv, QueueTypes, made
    <2>2. ToSet(queue) = {queue[i] : i \in 1..Len(queue)}  BY <2>1 DEF ToSet
    <2>3. {r \in 1..made : request[r] # Free} = ToSet(queue) \cup InFlight
      BY <2>2 DEF QueueInv, QueueOrder
    <2>4. ToSet(queue) \cap InFlight = {}
      <3>1. \A i \in 1..Len(queue) : queue[i] # current
        BY <2>1 DEF QueueInv, QueueOrder, made
      <3>2. QED  BY <2>2, <3>1 DEF InFlight
    <2>5. IsInjective(queue)
      <3>1. \A i \in 1..Len(queue) : queue[i] \in Nat
        BY DEF QueueInv, QueueTypes
      <3>2. ASSUME NEW i \in 1..Len(queue), NEW j \in 1..Len(queue), queue[i] = queue[j]
            PROVE  i = j
        BY <2>1, <3>1, <3>2 DEF QueueInv, QueueOrder
      <3>3. QED  BY <2>1, <3>2 DEF IsInjective
    <2>6. QED
      BY <2>3, <2>4, <2>5 DEF RequestsAreHandledOnce, RequestsAreOwnedOnce, QueueInv, SentOrder
  <1>2. QED  BY <1>1, QueueInvariant, PTL

HostTypes ==
  /\ disabled \in [Accounts -> BOOLEAN]
  /\ answer \in {"", "failed", "ok", "link"}
  /\ connected \in BOOLEAN /\ g_StopMainTask \in BOOLEAN

\* Type correctness: the queue never exceeds its length and holds requests made.
THEOREM QueueTypeCorrect == Spec => []TypeOK
  <1>1. Init => HostTypes  BY DEF Init, HostTypes
  <1>2. HostTypes /\ [Next]_vars => HostTypes'
    <2> SUFFICES ASSUME HostTypes, [Next]_vars  PROVE HostTypes'
      OBVIOUS
    <2> USE DEF HostTypes, settings, callback, consumer, host
    <2>1. ASSUME UNCHANGED <<disabled, answer, connected, g_StopMainTask>>  PROVE HostTypes'
      BY <2>1
    <2>2. ASSUME NEW a \in {"failed", "ok", "link"}, Perform(a)  PROVE HostTypes'
      BY <2>2, Zenon DEF Perform
    <2>3. ASSUME NEW a \in Settable, NEW b \in BOOLEAN, SetDisabled(a, b)  PROVE HostTypes'
      <3>1. [disabled EXCEPT ![a] = b] \in [Accounts -> BOOLEAN]  OBVIOUS
      <3>2. QED  BY <2>3, <3>1, Zenon DEF SetDisabled
    <2>4. CASE Network  BY <2>4, Zenon DEF Network
    <2>5. CASE Console  BY <2>5, Zenon DEF Console
    <2>6. ASSUME NEW a \in Settable, NEW t \in Types \cup {"none"}, SetType(a, t)
          PROVE  HostTypes'
      BY <2>1, <2>6, Zenon DEF SetType
    <2>7. ASSUME NEW c \in Components, NEW list \in NotifyLists, Match(c, list)
          PROVE  HostTypes'
      BY <2>1, <2>7, Zenon DEF Match
    <2>8. CASE Callback
      BY <2>1, <2>8, Zenon DEF Callback, SkipDisabled, AbortUnknown, Enqueue, Drop, TryHead
    <2>9. CASE Poll \/ Receive \/ Ready \/ FollowUp \/ Done
      BY <2>1, <2>9, Zenon DEF Poll, Receive, Ready, FollowUp, Done
    <2>10. CASE UNCHANGED vars  BY <2>1, <2>10, Zenon DEF vars
    <2>11. QED
      BY <2>2, <2>3, <2>4, <2>5, <2>6, <2>7, <2>8, <2>9, <2>10, Zenon DEF Next, Consumer
  <1>3. QueueInv /\ HostTypes => TypeOK
    <2> SUFFICES ASSUME QueueInv, HostTypes  PROVE TypeOK
      OBVIOUS
    <2>1. DOMAIN queue = 1..Len(queue)  BY DEF QueueInv, QueueTypes
    <2>2. \A i \in DOMAIN queue : queue[i] \in 1..made
      BY <2>1 DEF QueueInv, QueueOrder
    <2>3. QED  BY <2>2, Zenon DEF QueueInv, QueueTypes, HostTypes, TypeOK
  <1>4. QED  BY <1>1, <1>2, <1>3, QueueInvariant, PTL DEF Spec
================================================================================
