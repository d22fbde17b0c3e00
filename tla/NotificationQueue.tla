--------------------------- MODULE NotificationQueue ---------------------------
(***************************************************************************)
(* How a match of a virtual switch becomes HTTP requests.  The callbacks   *)
(* of the twilio and pushover components, run by the parser's task, make   *)
(* one request per account on the switch's notify list and put it into the *)
(* sendQ, a bounded FreeRTOS queue.  The sendQ task takes the requests one *)
(* by one, lets the component complete each (ready), performs it and hands *)
(* it back (done), which frees it or asks for another round.  Settings can *)
(* change at any time: the command line runs in tasks of its own.          *)
(*                                                                         *)
(* External: FreeRTOS queue, esp_http_client (a request ends, with or      *)
(* without success) and the service's answers.                             *)
(***************************************************************************)
EXTENDS Naturals, Sequences, SequencesExt

CONSTANTS
  Accounts,             \* account storage locations with settings
  NotifyLists,          \* the notify settings of the switches: sequences of numbers
  Components,           \* subset of {"twilio", "pushover"}
  Settable,             \* accounts whose settings the command line changes
  InitialType,          \* InitialType[a]: the type configured for account a
  HTTP_SEND_QUEUE_SIZE,
  MaxRequests           \* bound on the number of requests made

Types == {"Call", "Message", "Email"}

ASSUME QueueAssumption ==
  /\ Accounts \subseteq 0..255
  /\ NotifyLists \subseteq Seq(Nat)
  /\ Components \subseteq {"twilio", "pushover"}
  /\ Settable \subseteq Accounts
  /\ InitialType \in [Accounts -> Types \cup {"none"}]
  /\ HTTP_SEND_QUEUE_SIZE \in Nat \ {0}
  /\ MaxRequests \in Nat

VARIABLES
  type, disabled,     \* twilio settings of the accounts
  component, slots,   \* the callback running and the accounts it has left
  request,            \* request[r]: the message object, while allocated
  queue,              \* _http_sendQ: requests
  pc, current,        \* the consumer's place and its request
  answer,             \* what perform returned: "", "failed", "ok", "link"
  connected,          \* hal_get_network_connected()
  g_StopMainTask,     \* the console has stopped the tasks
  sent                \* what was sent so far

settings == <<type, disabled>>
callback == <<component, slots>>
consumer == <<pc, current, answer>>
host     == <<connected, g_StopMainTask>>
vars == <<settings, callback, request, queue, consumer, host, sent>>

made == Len(request)
Free == [component |-> "none"]

Init ==
  /\ type = InitialType
  /\ disabled = [a \in Accounts |-> FALSE]
  /\ component = "twilio"
  /\ slots = <<>>
  /\ request = <<>>
  /\ queue = <<>>
  /\ pc = "poll"
  /\ current = 0
  /\ answer = ""
  /\ connected = FALSE
  /\ g_StopMainTask = FALSE
  /\ sent = <<>>

--------------------------------------------------------------------------------
(* The callbacks. *)

\* twilio_init, pushover_init: each number is kept as a uint8_t and pushed to the
\* front of the list.
Slots(list) == [i \in DOMAIN list |-> Reverse(list)[i] % 256]

\* on_search_match_cb_tw, on_search_match_cb_pushover.
Match(c, list) ==
  /\ slots = <<>>
  /\ made + Len(list) <= MaxRequests
  /\ component' = c
  /\ slots' = Slots(list)
  /\ UNCHANGED <<settings, request, queue, consumer, host, sent>>

\* An account without settings has no type.
TypeOf(a)   == IF a \in Accounts THEN type[a] ELSE "none"
Disabled(a) == a \in Accounts /\ disabled[a]

SkipDisabled ==
  /\ slots # <<>> /\ component = "twilio" /\ Disabled(Head(slots))
  /\ slots' = Tail(slots)
  /\ UNCHANGED <<settings, component, request, queue, consumer,
                 host, sent>>

\* The request made is deleted again and the callback ends.
AbortUnknown ==
  /\ slots # <<>> /\ component = "twilio" /\ ~Disabled(Head(slots))
  /\ TypeOf(Head(slots)) = "none"
  /\ slots' = <<>>
  /\ UNCHANGED <<settings, component, request, queue, consumer,
                 host, sent>>

\* The request for account a: where it goes is settled here, what it says when
\* it is sent.
Made(a) ==
  IF component = "pushover"
  THEN [component |-> component, account |-> a, url |-> "Pushover", next |-> "DONE",
        body |-> "none", method |-> "POST"]
  ELSE [component |-> component, account |-> a, url |-> TypeOf(a),
        next |-> IF TypeOf(a) = "Call" THEN "GET" ELSE "DONE",
        body |-> "none", method |-> "POST"]

Sendable ==
  /\ slots # <<>>
  /\ component = "twilio" => ~Disabled(Head(slots)) /\ TypeOf(Head(slots)) # "none"

TryHead ==
  /\ Sendable
  /\ slots' = Tail(slots)
  /\ UNCHANGED <<settings, component, consumer, host, sent>>

Enqueue ==
  /\ TryHead
  /\ Len(queue) < HTTP_SEND_QUEUE_SIZE
  /\ request' = Append(request, Made(Head(slots)))
  /\ queue' = Append(queue, made + 1)

\* Mutant: a request that finds the queue full is forgotten, not deleted.
DropLeaks ==
  /\ TryHead
  /\ Len(queue) = HTTP_SEND_QUEUE_SIZE
  /\ request' = Append(request, Made(Head(slots)))
  /\ UNCHANGED queue

\* The queue is full: xQueueSend does not wait, the request is deleted.
Drop ==
  /\ TryHead
  /\ Len(queue) = HTTP_SEND_QUEUE_SIZE
  /\ request' = Append(request, Free)
  /\ UNCHANGED queue

--------------------------------------------------------------------------------
(* _http_sendQ_consumer_task *)

\* Mutant: the test for the network is inverted.
PollWhileDown ==
  /\ pc = "poll"
  /\ ~connected \/ g_StopMainTask
  /\ pc' = "receive"
  /\ UNCHANGED <<settings, callback, request, queue, current, answer, host, sent>>

\* The network is tested before the wait for a request, not after it.
Poll ==
  /\ pc = "poll"
  /\ connected /\ ~g_StopMainTask
  /\ pc' = "receive"
  /\ UNCHANGED <<settings, callback, request, queue, current, answer, host, sent>>

Receive ==
  /\ pc = "receive"
  /\ queue # <<>>
  /\ current' = Head(queue)
  /\ queue' = Tail(queue)
  /\ pc' = "ready"
  /\ UNCHANGED <<settings, callback, request, answer, host, sent>>

\* _sendQ_ready_handler: the settings of the account are read again.
Ready ==
  /\ pc = "ready"
  /\ request' = [request EXCEPT ![current].body =
       IF request[current].component = "pushover" THEN "Pushover"
       ELSE TypeOf(request[current].account)]
  /\ pc' = "perform"
  /\ UNCHANGED <<settings, callback, queue, current, answer, host, sent>>

\* A success may have a link to the notifications of a call.
Perform(a) ==
  /\ pc = "perform"
  /\ a # "failed" => connected
  /\ answer' = a
  /\ sent' = Append(sent, [id |-> current, method |-> request[current].method,
                           url |-> request[current].url, body |-> request[current].body])
  /\ pc' = "done"
  /\ UNCHANGED <<settings, callback, request, queue, current, host>>

\* _sendQ_done_handler asks for one more round.
FollowUp ==
  /\ pc = "done"
  /\ answer = "link" /\ request[current].next = "GET"
  /\ request' = [request EXCEPT ![current].next = "DONE", ![current].method = "GET"]
  /\ pc' = "perform"
  /\ UNCHANGED <<settings, callback, queue, current, answer, host, sent>>

\* A request is over, whether it was delivered or not.
Done ==
  /\ pc = "done"
  /\ ~(answer = "link" /\ request[current].next = "GET")
  /\ request' = [request EXCEPT ![current] = Free]
  /\ pc' = "poll"
  /\ UNCHANGED <<settings, callback, queue, current, answer, host, sent>>

--------------------------------------------------------------------------------

\* The command line.
SetType(a, t) ==
  /\ type' = [type EXCEPT ![a] = t]
  /\ UNCHANGED <<disabled, callback, request, queue, consumer, host, sent>>

SetDisabled(a, b) ==
  /\ disabled' = [disabled EXCEPT ![a] = b]
  /\ UNCHANGED <<type, callback, request, queue, consumer, host, sent>>

Network ==
  /\ connected' = ~connected
  /\ UNCHANGED <<settings, callback, request, queue, consumer, g_StopMainTask, sent>>

Console ==
  /\ g_StopMainTask' = ~g_StopMainTask
  /\ UNCHANGED <<settings, callback, request, queue, consumer, connected, sent>>

Callback == SkipDisabled \/ AbortUnknown \/ Enqueue \/ Drop

Consumer ==
  \/ Poll
  \/ Receive
  \/ Ready
  \/ \E a \in {"failed", "ok", "link"} : Perform(a)
  \/ FollowUp
  \/ Done

Next ==
  \/ \E c \in Components, list \in NotifyLists : Match(c, list)
  \/ Callback
  \/ Consumer
  \/ \E a \in Settable, t \in Types \cup {"none"} : SetType(a, t)
  \/ \E a \in Settable, b \in BOOLEAN : SetDisabled(a, b)
  \/ Network
  \/ Console

Spec == Init /\ [][Next]_vars

\* Both tasks are scheduled; the consumer tests the network every 100 ms.
FairSpec == Spec /\ WF_vars(Callback) /\ WF_vars(Consumer)

--------------------------------------------------------------------------------
(* Properties. *)

\* Every variable has its type, and the queue its limit.
TypeOK ==
  /\ type \in [Accounts -> Types \cup {"none"}]
  /\ disabled \in [Accounts -> BOOLEAN]
  /\ component \in {"twilio", "pushover"}
  /\ slots \in Seq(0..255)
  /\ \A i \in DOMAIN queue : queue[i] \in 1..made
  /\ Len(queue) <= HTTP_SEND_QUEUE_SIZE
  /\ pc \in {"poll", "receive", "ready", "perform", "done"}
  /\ current \in 0..made
  /\ answer \in {"", "failed", "ok", "link"}
  /\ connected \in BOOLEAN
  /\ g_StopMainTask \in BOOLEAN

InFlight == IF pc \in {"ready", "perform", "done"} THEN {current} ELSE {}

\* An allocated request is in the queue or in the consumer's hands, in one of
\* them and once: none leaks when the queue is full or a request fails, none is
\* deleted by both tasks, none is used after it was deleted.
RequestsAreOwnedOnce ==
  /\ {r \in 1..made : request[r] # Free} = ToSet(queue) \cup InFlight
  /\ ToSet(queue) \cap InFlight = {}
  /\ IsInjective(queue)

\* Whatever fails in between, requests go out in the order in which the matches
\* made them, each at most once, and only a call is followed up, by one GET.
SentOnceInOrder ==
  \A i, j \in DOMAIN sent :
    i < j => \/ sent[i].id < sent[j].id
             \/ /\ sent[i].id = sent[j].id /\ j = i + 1
                /\ sent[i].method = "POST" /\ sent[j].method = "GET"
                /\ sent[i].url = "Call"

\* Once the network stays up no request stays in the queue, whatever the answers.
RequestsAreServed ==
  <>[](connected /\ ~g_StopMainTask) =>
    \A r \in 1..MaxRequests :
      [](r <= made /\ request[r] # Free => <>(r <= made /\ request[r] = Free))

\* A request is never lost, never deleted twice and never overtaken.
RequestsAreHandledOnce == RequestsAreOwnedOnce /\ SentOnceInOrder
================================================================================
