------------------------- MODULE VirtualSwitchesProofs -------------------------
(***************************************************************************)
(* Proofs about VirtualSwitches for every set of switches, whatever their  *)
(* expressions match, and every stream of messages.                        *)
(***************************************************************************)
EXTENDS VirtualSwitches, SequenceTheorems, TLAPS

Announcements == [type : Types, text : Texts]

\* Announcements of events.
Events == [type : {"EVENT"}, text : Texts]

LEMMA RegisteredAreSearches == Registered \subseteq Searches
  BY DEF Registered

\* A search ends in a state.
LEMMA FoundType ==
  ASSUME TypeOK, NEW s \in Registered, NEW a
  PROVE  /\ Base(s) \in States
         /\ Found(s, a) \in States
  <1>1. Config[s].default \in States /\ state[s] \in States
    BY SwitchAssumption, RegisteredAreSearches DEF TypeOK
  <1>2. Base(s) \in States
    BY <1>1 DEF Base
  <1>3. CASE Hits(s, a)
    <2>1. a.text \in Config[s].open \cup Config[s].close \cup Config[s].trouble
      BY <1>3 DEF Hits
    <2>2. Found(s, a) \in {"CLOSED", "OPEN", "TROUBLE"}
      BY <1>3, <2>1 DEF Found
    <2>3. QED
      BY <1>2, <2>2 DEF States
  <1>4. CASE ~Hits(s, a)
    <2>1. Found(s, a) = Base(s)
      BY <1>4 DEF Found
    <2>2. QED
      BY <1>2, <2>1
  <1>5. QED
    BY <1>3, <1>4

LEMMA TextsType ==
  /\ Displays \subseteq Texts
  /\ \A k \in StatusKinds, b \in BOOLEAN : EventText(k, b) \in Texts
  /\ \A m \in Messages : m.raw \in Texts /\ m.text \in Texts /\ m.events \in Seq(Texts)
  BY EventsAssumption DEF Texts, TextsOf

LEMMA RangeAppend ==
  ASSUME NEW S, NEW s \in Seq(S), NEW a
  PROVE  Range(Append(s, a)) = Range(s) \cup {a}
  <1>1. DOMAIN s = 1..Len(s) /\ DOMAIN Append(s, a) = 1..Len(s) + 1 /\ Len(s) \in Nat
    OBVIOUS
  <1>2. Append(s, a)[Len(s) + 1] = a /\ \A i \in 1..Len(s) : Append(s, a)[i] = s[i]
    OBVIOUS
  <1>3. QED
    BY <1>1, <1>2 DEF Range

LEMMA EventsOfType ==
  ASSUME NEW texts \in Seq(Texts)
  PROVE  /\ EventsOf(texts) \in Seq(Events)
         /\ Len(EventsOf(texts)) = Len(texts)
         /\ \A i \in 1..Len(texts) : EventsOf(texts)[i] = Announce("EVENT", texts[i])
  <1>1. DOMAIN texts = 1..Len(texts) /\ Len(texts) \in Nat
    OBVIOUS
  <1>2. \A i \in 1..Len(texts) : Announce("EVENT", texts[i]) \in Events
    BY DEF Events, Announce
  <1>3. EventsOf(texts) \in [1..Len(texts) -> Events]
    BY <1>1, <1>2 DEF EventsOf
  <1>4. EventsOf(texts) \in Seq(Events) /\ Len(EventsOf(texts)) = Len(texts)
    BY <1>1, <1>3
  <1>5. QED
    BY <1>1, <1>4 DEF EventsOf

\* The status events of a message are those of the statuses that are announced.
StatusEventOf(status, k) == Announce("EVENT", EventText(k, status[k]))

LEMMA StatusEventsAre ==
  ASSUME NEW p \in Partitions, NEW status \in [StatusKinds -> BOOLEAN], NEW armBits \in BOOLEAN
  PROVE  /\ StatusEvents(p, status, armBits) \in Seq(Events)
         /\ Range(StatusEvents(p, status, armBits)) =
              {StatusEventOf(status, k) : k \in {j \in Statuses : Announced(p, status, armBits, j)}}
  <1> DEFINE Of(k) == StatusEvent(p, status, armBits, k)
             Are(K) == {StatusEventOf(status, k) : k \in {j \in K : Announced(p, status, armBits, j)}}
  <1>1. ASSUME NEW k
        PROVE  Of(k) \in Seq(Events) /\ Range(Of(k)) = Are({k})
    <2>1. CASE Announced(p, status, armBits, k)
      <3>1. StatusEventOf(status, k) \in Events
        BY <2>1, TextsType DEF StatusEventOf, Events, Announce, Announced
      <3>2. Of(k) = <<StatusEventOf(status, k)>>
        BY <2>1 DEF StatusEvent, StatusEventOf
      <3>3. Range(Of(k)) = {StatusEventOf(status, k)}
        BY <3>2 DEF Range
      <3>4. Are({k}) = {StatusEventOf(status, k)}
        BY <2>1
      <3>5. QED
        BY <3>1, <3>2, <3>3, <3>4
    <2>2. CASE ~Announced(p, status, armBits, k)
      <3>1. Of(k) = <<>>
        BY <2>2 DEF StatusEvent
      <3>2. Range(Of(k)) = {} /\ Are({k}) = {}
        BY <2>2, <3>1 DEF Range
      <3>3. QED
        BY <3>1, <3>2
    <2>3. QED
      BY <2>1, <2>2
  <1>2. ASSUME NEW K, NEW s \in Seq(Events), Range(s) = Are(K), NEW k
        PROVE  s \o Of(k) \in Seq(Events) /\ Range(s \o Of(k)) = Are(K \cup {k})
    <2>1. Range(s \o Of(k)) = Range(s) \cup Range(Of(k))
      <3> HIDE DEF Of
      <3>1. QED
        BY <1>1, RangeConcatenation
    <2>2. Are(K \cup {k}) = Are(K) \cup Are({k})
      OBVIOUS
    <2>3. s \o Of(k) \in Seq(Events)
      <3> HIDE DEF Of
      <3>1. QED
        BY <1>1, ConcatProperties
    <2>4. QED
      BY <1>1, <1>2, <2>1, <2>2, <2>3
  <1> DEFINE S2 == Of("FIRE") \o Of("READY")
             S3 == S2 \o Of("ZONE")
             S4 == S3 \o Of("ARM")
             S5 == S4 \o Of("CHIME")
             S6 == S5 \o Of("PROG. MODE")
             S7 == S6 \o Of("POWER")
             S8 == S7 \o Of("ALARM")
             S9 == S8 \o Of("EXIT")
  <1>3. StatusEvents(p, status, armBits) = S9
    BY DEF StatusEvents
  <1> HIDE DEF Of, Are
  <1>4. S2 \in Seq(Events) /\ Range(S2) = Are({"FIRE"} \cup {"READY"})
    BY <1>1, <1>2
  <1> HIDE DEF S2
  <1>5. S3 \in Seq(Events) /\ Range(S3) = Are({"FIRE", "READY"} \cup {"ZONE"})
    <2>1. {"FIRE"} \cup {"READY"} = {"FIRE", "READY"}
      OBVIOUS
    <2>2. QED
      BY <1>2, <1>4, <2>1
  <1> HIDE DEF S3
  <1>6. S4 \in Seq(Events) /\ Range(S4) = Are({"FIRE", "READY", "ZONE"} \cup {"ARM"})
    <2>1. {"FIRE", "READY"} \cup {"ZONE"} = {"FIRE", "READY", "ZONE"}
      OBVIOUS
    <2>2. QED
      BY <1>2, <1>5, <2>1
  <1> HIDE DEF S4
  <1>7. S5 \in Seq(Events) /\ Range(S5) = Are({"FIRE", "READY", "ZONE", "ARM"} \cup {"CHIME"})
    <2>1. {"FIRE", "READY", "ZONE"} \cup {"ARM"} = {"FIRE", "READY", "ZONE", "ARM"}
      OBVIOUS
    <2>2. QED
      BY <1>2, <1>6, <2>1
  <1> HIDE DEF S5
  <1>8. /\ S6 \in Seq(Events)
        /\ Range(S6) = Are({"FIRE", "READY", "ZONE", "ARM", "CHIME"} \cup {"PROG. MODE"})
    <2>1. {"FIRE", "READY", "ZONE", "ARM"} \cup {"CHIME"} = {"FIRE", "READY", "ZONE", "ARM", "CHIME"}
      OBVIOUS
    <2>2. QED
      BY <1>2, <1>7, <2>1
  <1> HIDE DEF S6
  <1> DEFINE K6 == {"FIRE", "READY", "ZONE", "ARM", "CHIME", "PROG. MODE"}
  <1>9. S7 \in Seq(Events) /\ Range(S7) = Are(K6 \cup {"POWER"})
    <2>1. {"FIRE", "READY", "ZONE", "ARM", "CHIME"} \cup {"PROG. MODE"} = K6
      OBVIOUS
    <2>2. QED
      BY <1>2, <1>8, <2>1
  <1> HIDE DEF S7
  <1>10. S8 \in Seq(Events) /\ Range(S8) = Are((K6 \cup {"POWER"}) \cup {"ALARM"})
    BY <1>2, <1>9
  <1> HIDE DEF S8
  <1>11. S9 \in Seq(Events) /\ Range(S9) = Are(((K6 \cup {"POWER"}) \cup {"ALARM"}) \cup {"EXIT"})
    BY <1>2, <1>10
  <1>12. ((K6 \cup {"POWER"}) \cup {"ALARM"}) \cup {"EXIT"} = Statuses
    BY DEF Statuses
  <1>13. QED
    BY <1>3, <1>11, <1>12 DEF Are

\* What put() announces for a message: events, then the message itself.
EventsThenMessage(seq) ==
  \E s \in Seq(Events), a \in Announcements : a.type # "EVENT" /\ seq = Append(s, a)

LEMMA EventsThenMessageType ==
  ASSUME NEW seq, EventsThenMessage(seq)
  PROVE  /\ seq \in Seq(Announcements)
         /\ seq # <<>>
         /\ \A i \in 1..Len(seq) - 1 : seq[i].type = "EVENT"
  <1>1. PICK s \in Seq(Events), a \in Announcements : seq = Append(s, a)
    BY DEF EventsThenMessage
  <1>2. Events \subseteq Announcements
    BY DEF Events, Announcements, Types
  <1>3. s \in Seq(Announcements)
    BY <1>1, <1>2
  <1>4. \A i \in 1..Len(s) : seq[i] \in Events
    BY <1>1
  <1>5. QED
    BY <1>1, <1>3, <1>4 DEF Events

\* A message that is no keypad message announces its texts.
LEMMA MessageAnnounces ==
  ASSUME NEW m \in Messages
  PROVE  /\ EventsThenMessage(MessageAnnouncements(m))
         /\ \A a \in Range(MessageAnnouncements(m)) : a.text \in TextsOf(m)
  <1>1. m.type \in Types \ {"ALPHA", "EVENT"} /\ "UNKNOWN" \in Types
    BY SwitchAssumption DEF Types
  <1>2. /\ m.raw \in Texts /\ m.text \in Texts /\ m.events \in Seq(Texts)
    BY TextsType
  <1>3. ASSUME NEW texts \in Seq(Texts), \A i \in 1..Len(texts) : texts[i] \in TextsOf(m),
               NEW type \in Types \ {"EVENT"},
               MessageAnnouncements(m) = EventsOf(texts) \o <<Announce(type, m.text)>>
        PROVE  /\ EventsThenMessage(MessageAnnouncements(m))
               /\ \A a \in Range(MessageAnnouncements(m)) : a.text \in TextsOf(m)
    <2> DEFINE s == EventsOf(texts)
               a == Announce(type, m.text)
    <2>1. /\ s \in Seq(Events) /\ Len(s) = Len(texts)
          /\ \A i \in 1..Len(texts) : s[i].text = texts[i]
      <3>1. \A i \in 1..Len(texts) : s[i] = Announce("EVENT", texts[i])
        BY EventsOfType
      <3>2. \A t : Announce("EVENT", t).text = t
        BY DEF Announce
      <3>3. s \in Seq(Events) /\ Len(s) = Len(texts)
        BY EventsOfType
      <3> HIDE DEF s
      <3>4. QED
        BY <3>1, <3>2, <3>3
    <2>2. a \in Announcements /\ a.type # "EVENT" /\ a.text \in TextsOf(m)
      BY <1>2, <1>3 DEF Announcements, Announce, TextsOf
    <2> HIDE DEF s, a
    <2>3. s \o <<a>> = Append(s, a)
      BY <2>1
    <2>4. EventsThenMessage(s \o <<a>>)
      BY <2>1, <2>2, <2>3 DEF EventsThenMessage
    <2>5. \A e \in Range(s \o <<a>>) : e.text \in TextsOf(m)
      <3>1. \A i \in 1..Len(s) + 1 : Append(s, a)[i].text \in TextsOf(m)
        BY <1>3, <2>1, <2>2
      <3>2. DOMAIN Append(s, a) = 1..Len(s) + 1
        BY <2>1
      <3>3. QED
        BY <2>3, <3>1, <3>2 DEF Range
    <2>6. QED
      BY <1>3, <2>4, <2>5 DEF s, a
  <1>4. CASE IsRepeat(m) \/ m.type = "UNKNOWN"
    <2>1. MessageAnnouncements(m) = EventsOf(<<m.raw>>) \o <<Announce("UNKNOWN", m.text)>>
      BY <1>4 DEF MessageAnnouncements
    <2> DEFINE texts == <<m.raw>>
    <2>2. texts \in Seq(Texts)
      BY <1>2
    <2>3. \A i \in 1..Len(texts) : texts[i] \in TextsOf(m)
      BY DEF TextsOf
    <2>4. "UNKNOWN" \in Types \ {"EVENT"}
      BY <1>1
    <2> HIDE DEF texts
    <2>5. MessageAnnouncements(m) = EventsOf(texts) \o <<Announce("UNKNOWN", m.text)>>
      BY <2>1 DEF texts
    <2>6. QED
      BY <1>3, <2>2, <2>3, <2>4, <2>5
  <1>5. CASE ~(IsRepeat(m) \/ m.type = "UNKNOWN")
    <2> DEFINE texts == <<m.raw, m.text>> \o m.events
    <2>1. MessageAnnouncements(m) = EventsOf(texts) \o <<Announce(m.type, m.text)>>
      BY <1>5 DEF MessageAnnouncements
    <2>2. texts \in Seq(Texts)
      BY <1>2
    <2>3. \A i \in 1..Len(texts) : texts[i] \in TextsOf(m)
      BY <1>2 DEF TextsOf
    <2> HIDE DEF texts
    <2>4. QED
      BY <1>1, <1>3, <2>1, <2>2, <2>3
  <1>6. QED
    BY <1>4, <1>5

\* A keypad message announces its text and the status events.
LEMMA AlphaAnnounces ==
  ASSUME NEW p \in Partitions, NEW text \in Displays,
         NEW status \in [StatusKinds -> BOOLEAN], NEW armBits \in BOOLEAN
  PROVE  /\ EventsThenMessage(AlphaAnnouncements(p, text, status, armBits))
         /\ Range(AlphaAnnouncements(p, text, status, armBits)) =
              {Announce("EVENT", text), Announce("ALPHA", text)}
                \cup Range(StatusEvents(p, status, armBits))
  <1> DEFINE s1 == EventsOf(<<text, text>>)
             s2 == StatusEvents(p, status, armBits)
             a  == Announce("ALPHA", text)
  <1>1. AlphaAnnouncements(p, text, status, armBits) = s1 \o s2 \o <<a>>
    BY DEF AlphaAnnouncements
  <1>2. text \in Texts
    BY TextsType
  <1>3. s1 \in Seq(Events) /\ Range(s1) = {Announce("EVENT", text)}
    <2>1. <<text, text>> \in Seq(Texts) /\ Len(<<text, text>>) = 2
      BY <1>2
    <2>2. s1 \in Seq(Events) /\ Len(s1) = 2 /\ s1[1] = Announce("EVENT", text)
          /\ s1[2] = Announce("EVENT", text)
      <3> DEFINE texts == <<text, text>>
      <3>1. texts[1] = text /\ texts[2] = text /\ texts \in Seq(Texts) /\ Len(texts) = 2
        BY <2>1
      <3> HIDE DEF texts
      <3>2. EventsOf(texts)[1] = Announce("EVENT", texts[1])
        BY <3>1, EventsOfType
      <3>3. EventsOf(texts)[2] = Announce("EVENT", texts[2])
        BY <3>1, EventsOfType
      <3>4. EventsOf(texts) \in Seq(Events) /\ Len(EventsOf(texts)) = 2
        BY <3>1, EventsOfType
      <3>5. QED
        BY <3>1, <3>2, <3>3, <3>4 DEF texts
    <2> HIDE DEF s1
    <2>3. DOMAIN s1 = 1..2
      BY <2>2
    <2>4. QED
      BY <2>2, <2>3 DEF Range
  <1>4. s2 \in Seq(Events)
    BY StatusEventsAre
  <1>5. a \in Announcements /\ a.type = "ALPHA"
    BY <1>2 DEF Announcements, Announce, Types
  <1> HIDE DEF s1, s2, a
  <1>6. s1 \o s2 \in Seq(Events) /\ s1 \o s2 \in Seq(Announcements)
    <2>1. Events \subseteq Announcements
      BY DEF Events, Announcements, Types
    <2>2. s1 \o s2 \in Seq(Events)
      BY <1>3, <1>4
    <2>3. QED
      BY <2>1, <2>2
  <1>7. Range(s1 \o s2) = Range(s1) \cup Range(s2)
    BY <1>3, <1>4, RangeConcatenation
  <1>8. (s1 \o s2) \o <<a>> = Append(s1 \o s2, a)
    BY <1>5, <1>6, AppendIsConcat
  <1>9. Range(Append(s1 \o s2, a)) = Range(s1 \o s2) \cup {a}
    BY <1>6, RangeAppend
  <1>10. QED
    BY <1>1, <1>3, <1>5, <1>6, <1>7, <1>8, <1>9 DEF EventsThenMessage, a, s2

LEMMA TypeInit == Init => TypeOK
  <1> SUFFICES ASSUME Init PROVE TypeOK
    OBVIOUS
  <1>1. state \in [Registered -> States] /\ told \in [Registered -> States]
    BY SwitchAssumption, RegisteredAreSearches DEF Init
  <1>2. QED
    BY <1>1 DEF Init, TypeOK

LEMMA TypeStep ==
  ASSUME TypeOK, [Next]_vars
  PROVE  TypeOK'
  <1>1. CASE Search
    <2>1. PICK a : /\ state' = [s \in Registered |-> Found(s, a)]
                   /\ told' = [s \in Registered |->
                                 IF CallsBack(s, a) THEN Found(s, a) ELSE told[s]]
                   /\ calls' = [s \in Registered |->
                                  calls[s] + (IF CallsBack(s, a) THEN 1 ELSE 0)]
      BY <1>1 DEF Search
    <2>2. state' \in [Registered -> States] /\ told' \in [Registered -> States]
      BY <2>1, FoundType DEF TypeOK
    <2>3. calls' \in [Registered -> Nat]
      BY <2>1 DEF TypeOK
    <2>4. pending' \in Seq(Announcements)
      BY <1>1 DEF Search, TypeOK, Announcements
    <2>5. QED
      BY <1>1, <2>2, <2>3, <2>4 DEF Search, TypeOK, Announcements
  <1>2. ASSUME NEW m \in Messages, Message(m) PROVE TypeOK'
    <2>1. pending' \in Seq(Announcements)
      BY <1>2, MessageAnnounces, EventsThenMessageType DEF Message, Start
    <2>2. saved' \in [{"VER", "CFG"} -> Texts \cup {NoText}]
      BY <1>2, TextsType DEF Message, TypeOK
    <2>3. QED
      BY <1>2, <2>1, <2>2 DEF Message, Start, TypeOK, Announcements
  <1>3. ASSUME NEW p \in Partitions, NEW text \in Displays,
               NEW status \in [StatusKinds -> BOOLEAN], NEW armBits \in BOOLEAN,
               Alpha(p, text, status, armBits)
        PROVE  TypeOK'
    <2>1. pending' \in Seq(Announcements)
      BY <1>3, AlphaAnnounces, EventsThenMessageType DEF Alpha, Start
    <2>2. QED
      BY <1>3, <2>1 DEF Alpha, Start, TypeOK, Announcements
  <1>4. CASE UNCHANGED vars
    BY <1>4 DEF vars, TypeOK
  <1>5. QED
    BY <1>1, <1>2, <1>3, <1>4 DEF Next

\* The state of every switch stays one of the four, whatever is searched.
THEOREM SwitchTypeCorrect == Spec => []TypeOK
  BY TypeInit, TypeStep, PTL DEF Spec

--------------------------------------------------------------------------------

LEMMA SyncStep ==
  ASSUME TypeOK, ComponentsInSync, [Next]_vars
  PROVE  ComponentsInSync'
  <1>1. CASE Search
    <2>1. PICK a : /\ state' = [s \in Registered |-> Found(s, a)]
                   /\ told' = [s \in Registered |->
                                 IF CallsBack(s, a) THEN Found(s, a) ELSE told[s]]
      BY <1>1 DEF Search
    <2>2. SUFFICES ASSUME NEW s \in Registered, Config[s].reset = 0
                   PROVE  told'[s] = state'[s]
      BY DEF ComponentsInSync
    <2>3. told[s] = state[s] /\ Base(s) = state[s]
      BY <2>2 DEF ComponentsInSync, Base
    <2>4. told'[s] = (IF CallsBack(s, a) THEN Found(s, a) ELSE told[s])
      BY <2>1
    <2>5. CASE Found(s, a) # Base(s)
      BY <2>1, <2>4, <2>5 DEF CallsBack
    <2>6. CASE Found(s, a) = Base(s)
      BY <2>1, <2>3, <2>4, <2>6 DEF CallsBack
    <2>7. QED
      BY <2>5, <2>6
  <1>2. ASSUME NEW m \in Messages, Message(m) PROVE ComponentsInSync'
    BY <1>2 DEF Message, Start, ComponentsInSync
  <1>3. ASSUME NEW p \in Partitions, NEW text \in Displays,
               NEW status \in [StatusKinds -> BOOLEAN], NEW armBits \in BOOLEAN,
               Alpha(p, text, status, armBits)
        PROVE  ComponentsInSync'
    BY <1>3 DEF Alpha, Start, ComponentsInSync
  <1>4. CASE UNCHANGED vars
    BY <1>4 DEF vars, ComponentsInSync
  <1>5. QED
    BY <1>1, <1>2, <1>3, <1>4 DEF Next

\* No switch without a reset time changes unknown to its component, for every
\* choice of expressions, also ones that overlap.
THEOREM SwitchesInSync == Spec => []ComponentsInSync
  <1>1. Init => ComponentsInSync
    BY DEF Init, ComponentsInSync
  <1>2. TypeOK /\ ComponentsInSync /\ [Next]_vars => ComponentsInSync'
    BY SyncStep
  <1>3. QED
    BY <1>1, <1>2, SwitchTypeCorrect, PTL DEF Spec

--------------------------------------------------------------------------------
(* One call for each message. *)

OnMessages(s) == Config[s].types # {} /\ "EVENT" \notin Config[s].types

\* What is announced last is the message; until it is searched a switch on messages
\* has not called.
CallsAreLast ==
  /\ \A i \in 1..Len(pending) - 1 : pending[i].type = "EVENT"
  /\ \A s \in Registered :
       OnMessages(s) => calls[s] <= 1 /\ (pending # <<>> => calls[s] = 0)

LEMMA CallsStep ==
  ASSUME TypeOK, CallsAreLast, [Next]_vars
  PROVE  CallsAreLast'
  <1>1. CASE Search
    <2> DEFINE a == Head(pending)
    <2>1. /\ pending # <<>> /\ pending' = Tail(pending)
          /\ calls' = [s \in Registered |-> calls[s] + (IF CallsBack(s, a) THEN 1 ELSE 0)]
      BY <1>1 DEF Search
    <2>2. \A i \in 1..Len(pending') - 1 : pending'[i].type = "EVENT"
      BY <2>1 DEF TypeOK, CallsAreLast
    <2>3. pending' # <<>> => a.type = "EVENT"
      BY <2>1 DEF TypeOK, CallsAreLast
    <2>4. ASSUME NEW s \in Registered, OnMessages(s), a.type = "EVENT"
          PROVE  ~CallsBack(s, a)
      BY <2>4 DEF OnMessages, CallsBack, Found, Hits, Passes
    <2> HIDE DEF a
    <2>5. \A s \in Registered :
            OnMessages(s) => calls'[s] <= 1 /\ (pending' # <<>> => calls'[s] = 0)
      BY <2>1, <2>3, <2>4 DEF TypeOK, CallsAreLast
    <2>6. QED
      BY <2>2, <2>5 DEF CallsAreLast
  <1>2. ASSUME calls' = [s \in Registered |-> 0], EventsThenMessage(pending')
        PROVE  CallsAreLast'
    BY <1>2, EventsThenMessageType DEF CallsAreLast
  <1>3. ASSUME NEW m \in Messages, Message(m) PROVE CallsAreLast'
    BY <1>2, <1>3, MessageAnnounces DEF Message, Start
  <1>4. ASSUME NEW p \in Partitions, NEW text \in Displays,
               NEW status \in [StatusKinds -> BOOLEAN], NEW armBits \in BOOLEAN,
               Alpha(p, text, status, armBits)
        PROVE  CallsAreLast'
    BY <1>2, <1>4, AlphaAnnounces DEF Alpha, Start
  <1>5. CASE UNCHANGED vars
    BY <1>5 DEF vars, CallsAreLast
  <1>6. QED
    BY <1>1, <1>3, <1>4, <1>5 DEF Next

\* A switch on messages calls its component at most once for each message, whatever
\* its expressions, with a reset time or without.
THEOREM OneCallForEachMessage == Spec => []OneCallPerMessage
  <1>1. Init => CallsAreLast
    BY DEF Init, CallsAreLast
  <1>2. TypeOK /\ CallsAreLast /\ [Next]_vars => CallsAreLast'
    BY CallsStep
  <1>3. CallsAreLast => OneCallPerMessage
    BY DEF CallsAreLast, OneCallPerMessage, OnMessages
  <1>4. QED
    BY <1>1, <1>2, <1>3, SwitchTypeCorrect, PTL DEF Spec

--------------------------------------------------------------------------------
(* The switches on a status. *)

\* Text t says that status k is b.
Says(t, k, b) == t = EventText(k, b)

\* Some partition shows that k is b.
Shows(k, b) == \E p \in Partitions : ~unknown_state[p] /\ panel[p][k] = b

\* What is still to be searched about k is so, and a switch on k that knows anything
\* is right unless there is something still to be searched.
Follows(k) ==
  /\ \A a \in Range(pending), b \in BOOLEAN :
       Says(a.text, k, b) => a.type = "EVENT" /\ Shows(k, b)
  /\ \A s \in Registered, v \in BOOLEAN :
       Watches(s, k, v) =>
         /\ state[s] \in {"UNKNOWN", "OPEN", "CLOSED"}
         /\ OnMessages(s) => state[s] = "UNKNOWN"
         /\ \/ state[s] = "UNKNOWN"
            \/ Shows(k, IF state[s] = "OPEN" THEN v ELSE ~v)
            \/ \E a \in Range(pending), b \in BOOLEAN : Says(a.text, k, b)

\* Each text says one thing at most.
LEMMA SaysOne ==
  ASSUME NEW j \in Statuses, NEW k \in Statuses, NEW b \in BOOLEAN, NEW c \in BOOLEAN,
         EventText(j, b) = EventText(k, c)
  PROVE  j = k /\ b = c
  BY DEF EventText, OnOff, Statuses

\* A switch on k hears what is said about k and nothing else.
LEMMA WatchesFind ==
  ASSUME NEW s \in Registered, NEW k \in StatusKinds, NEW v \in BOOLEAN, Watches(s, k, v), NEW a
  PROVE  /\ Base(s) = state[s]
         /\ (\A b \in BOOLEAN : ~Says(a.text, k, b)) => Found(s, a) = state[s]
         /\ \A b \in BOOLEAN :
              Says(a.text, k, b) /\ a.type = "EVENT" =>
                Found(s, a) = IF OnMessages(s) THEN state[s] ELSE IF b = v THEN "OPEN" ELSE "CLOSED"
  <1>1. Base(s) = state[s]
    BY DEF Base, Watches
  <1>2. v \in BOOLEAN /\ (~v) \in BOOLEAN
    OBVIOUS
  <1>3. EventText(k, v) # EventText(k, ~v)
    <2>1. k \in Statuses
      BY SwitchAssumption
    <2>2. QED
      BY <1>2, <2>1, SaysOne
  <1>4. /\ Config[s].open = {EventText(k, v)} /\ Config[s].close = {EventText(k, ~v)}
        /\ Config[s].trouble = {}
        /\ Config[s].filtered => {EventText(k, v), EventText(k, ~v)} \subseteq Config[s].filter
    BY DEF Watches
  <1>5. ASSUME \A b \in BOOLEAN : ~Says(a.text, k, b)
        PROVE  Found(s, a) = state[s]
    <2>1. a.text # EventText(k, v) /\ a.text # EventText(k, ~v)
      BY <1>2, <1>5 DEF Says
    <2>2. QED
      BY <1>1, <1>4, <2>1 DEF Found, Hits
  <1>6. ASSUME NEW b \in BOOLEAN, Says(a.text, k, b), a.type = "EVENT"
        PROVE  Found(s, a) = IF OnMessages(s) THEN state[s] ELSE IF b = v THEN "OPEN" ELSE "CLOSED"
    <2>1. CASE OnMessages(s)
      BY <1>1, <1>6, <2>1 DEF Found, Hits, Passes, OnMessages
    <2>2. CASE ~OnMessages(s)
      <3>1. a.text = EventText(k, b) /\ (b = v \/ b = ~v)
        BY <1>6 DEF Says
      <3>2. Hits(s, a)
        BY <1>4, <1>6, <2>2, <3>1 DEF Hits, Passes, OnMessages
      <3>3. a.text \in Config[s].close <=> b # v
        BY <1>3, <1>4, <3>1
      <3>4. a.text \in Config[s].open <=> b = v
        BY <1>3, <1>4, <3>1
      <3>5. QED
        BY <2>2, <3>2, <3>3, <3>4 DEF Found
    <2>3. QED
      BY <2>1, <2>2
  <1>7. QED
    BY <1>1, <1>5, <1>6

LEMMA FollowsSearch ==
  ASSUME TypeOK, NEW k \in StatusKinds, Follows(k), Search
  PROVE  Follows(k)'
  <1> DEFINE a == Head(pending)
  <1>1. /\ pending # <<>> /\ pending' = Tail(pending)
        /\ state' = [s \in Registered |-> Found(s, a)]
        /\ unknown_state' = unknown_state /\ panel' = panel
    BY DEF Search
  <1>2. Range(pending) = {a} \cup Range(pending')
    <2>1. pending \in Seq(Announcements) /\ DOMAIN pending = 1..Len(pending)
      BY DEF TypeOK, Announcements
    <2>2. /\ pending' \in Seq(Announcements) /\ Len(pending') = Len(pending) - 1
          /\ DOMAIN pending' = 1..Len(pending) - 1
          /\ \A i \in 1..Len(pending) - 1 : pending'[i] = pending[i + 1]
      BY <1>1, <2>1
    <2>3. Len(pending) \in Nat \ {0} /\ a = pending[1]
      BY <1>1, <2>1
    <2> HIDE DEF a
    <2>4. Range(pending') = {pending[i] : i \in 2..Len(pending)}
      <3>1. ASSUME NEW i \in 2..Len(pending) PROVE pending[i] \in Range(pending')
        <4>1. i - 1 \in 1..Len(pending) - 1 /\ pending'[i - 1] = pending[i]
          BY <2>2, <2>3
        <4>2. QED
          BY <2>2, <4>1 DEF Range
      <3>2. ASSUME NEW e \in Range(pending') PROVE \E i \in 2..Len(pending) : e = pending[i]
        <4>1. PICK i \in 1..Len(pending) - 1 : e = pending'[i]
          BY <2>2 DEF Range
        <4>2. i + 1 \in 2..Len(pending) /\ e = pending[i + 1]
          BY <2>2, <2>3, <4>1
        <4>3. QED
          BY <4>2
      <3>3. QED
        BY <3>1, <3>2
    <2>5. 1..Len(pending) = {1} \cup 2..Len(pending)
      BY <2>3
    <2>6. QED
      BY <2>1, <2>3, <2>4, <2>5 DEF Range
  <1> HIDE DEF a
  <1>3. \A b : Shows(k, b)' <=> Shows(k, b)
    BY <1>1 DEF Shows
  <1>4. ASSUME NEW s \in Registered, NEW v \in BOOLEAN, Watches(s, k, v)
        PROVE  /\ state'[s] \in {"UNKNOWN", "OPEN", "CLOSED"}
               /\ OnMessages(s) => state'[s] = "UNKNOWN"
               /\ \/ state'[s] = "UNKNOWN"
                  \/ Shows(k, IF state'[s] = "OPEN" THEN v ELSE ~v)
                  \/ \E e \in Range(pending'), b \in BOOLEAN : Says(e.text, k, b)
    <2>1. state'[s] = Found(s, a)
      BY <1>1
    <2>2. /\ state[s] \in {"UNKNOWN", "OPEN", "CLOSED"}
          /\ OnMessages(s) => state[s] = "UNKNOWN"
          /\ \/ state[s] = "UNKNOWN"
             \/ Shows(k, IF state[s] = "OPEN" THEN v ELSE ~v)
             \/ \E e \in Range(pending), b \in BOOLEAN : Says(e.text, k, b)
      BY <1>4 DEF Follows
    <2>3. CASE \A b \in BOOLEAN : ~Says(a.text, k, b)
      <3>1. state'[s] = state[s]
        BY <1>4, <2>1, <2>3, WatchesFind
      <3>2. QED
        BY <1>2, <2>2, <2>3, <3>1
    <2>4. ASSUME NEW b \in BOOLEAN, Says(a.text, k, b)
          PROVE  /\ state'[s] \in {"UNKNOWN", "OPEN", "CLOSED"}
                 /\ OnMessages(s) => state'[s] = "UNKNOWN"
                 /\ \/ state'[s] = "UNKNOWN"
                    \/ Shows(k, IF state'[s] = "OPEN" THEN v ELSE ~v)
      <3>1. a.type = "EVENT" /\ Shows(k, b)
        BY <1>2, <2>4 DEF Follows
      <3>2. state'[s] = IF OnMessages(s) THEN state[s] ELSE IF b = v THEN "OPEN" ELSE "CLOSED"
        BY <1>4, <2>1, <2>4, <3>1, WatchesFind
      <3>3. CASE OnMessages(s)
        BY <2>2, <3>2, <3>3
      <3>4. CASE ~OnMessages(s) /\ b = v
        BY <3>1, <3>2, <3>4
      <3>5. CASE ~OnMessages(s) /\ b # v
        <4>1. b = ~v /\ state'[s] = "CLOSED"
          BY <3>2, <3>5
        <4>2. Shows(k, ~v)
          BY <3>1, <4>1
        <4>3. QED
          BY <3>5, <4>1, <4>2
      <3>6. QED
        BY <3>3, <3>4, <3>5
    <2>5. QED
      BY <2>3, <2>4
  <1>5. \A e \in Range(pending'), b \in BOOLEAN :
          Says(e.text, k, b) => e.type = "EVENT" /\ Shows(k, b)
    BY <1>2 DEF Follows
  <1>6. QED
    BY <1>3, <1>4, <1>5 DEF Follows, Watches, OnMessages, Says

\* Nothing waits between two messages, so the switches are right; a message that says
\* nothing about k leaves them so.
LEMMA FollowsSilence ==
  ASSUME NEW k \in StatusKinds, Follows(k), pending = <<>>, UNCHANGED state,
         \A a \in Range(pending'), b \in BOOLEAN : ~Says(a.text, k, b),
         \A b \in BOOLEAN : Shows(k, b) => Shows(k, b)'
  PROVE  Follows(k)'
  <1>1. Range(pending) = {}
    BY DEF Range
  <1>2. \A b \in BOOLEAN : Shows(k, b) =>
          \E p \in Partitions : ~unknown_state'[p] /\ panel'[p][k] = b
    BY DEF Shows
  <1>3. ASSUME NEW s \in Registered, NEW v \in BOOLEAN, Watches(s, k, v)
        PROVE  /\ state'[s] \in {"UNKNOWN", "OPEN", "CLOSED"}
               /\ OnMessages(s) => state'[s] = "UNKNOWN"
               /\ \/ state'[s] = "UNKNOWN"
                  \/ \E p \in Partitions : /\ ~unknown_state'[p]
                                           /\ panel'[p][k] = IF state'[s] = "OPEN" THEN v ELSE ~v
    <2>1. /\ state[s] \in {"UNKNOWN", "OPEN", "CLOSED"}
          /\ OnMessages(s) => state[s] = "UNKNOWN"
          /\ \/ state[s] = "UNKNOWN"
             \/ Shows(k, IF state[s] = "OPEN" THEN v ELSE ~v)
      BY <1>1, <1>3 DEF Follows
    <2>2. (IF state[s] = "OPEN" THEN v ELSE ~v) \in BOOLEAN
      OBVIOUS
    <2>3. QED
      BY <1>2, <2>1, <2>2
  <1>4. QED
    BY <1>3 DEF Follows, Shows, Watches, OnMessages, Says

LEMMA FollowsMessage ==
  ASSUME OnlyStatusEvents, NEW k \in StatusKinds, Follows(k), NEW m \in Messages, Message(m)
  PROVE  Follows(k)'
  <1>1. /\ pending = <<>> /\ pending' = MessageAnnouncements(m)
        /\ UNCHANGED <<state, unknown_state, panel>>
    BY DEF Message, Start
  <1>2. \A a \in Range(pending'), b \in BOOLEAN : ~Says(a.text, k, b)
    BY <1>1, MessageAnnounces DEF Says, OnlyStatusEvents
  <1>3. \A b \in BOOLEAN : Shows(k, b) => Shows(k, b)'
    BY <1>1 DEF Shows
  <1>4. QED
    BY <1>1, <1>2, <1>3, FollowsSilence

LEMMA FollowsAlpha ==
  ASSUME TypeOK, OnlyStatusEvents, NEW k \in StatusKinds, Follows(k),
         NEW p \in Partitions, NEW text \in Displays,
         NEW status \in [StatusKinds -> BOOLEAN], NEW armBits \in BOOLEAN,
         Alpha(p, text, status, armBits)
  PROVE  Follows(k)'
  <1>1. /\ pending = <<>> /\ pending' = AlphaAnnouncements(p, text, status, armBits)
        /\ state' = state
        /\ unknown_state' = [unknown_state EXCEPT ![p] = FALSE]
        /\ panel' = [panel EXCEPT ![p] = status]
    BY DEF Alpha, Start
  <1>2. k \in Statuses /\ StatusKinds \subseteq Statuses
    BY SwitchAssumption
  <1>3. ASSUME NEW a \in Range(pending'), NEW b \in BOOLEAN, Says(a.text, k, b)
        PROVE  a = StatusEventOf(status, k) /\ b = status[k]
               /\ Announced(p, status, armBits, k)
    <2>1. EventText(k, b) # text
      BY DEF OnlyStatusEvents
    <2>2. a \in {Announce("EVENT", text), Announce("ALPHA", text)}
                 \cup Range(StatusEvents(p, status, armBits))
      BY <1>1, AlphaAnnounces
    <2>3. a \in Range(StatusEvents(p, status, armBits))
      BY <1>3, <2>1, <2>2 DEF Announce, Says
    <2>4. PICK j \in Statuses : /\ Announced(p, status, armBits, j)
                                /\ a = StatusEventOf(status, j)
      BY <2>3, StatusEventsAre
    <2>5. j \in StatusKinds /\ status[j] \in BOOLEAN
      BY <2>4 DEF Announced
    <2>6. EventText(j, status[j]) = EventText(k, b)
      BY <1>3, <2>4 DEF StatusEventOf, Announce, Says
    <2>7. j = k /\ status[j] = b
      BY <1>2, <2>5, <2>6, SaysOne
    <2>8. QED
      BY <2>4, <2>7
  <1>4. Shows(k, status[k])'
    <2>1. ~unknown_state'[p] /\ panel'[p][k] = status[k]
      BY <1>1 DEF TypeOK
    <2>2. QED
      BY <2>1 DEF Shows
  <1>5. CASE Announced(p, status, armBits, k)
    <2>1. StatusEventOf(status, k) \in Range(pending')
      BY <1>1, <1>2, <1>5, AlphaAnnounces, StatusEventsAre
    <2>2. Says(StatusEventOf(status, k).text, k, status[k]) /\ status[k] \in BOOLEAN
      BY DEF StatusEventOf, Announce, Says
    <2>3. \E a \in Range(pending'), b \in BOOLEAN : Says(a.text, k, b)
      BY <2>1, <2>2
    <2>4. \A a \in Range(pending'), b \in BOOLEAN :
            Says(a.text, k, b) => a.type = "EVENT" /\ Shows(k, b)'
      BY <1>3, <1>4 DEF StatusEventOf, Announce
    <2>5. \A s \in Registered, v \in BOOLEAN :
            Watches(s, k, v) => /\ state'[s] \in {"UNKNOWN", "OPEN", "CLOSED"}
                                /\ OnMessages(s) => state'[s] = "UNKNOWN"
      BY <1>1 DEF Follows
    <2>6. QED
      BY <2>3, <2>4, <2>5 DEF Follows, Watches, OnMessages, Says
  <1>6. CASE ~Announced(p, status, armBits, k)
    <2>1. \A a \in Range(pending'), b \in BOOLEAN : ~Says(a.text, k, b)
      BY <1>3, <1>6
    <2>2. unknown_state[p] \/ panel[p][k] = status[k]
      BY <1>6 DEF Announced
    <2>3. ASSUME NEW b \in BOOLEAN, Shows(k, b) PROVE Shows(k, b)'
      <3>1. PICK q \in Partitions : ~unknown_state[q] /\ panel[q][k] = b
        BY <2>3 DEF Shows
      <3>2. ~unknown_state'[q] /\ panel'[q][k] = b
        BY <1>1, <2>2, <3>1 DEF TypeOK
      <3>3. QED
        BY <3>2 DEF Shows
    <2>4. QED
      BY <1>1, <2>1, <2>3, FollowsSilence
  <1>7. QED
    BY <1>5, <1>6

\* A switch on a status shows, between messages, what some partition really shows,
\* although most statuses of a partition's first message are not announced, READY is
\* announced without a change, and the changes of partitions interleave.
THEOREM SwitchesFollow ==
  ASSUME OnlyStatusEvents
  PROVE  Spec => []SwitchesFollowPanel
  <1> DEFINE Inv == \A k \in StatusKinds : Follows(k)
  <1>1. Init => Inv
    <2> SUFFICES ASSUME Init, NEW k \in StatusKinds PROVE Follows(k)
      OBVIOUS
    <2>1. Range(pending) = {}
      BY DEF Init, Range
    <2>2. QED
      BY <2>1 DEF Init, Follows, Watches
  <1>2. TypeOK /\ Inv /\ [Next]_vars => Inv'
    <2> SUFFICES ASSUME TypeOK, Inv, [Next]_vars, NEW k \in StatusKinds PROVE Follows(k)'
      OBVIOUS
    <2>1. CASE Search
      BY <2>1, FollowsSearch
    <2>2. ASSUME NEW m \in Messages, Message(m) PROVE Follows(k)'
      BY <2>2, FollowsMessage
    <2>3. ASSUME NEW p \in Partitions, NEW text \in Displays,
                 NEW status \in [StatusKinds -> BOOLEAN], NEW armBits \in BOOLEAN,
                 Alpha(p, text, status, armBits)
          PROVE  Follows(k)'
      BY <2>3, FollowsAlpha
    <2>4. CASE UNCHANGED vars
      BY <2>4 DEF vars, Follows, Shows, Watches, OnMessages, Says
    <2>5. QED
      BY <2>1, <2>2, <2>3, <2>4 DEF Next
  <1>3. TypeOK /\ Inv => SwitchesFollowPanel
    <2> SUFFICES ASSUME TypeOK, NEW k \in StatusKinds, Follows(k), pending = <<>>,
                        NEW s \in Registered, NEW v \in BOOLEAN,
                        Watches(s, k, v), state[s] # "UNKNOWN"
                 PROVE  \E p \in Partitions :
                          ~unknown_state[p] /\ (state[s] = "OPEN") = (panel[p][k] = v)
      BY DEF SwitchesFollowPanel, FollowsAPartition
    <2>1. Range(pending) = {}
      BY DEF Range
    <2>2. Shows(k, IF state[s] = "OPEN" THEN v ELSE ~v)
      BY <2>1 DEF Follows
    <2>3. CASE state[s] = "OPEN"
      BY <2>2, <2>3 DEF Shows
    <2>4. CASE state[s] # "OPEN"
      <3>1. PICK p \in Partitions : ~unknown_state[p] /\ panel[p][k] = ~v
        BY <2>2, <2>4 DEF Shows
      <3>2. panel[p][k] # v
        BY <3>1
      <3>3. QED
        BY <2>4, <3>1, <3>2
    <2>5. QED
      BY <2>3, <2>4
  <1>4. QED
    BY <1>1, <1>2, <1>3, SwitchTypeCorrect, PTL DEF Spec
================================================================================
