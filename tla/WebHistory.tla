------------------------------- MODULE WebHistory ------------------------------
(***************************************************************************)
(* The activity history of the web interface: a ring of the last events,   *)
(* filled by the parser's task from its callbacks and read by the server's *)
(* task, both under a mutex they wait for with a time limit.               *)
(***************************************************************************)
EXTENDS Naturals, Sequences

CONSTANTS
  HistorySize,     \* WEBUI_HISTORY_SIZE
  EventPartitions, \* the partitions events are of
  AllPartitions,   \* a request for the events of every partition (partition < 0)
  MaxEntries       \* bound on the number of events

ASSUME WebHistoryAssumption ==
  HistorySize \in Nat \ {0} /\ MaxEntries \in Nat /\ AllPartitions \notin EventPartitions

VARIABLES
  ring, head, count, sequence,  \* webui_history and its counters
  historyHeld,                  \* webui_history_mutex: who holds it
  adder,                        \* the parser's task: [at, part]
  reader,                       \* the server's task: [at, part, wanted, offset, items]
  recorded,                     \* every event recorded, oldest first
  lost                          \* the number of events lost to the time limit

historyVars == <<ring, head, count, sequence, historyHeld, adder, reader, recorded, lost>>

NoItem == [sequence |-> 0, part |-> AllPartitions]
AtRest == [at |-> "rest", part |-> AllPartitions, wanted |-> 0, offset |-> 0, items |-> <<>>]

HistoryInit ==
  /\ ring = [i \in 0..HistorySize - 1 |-> NoItem]
  /\ head = 0 /\ count = 0 /\ sequence = 0
  /\ historyHeld = "nobody"
  /\ adder = [at |-> "rest", part |-> AllPartitions]
  /\ reader = AtRest
  /\ recorded = <<>> /\ lost = 0

--------------------------------------------------------------------------------
(* webui_add_history *)

Event(p) ==
  /\ adder.at = "rest"
  /\ sequence + lost < MaxEntries
  /\ adder' = [at |-> "take", part |-> p]
  /\ UNCHANGED <<ring, head, count, sequence, historyHeld, reader, recorded, lost>>

AdderTakes ==
  /\ adder.at = "take" /\ historyHeld = "nobody"
  /\ historyHeld' = "adder"
  /\ adder' = [adder EXCEPT !.at = "fill"]
  /\ UNCHANGED <<ring, head, count, sequence, reader, recorded, lost>>

\* 50 ms have passed.
AdderGivesUp ==
  /\ adder.at = "take" /\ historyHeld = "reader"
  /\ adder' = [adder EXCEPT !.at = "rest"]
  /\ lost' = lost + 1
  /\ UNCHANGED <<ring, head, count, sequence, historyHeld, reader, recorded>>

Fill ==
  /\ adder.at = "fill"
  /\ sequence' = sequence + 1
  /\ ring' = [ring EXCEPT ![head] = [sequence |-> sequence', part |-> adder.part]]
  /\ adder' = [adder EXCEPT !.at = "move"]
  /\ UNCHANGED <<head, count, historyHeld, reader, recorded, lost>>

\* The head moves, the count grows, the mutex is given back.
Move ==
  /\ adder.at = "move"
  /\ head' = (head + 1) % HistorySize
  /\ count' = IF count < HistorySize THEN count + 1 ELSE count
  /\ recorded' = Append(recorded, [sequence |-> sequence, part |-> adder.part])
  /\ historyHeld' = "nobody"
  /\ adder' = [adder EXCEPT !.at = "rest"]
  /\ UNCHANGED <<ring, sequence, reader, lost>>

--------------------------------------------------------------------------------
(* webui_history_json *)

AskHistory(p, limit) ==
  /\ reader.at = "rest"
  /\ reader' = [AtRest EXCEPT !.at = "take", !.part = p,
                              !.wanted = IF limit < HistorySize THEN limit ELSE HistorySize]
  /\ UNCHANGED <<ring, head, count, sequence, historyHeld, adder, recorded, lost>>

ReaderTakes ==
  /\ reader.at = "take" /\ historyHeld = "nobody"
  /\ historyHeld' = "reader"
  /\ reader' = [reader EXCEPT !.at = "read"]
  /\ UNCHANGED <<ring, head, count, sequence, adder, recorded, lost>>

\* Mutant: the reader goes on when its time is over.
ReaderReadsAnyway ==
  /\ reader.at = "take" /\ historyHeld = "adder"
  /\ reader' = [reader EXCEPT !.at = "read"]
  /\ UNCHANGED <<ring, head, count, sequence, historyHeld, adder, recorded, lost>>

\* 100 ms have passed: an empty list.
ReaderGivesUp ==
  /\ reader.at = "take" /\ historyHeld = "adder"
  /\ reader' = AtRest
  /\ UNCHANGED <<ring, head, count, sequence, historyHeld, adder, recorded, lost>>

More == reader.offset < count /\ Len(reader.items) < reader.wanted

ReadOne ==
  /\ reader.at = "read" /\ More
  /\ LET item == ring[(head + HistorySize - 1 - reader.offset) % HistorySize]
     IN reader' = [reader EXCEPT
          !.offset = @ + 1,
          !.items = IF reader.part \in {AllPartitions, item.part} THEN Append(@, item) ELSE @]
  /\ UNCHANGED <<ring, head, count, sequence, historyHeld, adder, recorded, lost>>

ReadAll ==
  /\ reader.at = "read" /\ ~More
  /\ reader' = [reader EXCEPT !.at = "give"]
  /\ UNCHANGED <<ring, head, count, sequence, historyHeld, adder, recorded, lost>>

Answer ==
  /\ reader.at = "give"
  /\ reader' = AtRest
  /\ historyHeld' = "nobody"
  /\ UNCHANGED <<ring, head, count, sequence, adder, recorded, lost>>

HistoryNext ==
  \/ \E p \in EventPartitions : Event(p)
  \/ AdderTakes \/ AdderGivesUp \/ Fill \/ Move
  \/ \E p \in EventPartitions \cup {AllPartitions}, limit \in 1..HistorySize + 1 :
       AskHistory(p, limit)
  \/ ReaderTakes \/ ReaderGivesUp \/ ReadOne \/ ReadAll \/ Answer

HistorySpec == HistoryInit /\ [][HistoryNext]_historyVars

--------------------------------------------------------------------------------
(* Property. *)

\* The events recorded that the ring can hold, by their places.
Held == {k \in 1..Len(recorded) : k + HistorySize > Len(recorded)}

Matches(e) == reader.part \in {AllPartitions, e.part}

\* An answer is the newest events asked for among those the ring can hold, newest
\* first, none of them half written, whatever events arrived around it: what matches
\* is left out only if it is older than all the answer has room for.
HistoryIsLatest ==
  reader.at = "give" =>
    LET items == reader.items
    IN /\ Len(items) <= reader.wanted
       /\ \A i \in 1..Len(items) : Matches(items[i]) /\ \E k \in Held : items[i] = recorded[k]
       /\ \A i, j \in 1..Len(items) : i < j => items[i].sequence > items[j].sequence
       /\ \A k \in Held :
            \/ ~Matches(recorded[k])
            \/ \E i \in 1..Len(items) : items[i] = recorded[k]
            \/ /\ Len(items) = reader.wanted
               /\ \A i \in 1..Len(items) : items[i].sequence > recorded[k].sequence
================================================================================
