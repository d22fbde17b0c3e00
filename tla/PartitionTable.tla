----------------------------- MODULE PartitionTable ----------------------------
(***************************************************************************)
(* AD2PStates, the parser's table of partition states, and getAD2PState(): *)
(* states are stored under the mask of the keypad addresses of a partition *)
(* and found again by any of these addresses.  The panel does not tell the *)
(* masks of its partitions beforehand: keys are learnt from messages and   *)
(* grow, and nothing keeps a message from having addresses of two states.  *)
(* What a message does to the state it finds is in AlarmDecoderParser.     *)
(*                                                                         *)
(* A mask is the set of its bits; {} is the mask of the system partition.  *)
(***************************************************************************)
EXTENDS Integers, FiniteSets

CONSTANTS
  Addresses,      \* keypad addresses (Ademco), partitions (DSC): bits of a mask
  Configured,     \* addresses of the partition slots of the configuration
  Masks,          \* masks of the panel's keypad messages
  SignAddress,    \* the address whose bit is the sign bit of the mask as sent
  MaxStates       \* bound on the number of states

ASSUME TableAssumption ==
  /\ Addresses \subseteq Nat /\ IsFiniteSet(Addresses)
  /\ Configured \subseteq Addresses
  /\ Masks \subseteq SUBSET Addresses
  /\ SignAddress \in Nat
  /\ MaxStates \in Nat

VARIABLES
  AD2PStates,     \* the table: a function from masks to states
  made,           \* states 1..made have been allocated
  partition,      \* partition[s]: the id of state s
  primary,        \* primary[s]: its primary address, 0 if it has none
  configured,     \* slots app_main has initialised
  home,           \* home[a]: the state the last message for a updated, or 0
  tainted         \* addresses whose states messages may have mixed up

vars == <<AD2PStates, made, partition, primary, configured, home, tainted>>

Keys == DOMAIN AD2PStates

Init ==
  /\ AD2PStates = [k \in {} |-> 0]
  /\ made = 0
  /\ partition = [s \in {} |-> 0]
  /\ primary = [s \in {} |-> 0]
  /\ configured = {}
  /\ home = [a \in Addresses |-> 0]
  /\ tainted = {}

--------------------------------------------------------------------------------
(* getAD2PState *)

\* The order of the table: masks compare as numbers.
Below(j, k) ==
  \E b \in k \ j : \A c \in j \ k : c < b

Overlapping(mask) == {k \in Keys : k \cap mask # {}}
First(K) == CHOOSE k \in K : \A j \in K \ {k} : Below(k, j)

\* Mutant: a state is found under its exact mask only.
FoundExactly(mask) == mask \in Keys

Found(mask) == mask \in Keys \/ Overlapping(mask) # {}

FoundKey(mask) == IF mask \in Keys THEN mask ELSE First(Overlapping(mask))

\* Without update: the state, or 0 for nullptr.
Lookup(mask) == IF Found(mask) THEN AD2PStates[FoundKey(mask)] ELSE 0

\* Mutant: the old key is erased, the grown one is not added.
StoredNotAdded(erased, key, s) ==
  [k \in IF erased = key THEN Keys \cup {key} ELSE Keys \ {erased} |->
     IF k = key THEN s ELSE AD2PStates[k]]

\* State s moves from one key to another, whatever was there.
Stored(erased, key, s) ==
  [k \in (Keys \ {erased}) \cup {key} |-> IF k = key THEN s ELSE AD2PStates[k]]

\* With update: the key grows by the bits of the mask, a new state is made if
\* there is none.  s is the state the caller gets.
Update(mask, s) ==
  IF Found(mask)
  THEN /\ s = Lookup(mask)
       /\ AD2PStates' = Stored(FoundKey(mask), FoundKey(mask) \cup mask, s)
       /\ UNCHANGED <<made, partition>>
  ELSE /\ made < MaxStates
       /\ s = made + 1
       /\ made' = s
       /\ AD2PStates' = Stored(mask, mask, s)
       /\ partition' = [t \in 1..s |-> IF t = s THEN Cardinality(Keys) + 1
                                                ELSE partition[t]]

--------------------------------------------------------------------------------

\* app_main: one configured partition slot, before any message is read.
Configure(a) ==
  /\ a \in Configured \ configured
  /\ configured' = configured \cup {a}
  /\ \E s \in 1..MaxStates :
       /\ Update({a}, s)
       /\ primary' = [t \in 1..made' |-> IF t = s THEN a
                                         ELSE IF t <= made THEN primary[t] ELSE 0]
  /\ UNCHANGED <<home, tainted>>

\* strtol() of the eight digits gives a long of 32 bits: LONG_MAX for a mask
\* with its sign bit set, which reads as all the other addresses.
Received(mask) ==
  IF SignAddress \in mask THEN Addresses \ {SignAddress} ELSE mask

\* A message that has addresses of several states, or of such a message before, or
\* whose mask is not read as it was sent, taints all that it reaches.
Taints(mask) ==
  LET reached == mask \cup Received(mask)
      keys == {k \in Keys : k \cap reached # {}}
      plain == /\ Received(mask) = mask /\ mask \cap tainted = {}
               /\ \A j, k \in keys : j = k
  IN tainted' = IF plain THEN tainted ELSE tainted \cup reached \cup UNION keys

\* A keypad message; mask is what the panel sent.
Alpha(mask) ==
  /\ configured = Configured
  /\ \E s \in 1..MaxStates :
       /\ Update(Received(mask), s)
       /\ primary' = [t \in 1..made' |-> IF t <= made THEN primary[t] ELSE 0]
       /\ home' = [a \in Addresses |-> IF a \in mask THEN s ELSE home[a]]
  /\ Taints(mask)
  /\ UNCHANGED configured

Next ==
  \/ \E a \in Configured : Configure(a)
  \/ \E mask \in Masks : Alpha(mask)

Spec == Init /\ [][Next]_vars

--------------------------------------------------------------------------------
(* Properties. *)

\* Every variable has its type.
TypeOK ==
  /\ made \in 0..MaxStates
  /\ Keys \subseteq SUBSET Addresses
  /\ AD2PStates \in [Keys -> 1..made]
  /\ partition \in [1..made -> Nat]
  /\ primary \in [1..made -> Addresses \cup {0}]
  /\ configured \subseteq Configured
  /\ home \in [Addresses -> 0..made]
  /\ tainted \subseteq Addresses

\* "To fetch the state of a partition all that is needed is an address that is
\* known to be on that partition": the state ad2_arm_away() and the other commands
\* look up by an address is the one the last message for the address updated,
\* whatever the panel sends for others: unless a message for it had addresses of
\* another state too or could not be read.
LookupFindsHome ==
  \A a \in Addresses \ tainted : home[a] # 0 => Lookup({a}) = home[a]

\* An address belongs to one state, unless messages mixed its state up with another.
KeysAreDisjoint ==
  \A j, k \in Keys : j # k => j \cap k \subseteq tainted

\* And a message that mixes two states up leaves the others whole.
TaintIsWhole ==
  \A k \in Keys : k \subseteq tainted \/ k \cap tainted = {}

\* A configured slot keeps its state, with its primary address and zone list,
\* however its key grows and whatever states are mixed up elsewhere.
SlotsAreKept ==
  \A a \in configured \ tainted : Lookup({a}) # 0 /\ primary[Lookup({a})] = a

\* No two states have the same partition id, as long as no key has grown into
\* another and replaced its state.
PartitionIdsAreUnique ==
  Cardinality(Keys) = made =>
    \A s, t \in 1..made : s # t => partition[s] # partition[t]

\* The states of the table stay apart and in their slots, whatever masks the panel
\* sends: what the subscribers, who know a partition by its slot or its id, rely on.
SlotsAreSeparate ==
  KeysAreDisjoint /\ TaintIsWhole /\ SlotsAreKept /\ PartitionIdsAreUnique
================================================================================
