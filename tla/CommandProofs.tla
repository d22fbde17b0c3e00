------------------------------ MODULE CommandProofs ----------------------------
(***************************************************************************)
(* Proofs about what stands between the user and the panel: the partition  *)
(* table, the commands, what the parser's callbacks send, the log and the  *)
(* activity history, for every set of addresses, masks, slots, rings,      *)
(* queues and files.                                                       *)
(***************************************************************************)
EXTENDS PartitionTable, Commands, PanelCallbacks, SdLog, WebHistory,
        FiniteSetTheorems, SequenceTheorems, WellFoundedInduction, TLAPS

--------------------------------------------------------------------------------
(* The partition table, for any masks.                                     *)

\* Masks compare as numbers: of different ones one is below the other.
LEMMA HasGreatest ==
  ASSUME NEW D \in SUBSET Nat, IsFiniteSet(D), D # {}
  PROVE  \E b \in D : \A c \in D \ {b} : c < b
  <1> DEFINE Greater(b) == {c \in D : b < c}
             R == StrictSubsetOrdering(D)
             T == {Greater(b) : b \in D}
  <1>1. T \subseteq FiniteSubsetsOf(D) /\ T # {}
    <2>1. FiniteSubsetsOf(D) = SUBSET D
      BY FS_FiniteSubsetsOfFinite
    <2>2. \A b \in D : Greater(b) \in SUBSET D
      OBVIOUS
    <2>3. T \subseteq SUBSET D /\ T # {}
      BY <2>2
    <2> HIDE DEF T
    <2>4. QED
      BY <2>1, <2>3
  <1>2. PICK x \in T : \A y \in T : <<y, x>> \notin R
    <2>1. IsWellFoundedOn(R, FiniteSubsetsOf(D))
      BY FS_StrictSubsetOrderingWellFounded
    <2> HIDE DEF R, T
    <2>2. QED
      BY <1>1, <2>1, WFMin
  <1>3. PICK b \in D : x = Greater(b)
    BY <1>2
  <1>4. ASSUME NEW c \in D, b < c
        PROVE  FALSE
    <2>1. Greater(c) \subseteq Greater(b) /\ Greater(c) # Greater(b)
      <3>1. c \in Greater(b) /\ c \notin Greater(c)
        BY <1>4
      <3>2. \A d \in D : c < d => b < d
        BY <1>4
      <3>3. QED
        BY <3>1, <3>2
    <2>2. <<Greater(c), Greater(b)>> \in R
      BY <2>1 DEF StrictSubsetOrdering
    <2>3. QED
      BY <1>2, <1>3, <2>2
  <1>5. QED
    BY <1>4

LEMMA BelowTotal ==
  ASSUME NEW j \in SUBSET Nat, NEW k \in SUBSET Nat, IsFiniteSet(j), IsFiniteSet(k), j # k
  PROVE  Below(j, k) \/ Below(k, j)
  <1> DEFINE D == (j \ k) \cup (k \ j)
  <1>1. IsFiniteSet(D) /\ D \in SUBSET Nat /\ D # {}
    <2>1. IsFiniteSet(j \cup k)
      BY FS_Union
    <2>2. D \in SUBSET (j \cup k)
      OBVIOUS
    <2> HIDE DEF D
    <2>3. IsFiniteSet(D)
      BY <2>1, <2>2, FS_Subset
    <2>4. D \in SUBSET Nat /\ D # {}
      BY DEF D
    <2>5. QED
      BY <2>3, <2>4
  <1>2. PICK b \in D : \A c \in D \ {b} : c < b
    <2> HIDE DEF D
    <2>1. QED
      BY <1>1, HasGreatest
  <1>3. CASE b \in j \ k
    BY <1>2, <1>3 DEF Below
  <1>4. CASE b \in k \ j
    BY <1>2, <1>4 DEF Below
  <1>5. QED
    BY <1>3, <1>4

LEMMA BelowTransitive ==
  ASSUME NEW i \in SUBSET Nat, NEW j \in SUBSET Nat, NEW k \in SUBSET Nat,
         Below(i, j), Below(j, k)
  PROVE  Below(i, k)
  <1>1. PICK b1 \in j \ i : \A c \in i \ j : c < b1
    BY DEF Below
  <1>2. PICK b2 \in k \ j : \A c \in j \ k : c < b2
    BY DEF Below
  <1>3. b1 \in Nat /\ b2 \in Nat /\ b1 # b2
    BY <1>1, <1>2
  <1>4. CASE b2 < b1
    <2>1. b1 \in k
      BY <1>1, <1>2, <1>3, <1>4
    <2>2. \A c \in i \ k : c < b1
      BY <1>1, <1>2, <1>3, <1>4
    <2>3. QED
      BY <1>1, <2>1, <2>2 DEF Below
  <1>5. CASE b1 < b2
    <2>1. b2 \notin i
      BY <1>1, <1>2, <1>3, <1>5
    <2>2. \A c \in i \ k : c < b2
      BY <1>1, <1>2, <1>3, <1>5
    <2>3. QED
      BY <1>2, <2>1, <2>2 DEF Below
  <1>6. QED
    BY <1>3, <1>4, <1>5

\* The search of the table ends at a key: the first of those that overlap.
LEMMA FirstIsKey ==
  ASSUME NEW K, IsFiniteSet(K), K # {}, \A k \in K : k \in SUBSET Nat /\ IsFiniteSet(k)
  PROVE  First(K) \in K
  <1> DEFINE Before(k) == {j \in K : Below(j, k)}
             R == StrictSubsetOrdering(K)
             T == {Before(k) : k \in K}
  <1>1. T \subseteq FiniteSubsetsOf(K) /\ T # {}
    <2>1. FiniteSubsetsOf(K) = SUBSET K
      BY FS_FiniteSubsetsOfFinite
    <2>2. \A k \in K : Before(k) \in SUBSET K
      OBVIOUS
    <2>3. T \subseteq SUBSET K /\ T # {}
      BY <2>2
    <2> HIDE DEF T
    <2>4. QED
      BY <2>1, <2>3
  <1>2. PICK x \in T : \A y \in T : <<y, x>> \notin R
    <2>1. IsWellFoundedOn(R, FiniteSubsetsOf(K))
      BY FS_StrictSubsetOrderingWellFounded
    <2> HIDE DEF R, T
    <2>2. QED
      BY <1>1, <2>1, WFMin
  <1>3. PICK k \in K : x = Before(k)
    BY <1>2
  <1>4. ASSUME NEW j \in K, Below(j, k)
        PROVE  FALSE
    <2>1. \A i \in K : Below(i, j) => Below(i, k)
      BY <1>4, BelowTransitive
    <2>2. ~Below(j, j)
      BY DEF Below
    <2>3. Before(j) \subseteq Before(k) /\ Before(j) # Before(k)
      BY <1>4, <2>1, <2>2
    <2>4. <<Before(j), Before(k)>> \in R
      BY <2>3 DEF StrictSubsetOrdering
    <2>5. QED
      BY <1>2, <1>3, <2>4
  <1>5. \A j \in K \ {k} : Below(k, j)
    BY <1>4, BelowTotal
  <1>6. QED
    BY <1>5 DEF First

\* The addresses whose states are not mixed up find the state of their last message.
HomeIsStored ==
  \A a \in Addresses \ tainted :
    home[a] # 0 => \E k \in Keys : a \in k /\ AD2PStates[k] = home[a]

\* The table has at most an entry for every state made; ids count up until an entry is
\* lost.
IdsCountUp ==
  /\ IsFiniteSet(Keys) /\ Cardinality(Keys) <= made
  /\ Cardinality(Keys) = made => partition = [t \in 1..made |-> t]

\* While slots are configured the keys are their addresses; from then on the key of
\* a slot grows and keeps its state.
SlotsAreStored ==
  /\ configured # Configured => Keys = {{a} : a \in configured} /\ tainted = {}
  /\ \A a \in configured \ tainted : \E k \in Keys : a \in k /\ primary[AD2PStates[k]] = a

TableInv ==
  /\ TypeOK /\ KeysAreDisjoint /\ TaintIsWhole /\ IdsCountUp
  /\ HomeIsStored /\ SlotsAreStored

\* An address that is not mixed up finds the key that has it.
LEMMA AddressFound ==
  ASSUME KeysAreDisjoint, NEW a, a \notin tainted, NEW k \in Keys, a \in k
  PROVE  Lookup({a}) = AD2PStates[k]
  <1>1. CASE {a} \in Keys
    <2>1. {a} = k
      BY <1>1 DEF KeysAreDisjoint
    <2>2. QED
      BY <1>1, <2>1 DEF Lookup, Found, FoundKey
  <1>2. CASE {a} \notin Keys
    <2>1. Overlapping({a}) = {k}
      BY DEF KeysAreDisjoint, Overlapping
    <2>2. First({k}) = k
      BY DEF First
    <2>3. QED
      BY <1>2, <2>1, <2>2 DEF Lookup, Found, FoundKey
  <1>3. QED
    BY <1>1, <1>2

\* What one call with update does to the table: the key old, which overlaps the mask or
\* is new, grows by the mask; the caller gets its state.
Grows(mask, old, s) ==
  /\ old \in Keys => s = AD2PStates[old] /\ (old \cap mask # {} \/ old = mask)
  /\ old \notin Keys => old = mask /\ s = made + 1 /\ \A k \in Keys : k \cap mask = {}
  /\ Keys' = (Keys \ {old}) \cup {old \cup mask}
  /\ AD2PStates'[old \cup mask] = s
  /\ \A k \in Keys' : k # old \cup mask => AD2PStates'[k] = AD2PStates[k]

TableTyped(s) ==
  /\ made' \in 0..MaxStates /\ made \in Nat /\ made <= made' /\ s \in 1..made'
  /\ Keys' \subseteq SUBSET Addresses
  /\ AD2PStates' \in [Keys' -> 1..made']
  /\ partition' \in [1..made' -> Nat]

LEMMA UpdateFound ==
  ASSUME TableInv, NEW mask \in SUBSET Addresses, NEW s, Update(mask, s), Found(mask)
  PROVE  TableTyped(s) /\ IdsCountUp' /\ \E old : Grows(mask, old, s)
  <1> DEFINE old == FoundKey(mask)
             key == old \cup mask
  <1>1. old \in Keys /\ (old \cap mask # {} \/ old = mask)
    <2>1. CASE mask \in Keys
      BY <2>1 DEF FoundKey
    <2>2. CASE mask \notin Keys
      <3>1. Overlapping(mask) # {} /\ Overlapping(mask) \subseteq Keys
        BY <2>2 DEF Found, Overlapping
      <3>2. IsFiniteSet(Overlapping(mask))
        BY <3>1, FS_Subset DEF TableInv, IdsCountUp
      <3>3. \A k \in Keys : k \in SUBSET Nat /\ IsFiniteSet(k)
        BY TableAssumption, FS_Subset DEF TableInv, TypeOK
      <3>4. First(Overlapping(mask)) \in Overlapping(mask)
        BY <3>1, <3>2, <3>3, FirstIsKey
      <3>5. QED
        BY <2>2, <3>4 DEF FoundKey, Overlapping
    <2>3. QED
      BY <2>1, <2>2
  <1>2. /\ s = AD2PStates[old]
        /\ AD2PStates' = [j \in (Keys \ {old}) \cup {key} |->
                           IF j = key THEN s ELSE AD2PStates[j]]
        /\ made' = made /\ partition' = partition
    BY DEF Update, Lookup, Stored
  <1> HIDE DEF old
  <1>3. Keys' = (Keys \ {old}) \cup {key}
    BY <1>2 DEF Keys
  <1>4. Grows(mask, old, s)
    BY <1>1, <1>2, <1>3 DEF Grows
  <1>5. made \in Nat /\ made' \in 0..MaxStates /\ made <= made' /\ s \in 1..made'
        /\ partition' \in [1..made' -> Nat]
    BY <1>1, <1>2, TableAssumption DEF TableInv, TypeOK
  <1>6. key \in SUBSET Addresses /\ Keys' \subseteq SUBSET Addresses
    BY <1>1, <1>3 DEF TableInv, TypeOK
  <1>7. AD2PStates' \in [Keys' -> 1..made']
    <2>1. \A j \in Keys : AD2PStates[j] \in 1..made'
      BY <1>2 DEF TableInv, TypeOK
    <2>2. QED
      BY <1>2, <1>3, <1>5, <2>1
  <1>8. IdsCountUp'
    <2>1. IsFiniteSet(Keys \ {old}) /\ Cardinality(Keys \ {old}) = Cardinality(Keys) - 1
      BY <1>1, FS_RemoveElement DEF TableInv, IdsCountUp
    <2>2. Cardinality(Keys) \in Nat
      BY FS_CardinalityType DEF TableInv, IdsCountUp
    <2>3. IsFiniteSet(Keys') /\ Cardinality(Keys') <= Cardinality(Keys) /\ Cardinality(Keys') \in Nat
      <3> HIDE DEF key
      <3>1. IsFiniteSet(Keys') /\ Cardinality(Keys') =
              IF key \in Keys \ {old} THEN Cardinality(Keys \ {old}) ELSE Cardinality(Keys \ {old}) + 1
        BY <1>3, <2>1, FS_AddElement
      <3>2. QED
        BY <2>1, <2>2, <3>1, FS_CardinalityType
    <2>4. Cardinality(Keys) <= made
          /\ (Cardinality(Keys) = made => partition = [t \in 1..made |-> t])
      BY DEF TableInv, IdsCountUp
    <2>5. Cardinality(Keys') = made => Cardinality(Keys) = made
      BY <1>5, <2>2, <2>3, <2>4
    <2>6. Cardinality(Keys') <= made'
      BY <1>2, <1>5, <2>2, <2>3, <2>4
    <2>7. QED
      BY <1>2, <2>3, <2>4, <2>5, <2>6 DEF IdsCountUp
  <1>9. QED
    BY <1>4, <1>5, <1>6, <1>7, <1>8 DEF TableTyped

LEMMA UpdateNew ==
  ASSUME TableInv, NEW mask \in SUBSET Addresses, NEW s, Update(mask, s), ~Found(mask)
  PROVE  TableTyped(s) /\ IdsCountUp' /\ \E old : Grows(mask, old, s)
  <1>1. /\ made < MaxStates /\ s = made + 1 /\ made' = s
        /\ AD2PStates' = [k \in (Keys \ {mask}) \cup {mask} |->
                           IF k = mask THEN s ELSE AD2PStates[k]]
        /\ partition' = [t \in 1..s |-> IF t = s THEN Cardinality(Keys) + 1
                                                 ELSE partition[t]]
    BY DEF Update, Stored
  <1>2. mask \notin Keys /\ \A k \in Keys : k \cap mask = {}
    BY DEF Found, Overlapping
  <1>3. Keys' = Keys \cup {mask}
    BY <1>1, <1>2 DEF Keys
  <1>4. Grows(mask, mask, s)
    <2>1. mask \cup mask = mask /\ Keys' = (Keys \ {mask}) \cup {mask}
      BY <1>2, <1>3
    <2>2. QED
      BY <1>1, <1>2, <2>1 DEF Grows
  <1>5. Keys' \subseteq SUBSET Addresses
    BY <1>3 DEF TableInv, TypeOK
  <1>6. made \in Nat /\ MaxStates \in Nat /\ s \in 1..s /\ s \in 0..MaxStates
    BY <1>1, TableAssumption DEF TableInv, TypeOK
  <1>7. \A k \in Keys : AD2PStates[k] \in 1..s
    BY <1>1, <1>6 DEF TableInv, TypeOK
  <1>8. AD2PStates' \in [Keys' -> 1..made']
    BY <1>1, <1>3, <1>6, <1>7
  <1>9. /\ IsFiniteSet(Keys) /\ Cardinality(Keys) \in Nat /\ Cardinality(Keys) <= made
        /\ Cardinality(Keys) = made => partition = [t \in 1..made |-> t]
    BY FS_CardinalityType DEF TableInv, IdsCountUp
  <1>10. IsFiniteSet(Keys') /\ Cardinality(Keys') = Cardinality(Keys) + 1
    BY <1>2, <1>3, <1>9, FS_AddElement
  <1>11. IdsCountUp'
    <2>1. ASSUME Cardinality(Keys) = made
          PROVE  partition' = [t \in 1..made' |-> t]
      <3>1. \A t \in 1..s : t # s => t \in 1..made /\ partition[t] = t
        BY <1>1, <1>6, <1>9, <2>1
      <3>2. QED
        BY <1>1, <2>1, <3>1
    <2>2. Cardinality(Keys') <= made' /\ (Cardinality(Keys') = made' => Cardinality(Keys) = made)
      BY <1>1, <1>6, <1>9, <1>10
    <2>3. QED
      BY <1>10, <2>1, <2>2 DEF IdsCountUp
  <1>12. partition' \in [1..made' -> Nat]
    <2>1. \A t \in 1..s : t # s => t \in 1..made /\ partition[t] \in Nat
      BY <1>1, <1>6 DEF TableInv, TypeOK
    <2>2. QED
      BY <1>1, <1>9, <2>1
  <1>13. made' \in 0..MaxStates /\ made <= made' /\ s \in 1..made'
    BY <1>1, <1>6
  <1>14. QED
    BY <1>4, <1>5, <1>6, <1>8, <1>11, <1>12, <1>13 DEF TableTyped

LEMMA UpdateStep ==
  ASSUME TableInv, NEW mask \in SUBSET Addresses, NEW s, Update(mask, s)
  PROVE  TableTyped(s) /\ IdsCountUp' /\ \E old : Grows(mask, old, s)
  BY UpdateFound, UpdateNew

\* The keys that a message of these masks, as sent and as read, reaches.
Reached(mask, read) == {k \in Keys : k \cap (mask \cup read) # {}}

\* The taint of a step: none if the mask is plain, else all it reaches.
Plain(mask, read) ==
  /\ read = mask /\ mask \cap tainted = {}
  /\ \A j, k \in Reached(mask, read) : j = k

TaintedBy(mask, read) ==
  tainted' = IF Plain(mask, read) THEN tainted
             ELSE tainted \cup (mask \cup read) \cup UNION Reached(mask, read)

\* What is stored under a key without taint stays there or under the grown key.
Kept ==
  \A a \in Addresses \ tainted', k \in Keys :
    a \in k => \E key \in Keys' : a \in key /\ AD2PStates'[key] = AD2PStates[k]

LEMMA GrowsPlain ==
  ASSUME TableInv, NEW mask \in SUBSET Addresses, NEW old, NEW s,
         Grows(mask, old, s), Plain(mask, mask), tainted' = tainted
  PROVE  /\ KeysAreDisjoint' /\ TaintIsWhole' /\ Kept
         /\ \E key \in Keys' : mask \subseteq key /\ AD2PStates'[key] = s
  <1> DEFINE key == old \cup mask
  <1>1. /\ Keys' = (Keys \ {old}) \cup {key} /\ AD2PStates'[key] = s
        /\ \A k \in Keys' : k # key => AD2PStates'[k] = AD2PStates[k]
    BY DEF Grows
  <1>2. \A j \in Keys \ {old} : j \cap mask = {}
    <2> SUFFICES ASSUME NEW j \in Keys, j # old, j \cap mask # {} PROVE FALSE
      OBVIOUS
    <2>1. CASE old \notin Keys
      BY <2>1 DEF Grows
    <2>2. CASE old \in Keys
      <3>1. old \cap mask # {}
        <4>1. mask # {}
          OBVIOUS
        <4>2. QED
          BY <2>2, <4>1 DEF Grows
      <3>2. j \in Reached(mask, mask) /\ old \in Reached(mask, mask)
        BY <2>2, <3>1 DEF Reached
      <3>3. QED
        BY <3>2 DEF Plain
    <2>3. QED
      BY <2>1, <2>2
  <1>3. key \cap tainted = {}
    <2>1. mask \cap tainted = {}
      BY DEF Plain
    <2>2. CASE old \in Keys
      <3>1. old \subseteq tainted => old \cap mask = {}
        BY <2>1
      <3>2. CASE old \cap mask # {}
        <4>1. old \cap tainted = {}
          BY <2>2, <3>1, <3>2 DEF TableInv, TaintIsWhole
        <4>2. QED
          BY <2>1, <4>1
      <3>3. CASE old = mask
        BY <2>1, <3>3
      <3>4. QED
        BY <2>2, <3>2, <3>3 DEF Grows
    <2>3. CASE old \notin Keys
      BY <2>1, <2>3 DEF Grows
    <2>4. QED
      BY <2>2, <2>3
  <1>4. \A j \in Keys \ {old} : j \cap key = {}
    <2> SUFFICES ASSUME NEW j \in Keys, j # old PROVE j \cap key = {}
      OBVIOUS
    <2>1. j \cap mask = {}
      BY <1>2
    <2>2. CASE old \in Keys
      <3>1. j \cap old \subseteq tainted
        BY <2>2 DEF TableInv, KeysAreDisjoint
      <3>2. j \cap old = {}
        BY <1>3, <3>1
      <3>3. QED
        BY <2>1, <3>2
    <2>3. CASE old \notin Keys
      BY <2>1, <2>3 DEF Grows
    <2>4. QED
      BY <2>2, <2>3
  <1> HIDE DEF key
  <1>5. KeysAreDisjoint'
    <2>1. ASSUME NEW j \in Keys', NEW k \in Keys', j # k
          PROVE  j \cap k \subseteq tainted
      <3>1. CASE j \in Keys \ {old} /\ k \in Keys \ {old}
        BY <2>1, <3>1 DEF TableInv, KeysAreDisjoint
      <3>2. CASE j = key \/ k = key
        BY <1>1, <1>4, <2>1, <3>2
      <3>3. QED
        BY <1>1, <3>1, <3>2
    <2>2. QED
      BY <2>1 DEF KeysAreDisjoint
  <1>6. TaintIsWhole'
    <2>1. \A k \in Keys' : k \subseteq tainted \/ k \cap tainted = {}
      BY <1>1, <1>3 DEF TableInv, TaintIsWhole
    <2>2. QED
      BY <2>1 DEF TaintIsWhole
  <1>7. Kept
    <2> SUFFICES ASSUME NEW a \in Addresses \ tainted', NEW k \in Keys, a \in k
                 PROVE  \E l \in Keys' : a \in l /\ AD2PStates'[l] = AD2PStates[k]
      BY DEF Kept
    <2>1. CASE k = old
      <3>1. a \in key /\ key \in Keys' /\ AD2PStates'[key] = AD2PStates[k]
        BY <1>1, <2>1 DEF Grows, key
      <3>2. QED
        BY <3>1
    <2>2. CASE k # old
      <3>1. k # key
        BY <1>4, <2>2
      <3>2. QED
        BY <1>1, <2>2, <3>1
    <2>3. QED
      BY <2>1, <2>2
  <1>8. key \in Keys' /\ mask \subseteq key
    BY <1>1 DEF key
  <1>9. QED
    BY <1>1, <1>5, <1>6, <1>7, <1>8

LEMMA GrowsTainted ==
  ASSUME TableInv, NEW mask \in SUBSET Addresses, NEW read \in SUBSET Addresses,
         NEW old, NEW s, Grows(read, old, s),
         tainted' = tainted \cup (mask \cup read) \cup UNION Reached(mask, read)
  PROVE  KeysAreDisjoint' /\ TaintIsWhole' /\ Kept
  <1> DEFINE key == old \cup read
  <1>1. /\ Keys' = (Keys \ {old}) \cup {key}
        /\ \A k \in Keys' : k # key => AD2PStates'[k] = AD2PStates[k]
    BY DEF Grows
  <1>2. old \subseteq tainted' /\ key \subseteq tainted'
    <2>1. CASE old \in Keys
      <3>1. CASE old \cap read # {}
        <4>1. old \in Reached(mask, read)
          BY <2>1, <3>1 DEF Reached
        <4>2. QED
          BY <4>1
      <3>2. CASE old = read
        BY <3>2
      <3>3. QED
        BY <2>1, <3>1, <3>2 DEF Grows
    <2>2. CASE old \notin Keys
      BY <2>2 DEF Grows
    <2>3. QED
      BY <2>1, <2>2
  <1>3. \A k \in Keys : k \subseteq tainted' \/ k \cap tainted' = {}
    <2> SUFFICES ASSUME NEW k \in Keys, NEW a \in k, a \notin tainted'
                 PROVE  k \cap tainted' = {}
      OBVIOUS
    <2>1. k \notin Reached(mask, read) /\ a \notin tainted
      OBVIOUS
    <2>2. k \cap (mask \cup read) = {}
      BY <2>1 DEF Reached
    <2>3. k \cap tainted = {}
      BY <2>1 DEF TableInv, TaintIsWhole
    <2>4. \A j \in Reached(mask, read) : k \cap j = {}
      <3> SUFFICES ASSUME NEW j \in Reached(mask, read) PROVE k \cap j = {}
        OBVIOUS
      <3>1. j \in Keys /\ j # k
        BY <2>1 DEF Reached
      <3>2. k \cap j \subseteq tainted
        BY <3>1 DEF TableInv, KeysAreDisjoint
      <3>3. QED
        BY <2>3, <3>2
    <2>5. QED
      BY <2>2, <2>3, <2>4
  <1> HIDE DEF key
  <1>4. TaintIsWhole'
    <2>1. \A k \in Keys' : k \subseteq tainted' \/ k \cap tainted' = {}
      BY <1>1, <1>2, <1>3
    <2>2. QED
      BY <2>1 DEF TaintIsWhole
  <1>5. KeysAreDisjoint'
    <2>1. ASSUME NEW j \in Keys', NEW k \in Keys', j # k
          PROVE  j \cap k \subseteq tainted'
      <3>1. CASE j \in Keys /\ k \in Keys
        BY <2>1, <3>1 DEF TableInv, KeysAreDisjoint
      <3>2. CASE j = key \/ k = key
        BY <1>2, <3>2
      <3>3. QED
        BY <1>1, <3>1, <3>2
    <2>2. QED
      BY <2>1 DEF KeysAreDisjoint
  <1>6. Kept
    <2> SUFFICES ASSUME NEW a \in Addresses \ tainted', NEW k \in Keys, a \in k
                 PROVE  \E l \in Keys' : a \in l /\ AD2PStates'[l] = AD2PStates[k]
      BY DEF Kept
    <2>1. k # old /\ k # key
      BY <1>2
    <2>2. QED
      BY <1>1, <2>1
  <1>7. QED
    BY <1>4, <1>5, <1>6

\* One call with update, with the taint of the message that made it.
LEMMA TableStep ==
  ASSUME TableInv, NEW mask \in SUBSET Addresses, NEW read \in SUBSET Addresses,
         NEW s, Update(read, s), TaintedBy(mask, read)
  PROVE  /\ TableTyped(s) /\ IdsCountUp' /\ KeysAreDisjoint' /\ TaintIsWhole' /\ Kept
         /\ tainted \subseteq tainted' /\ tainted' \subseteq Addresses
         /\ \A a \in mask \ tainted' : \E key \in Keys' : a \in key /\ AD2PStates'[key] = s
  <1>1. TableTyped(s) /\ IdsCountUp' /\ \E old : Grows(read, old, s)
    BY UpdateStep
  <1>2. PICK old : Grows(read, old, s)
    BY <1>1
  <1>3. tainted \subseteq Addresses /\ UNION Reached(mask, read) \subseteq Addresses
    BY DEF TableInv, TypeOK, Reached
  <1>4. CASE Plain(mask, read)
    <2>1. read = mask /\ Plain(mask, mask) /\ tainted' = tainted
      BY <1>4 DEF Plain, TaintedBy
    <2>2. /\ KeysAreDisjoint' /\ TaintIsWhole' /\ Kept
          /\ \E key \in Keys' : mask \subseteq key /\ AD2PStates'[key] = s
      BY <1>2, <2>1, GrowsPlain
    <2>3. QED
      BY <1>1, <1>3, <2>1, <2>2
  <1>5. CASE ~Plain(mask, read)
    <2>1. tainted' = tainted \cup (mask \cup read) \cup UNION Reached(mask, read)
      BY <1>5 DEF TaintedBy
    <2>2. KeysAreDisjoint' /\ TaintIsWhole' /\ Kept
      BY <1>2, <2>1, GrowsTainted
    <2>3. mask \ tainted' = {}
      BY <2>1
    <2>4. QED
      BY <1>1, <1>3, <2>1, <2>2, <2>3
  <1>6. QED
    BY <1>4, <1>5

\* An address keeps the state of its last message.
LEMMA HomeStep ==
  ASSUME TableInv, NEW mask, NEW s, Kept, tainted \subseteq tainted',
         \A a \in mask \ tainted' : \E key \in Keys' : a \in key /\ AD2PStates'[key] = s,
         \A a \in Addresses : home'[a] = home[a] \/ (a \in mask /\ home'[a] = s)
  PROVE  HomeIsStored'
  <1> SUFFICES ASSUME NEW a \in Addresses \ tainted', home'[a] # 0
               PROVE  \E k \in Keys' : a \in k /\ AD2PStates'[k] = home'[a]
    BY DEF HomeIsStored
  <1>1. CASE a \in mask /\ home'[a] = s
    BY <1>1
  <1>2. CASE home'[a] = home[a]
    <2>1. PICK k \in Keys : a \in k /\ AD2PStates[k] = home[a]
      BY <1>2 DEF TableInv, HomeIsStored
    <2>2. QED
      BY <1>2, <2>1 DEF Kept
  <1>3. QED
    BY <1>1, <1>2

\* A slot keeps the state it is stored with as long as the table's update keeps the
\* state's primary address.
LEMMA SlotStep ==
  ASSUME TableInv, Kept, tainted \subseteq tainted',
         NEW a \in configured \ tainted', \A t \in 1..made : primary'[t] = primary[t]
  PROVE  \E k \in Keys' : a \in k /\ primary'[AD2PStates'[k]] = a
  <1>1. PICK k \in Keys : a \in k /\ primary[AD2PStates[k]] = a
    BY DEF TableInv, SlotsAreStored
  <1>2. a \in Addresses
    BY TableAssumption DEF TableInv, TypeOK
  <1>3. PICK key \in Keys' : a \in key /\ AD2PStates'[key] = AD2PStates[k]
    BY <1>1, <1>2 DEF Kept
  <1>4. AD2PStates[k] \in 1..made
    BY DEF TableInv, TypeOK
  <1>5. QED
    BY <1>1, <1>3, <1>4

LEMMA TableInvInit == Init => TableInv
  <1> SUFFICES ASSUME Init PROVE TableInv
    OBVIOUS
  <1>1. Keys = {} /\ made = 0 /\ home = [a \in Addresses |-> 0] /\ tainted = {}
    BY DEF Init, Keys
  <1>2. TypeOK
    BY <1>1, TableAssumption DEF Init, TypeOK
  <1>3. KeysAreDisjoint /\ TaintIsWhole /\ HomeIsStored /\ SlotsAreStored
    BY <1>1 DEF Init, KeysAreDisjoint, TaintIsWhole, HomeIsStored, SlotsAreStored
  <1>4. IdsCountUp
    BY <1>1, FS_EmptySet DEF Init, IdsCountUp
  <1>5. QED
    BY <1>2, <1>3, <1>4 DEF TableInv

LEMMA ConfigureStep ==
  ASSUME TableInv, NEW a \in Configured, Configure(a)
  PROVE  TableInv'
  <1>1. PICK s \in 1..MaxStates :
          /\ Update({a}, s)
          /\ primary' = [t \in 1..made' |-> IF t = s THEN a
                                            ELSE IF t <= made THEN primary[t] ELSE 0]
    BY DEF Configure
  <1>2. /\ Keys = {{b} : b \in configured} /\ a \notin configured /\ tainted = {}
        /\ configured' = configured \cup {a} /\ tainted' = tainted /\ home' = home
    BY DEF Configure, TableInv, SlotsAreStored
  <1>3. ~Found({a}) /\ Reached({a}, {a}) = {}
    BY <1>2 DEF Found, Overlapping, Reached
  <1>4. Plain({a}, {a}) /\ TaintedBy({a}, {a}) /\ {a} \in SUBSET Addresses
    BY <1>2, <1>3, TableAssumption DEF Plain, TaintedBy
  <1>5. /\ TableTyped(s) /\ IdsCountUp' /\ KeysAreDisjoint' /\ TaintIsWhole' /\ Kept
        /\ \A b \in {a} \ tainted' : \E key \in Keys' : b \in key /\ AD2PStates'[key] = s
    BY <1>1, <1>4, TableStep
  <1>6. made \in Nat /\ made' \in Nat /\ made <= made'
    BY <1>5, TableAssumption DEF TableTyped
  <1>7. primary' \in [1..made' -> Addresses \cup {0}]
    BY <1>1, <1>6, TableAssumption DEF TableInv, TypeOK
  <1>8. home' \in [Addresses -> 0..made']
    BY <1>2, <1>6 DEF TableInv, TypeOK
  <1>9. HomeIsStored'
    BY <1>2, <1>5, HomeStep
  <1>10. TypeOK'
    BY <1>2, <1>5, <1>7, <1>8 DEF TableTyped, TypeOK, TableInv
  <1>11. s = made + 1 /\ made' = s /\ AD2PStates' = Stored({a}, {a}, s)
    BY <1>1, <1>3 DEF Update
  <1>12. Keys' = Keys \cup {{a}} /\ AD2PStates'[{a}] = s
    BY <1>3, <1>11 DEF Stored, Keys, Found
  <1>13. primary'[s] = a /\ \A t \in 1..made : primary'[t] = primary[t]
    BY <1>1, <1>6, <1>11
  <1>14. \A b \in configured \ tainted' : \E k \in Keys' : b \in k /\ primary'[AD2PStates'[k]] = b
    BY <1>2, <1>5, <1>13, SlotStep
  <1>15. SlotsAreStored'
    <2>1. Keys' = {{b} : b \in configured'} /\ tainted' = {}
      BY <1>2, <1>12
    <2>2. {a} \in Keys' /\ a \in {a} /\ primary'[AD2PStates'[{a}]] = a
      BY <1>12, <1>13
    <2>3. \A b \in configured' \ tainted' : \E k \in Keys' : b \in k /\ primary'[AD2PStates'[k]] = b
      BY <1>2, <1>14, <2>2
    <2>4. QED
      BY <2>1, <2>3 DEF SlotsAreStored
  <1>16. QED
    BY <1>5, <1>9, <1>10, <1>15 DEF TableInv

LEMMA AlphaStep ==
  ASSUME TableInv, NEW mask \in Masks, Alpha(mask)
  PROVE  TableInv'
  <1>1. mask \in SUBSET Addresses /\ Received(mask) \in SUBSET Addresses
    BY TableAssumption DEF Received
  <1>2. PICK s \in 1..MaxStates :
          /\ Update(Received(mask), s)
          /\ primary' = [t \in 1..made' |-> IF t <= made THEN primary[t] ELSE 0]
          /\ home' = [a \in Addresses |-> IF a \in mask THEN s ELSE home[a]]
    BY DEF Alpha
  <1>3. TaintedBy(mask, Received(mask))
    BY DEF Alpha, Taints, TaintedBy, Plain, Reached
  <1>4. /\ TableTyped(s) /\ IdsCountUp' /\ KeysAreDisjoint' /\ TaintIsWhole' /\ Kept
        /\ tainted \subseteq tainted' /\ tainted' \subseteq Addresses
        /\ \A a \in mask \ tainted' : \E key \in Keys' : a \in key /\ AD2PStates'[key] = s
    BY <1>1, <1>2, <1>3, TableStep
  <1>5. made \in Nat /\ made' \in Nat /\ made <= made' /\ s \in 1..made'
    BY <1>4, TableAssumption DEF TableTyped
  <1>6. primary' \in [1..made' -> Addresses \cup {0}]
    BY <1>2, <1>5 DEF TableInv, TypeOK
  <1>7. home' \in [Addresses -> 0..made']
    BY <1>2, <1>5 DEF TableInv, TypeOK
  <1>8. HomeIsStored'
    BY <1>2, <1>4, HomeStep
  <1>9. configured = Configured /\ configured' = configured
    BY DEF Alpha
  <1>10. TypeOK'
    BY <1>4, <1>6, <1>7, <1>9 DEF TableTyped, TypeOK
  <1>11. \A t \in 1..made : primary'[t] = primary[t]
    BY <1>2, <1>5
  <1>12. \A a \in configured \ tainted' : \E k \in Keys' : a \in k /\ primary'[AD2PStates'[k]] = a
    BY <1>4, <1>11, SlotStep
  <1>13. SlotsAreStored'
    BY <1>9, <1>12 DEF SlotsAreStored
  <1>14. QED
    BY <1>4, <1>8, <1>10, <1>13 DEF TableInv

LEMMA TableInvStep == TableInv /\ [Next]_vars => TableInv'
  <1> SUFFICES ASSUME TableInv, [Next]_vars PROVE TableInv'
    OBVIOUS
  <1>1. CASE UNCHANGED vars
    BY <1>1 DEF vars, TableInv, TypeOK, Keys, KeysAreDisjoint, TaintIsWhole, IdsCountUp,
                HomeIsStored, SlotsAreStored
  <1>2. QED
    BY <1>1, ConfigureStep, AlphaStep DEF Next

LEMMA TableProperties ==
  ASSUME TableInv
  PROVE  TypeOK /\ LookupFindsHome /\ SlotsAreSeparate
  <1>1. LookupFindsHome
    <2> SUFFICES ASSUME NEW a \in Addresses \ tainted, home[a] # 0 PROVE Lookup({a}) = home[a]
      BY DEF LookupFindsHome
    <2>1. PICK k \in Keys : a \in k /\ AD2PStates[k] = home[a]
      BY DEF TableInv, HomeIsStored
    <2>2. QED
      BY <2>1, AddressFound DEF TableInv
  <1>2. PartitionIdsAreUnique
    BY DEF TableInv, IdsCountUp, PartitionIdsAreUnique
  <1>3. SlotsAreKept
    <2> SUFFICES ASSUME NEW a \in configured \ tainted
                 PROVE  Lookup({a}) # 0 /\ primary[Lookup({a})] = a
      BY DEF SlotsAreKept
    <2>1. PICK k \in Keys : a \in k /\ primary[AD2PStates[k]] = a
      BY DEF TableInv, SlotsAreStored
    <2>2. Lookup({a}) = AD2PStates[k]
      BY <2>1, AddressFound DEF TableInv
    <2>3. AD2PStates[k] # 0
      BY TableAssumption DEF TableInv, TypeOK
    <2>4. QED
      BY <2>1, <2>2, <2>3
  <1>4. QED
    BY <1>1, <1>2, <1>3 DEF TableInv, SlotsAreSeparate

LEMMA TableInvariant == Spec => []TableInv
  BY TableInvInit, TableInvStep, PTL DEF Spec

\* Every variable keeps its type: each key of the table is a set of addresses and has a
\* state that was made, whatever masks the panel sends.
THEOREM TableTypeCorrect == Spec => []TypeOK
  BY TableInvariant, TableProperties, PTL

\* A command that looks a partition up by any of its addresses acts on the state
\* the last message for this address updated, for any masks, unless a message for it had
\* addresses of another state too or could not be read.
THEOREM LookupCorrect == Spec => []LookupFindsHome
  BY TableInvariant, TableProperties, PTL

\* Whatever masks the panel sends, no address that messages have not mixed up is in two
\* keys, its configured slot keeps the state with its primary address, and no two states
\* have the same id until one has replaced another.
THEOREM StatesAreSeparate == Spec => []SlotsAreSeparate
  BY TableInvariant, TableProperties, PTL

--------------------------------------------------------------------------------
(* The commands. *)

PanelMessages == [to : PartAddresses, keys : Kinds \cup {""}, coded : BOOLEAN]

CmdTypeOK ==
  /\ panelType \in {"A", "D"}
  /\ partAddress \in [PartSlots -> PartAddresses \cup {NoAddress}]
  /\ ad2Handle \in BOOLEAN
  /\ seenType \in [PartAddresses -> {"none", "U", panelType}]
  /\ seenArmed \in [PartAddresses -> BOOLEAN]
  /\ toPanel \in Seq(PanelMessages)
  /\ panelArmed \in [PartAddresses -> BOOLEAN]
  /\ wanted \in [PartAddresses -> BOOLEAN]
  /\ unsure \subseteq PartAddresses

\* What the message at place i of the queue will do to partition a is what is wanted: it
\* is the last one that decides, and a code that disarms a DSC panel is the only one and
\* finds it armed.
DecidedBy(i, a) ==
  /\ Decides(toPanel[i], a)
  /\ wanted[a] = (toPanel[i].keys # "disarm")
  /\ \A j \in i + 1..Len(toPanel) : ~Decides(toPanel[j], a)
  /\ toPanel[i].keys = "disarm" /\ panelType = "D" =>
       panelArmed[a] /\ \A j \in 1..i - 1 : ~Decides(toPanel[j], a)

DoneAlready(a) ==
  /\ panelArmed[a] = wanted[a]
  /\ \A i \in 1..Len(toPanel) : ~Decides(toPanel[i], a)

\* What is wanted of a partition is done by the last message that decides about it, or
\* has been done.
WantedIsOnItsWay ==
  \A a \in PartAddresses \ unsure : DoneAlready(a) \/ \E i \in 1..Len(toPanel) : DecidedBy(i, a)

CmdInv == CmdTypeOK /\ WantedIsOnItsWay

LEMMA CmdInitInv == CmdInit => CmdInv
  <1> SUFFICES ASSUME CmdInit PROVE CmdInv
    OBVIOUS
  <1>1. CmdTypeOK
    BY DEF CmdInit, CmdTypeOK
  <1>2. WantedIsOnItsWay
    BY DEF CmdInit, WantedIsOnItsWay, DoneAlready
  <1>3. QED
    BY <1>1, <1>2 DEF CmdInv

LEMMA KeysOfType ==
  ASSUME NEW kind \in Kinds, NEW a
  PROVE  KeysOf(kind, a) \in Kinds \cup {""}
  BY DEF KeysOf, Kinds

LEMMA CmdTypeStep ==
  ASSUME CmdTypeOK, [CmdNext]_cmdVars
  PROVE  CmdTypeOK'
  <1> USE DEF CmdTypeOK
  <1>1. ASSUME NEW kind \in Kinds, NEW n \in PartSlots, NEW coded \in BOOLEAN,
               Command(kind, n, coded)
        PROVE  CmdTypeOK'
    <2> DEFINE a == partAddress[n]
               m == [to |-> a, keys |-> KeysOf(kind, a), coded |-> coded \/ ~NeedsCode(kind)]
    <2>1. a \in PartAddresses /\ \E gone \in BOOLEAN : Ad2Send(m, gone)
      BY <1>1 DEF Command
    <2>2. m \in PanelMessages
      BY <2>1, KeysOfType DEF PanelMessages
    <2>3. wanted' \in [PartAddresses -> BOOLEAN] /\ unsure' \subseteq PartAddresses
      BY <1>1 DEF Command
    <2> HIDE DEF m
    <2>4. toPanel' \in Seq(PanelMessages)
      <3>1. toPanel' = Append(toPanel, m) \/ toPanel' = toPanel
        BY <2>1 DEF Ad2Send
      <3>2. toPanel \in Seq(PanelMessages)
        OBVIOUS
      <3>3. QED
        BY <2>2, <3>1, <3>2
    <2>5. QED
      BY <1>1, <2>3, <2>4 DEF Command
  <1>2. ASSUME NEW n \in PartSlots, NEW a \in PartAddresses \cup {NoAddress}, SetAddress(n, a)
        PROVE  CmdTypeOK'
    BY <1>2 DEF SetAddress
  <1>3. CASE PanelHandles
    <2>1. toPanel' \in Seq(PanelMessages) /\ Head(toPanel) \in PanelMessages
      BY <1>3 DEF PanelHandles
    <2>2. ArmedBy(Head(toPanel)) \in BOOLEAN
      BY <2>1 DEF ArmedBy
    <2>3. panelArmed' \in [PartAddresses -> BOOLEAN]
      BY <1>3, <2>2 DEF PanelHandles
    <2>4. QED
      BY <1>3, <2>1, <2>3 DEF PanelHandles
  <1>4. ASSUME NEW a \in PartAddresses, Report(a) \/ Keypad(a)
        PROVE  CmdTypeOK'
    BY <1>4 DEF Report, Keypad
  <1>5. CASE Ad2Connection
    BY <1>5 DEF Ad2Connection
  <1>6. CASE UNCHANGED cmdVars
    BY <1>6 DEF cmdVars
  <1>7. QED
    BY <1>1, <1>2, <1>3, <1>4, <1>5, <1>6 DEF CmdNext

\* A message that does not decide about b is put behind the others.
LEMMA OtherAppended ==
  ASSUME CmdTypeOK, NEW b \in PartAddresses, NEW m \in PanelMessages, ~Decides(m, b),
         toPanel' = Append(toPanel, m), panelArmed' = panelArmed, panelType' = panelType,
         wanted'[b] = wanted[b],
         DoneAlready(b) \/ \E i \in 1..Len(toPanel) : DecidedBy(i, b)
  PROVE  DoneAlready(b)' \/ \E i \in 1..Len(toPanel') : DecidedBy(i, b)'
  <1> DEFINE n == Len(toPanel)
             l == Len(toPanel')
  <1>1. /\ n \in Nat /\ l = n + 1 /\ toPanel'[l] = m
        /\ \A i \in 1..n : toPanel'[i] = toPanel[i]
    BY DEF CmdTypeOK
  <1> HIDE DEF n, l
  <1>2. /\ \A i \in 1..l : i \in 1..n \/ i = l
        /\ 1..n \subseteq 1..l
    BY <1>1
  <1>3. CASE DoneAlready(b)
    <2>1. \A i \in 1..l : ~Decides(toPanel'[i], b)
      BY <1>1, <1>2, <1>3 DEF DoneAlready, n
    <2>2. QED
      BY <1>3, <2>1 DEF DoneAlready, Decides, l
  <1>4. ASSUME NEW i \in 1..n, DecidedBy(i, b)
        PROVE  i \in 1..l /\ DecidedBy(i, b)'
    <2>1. \A j \in i + 1..l : j \in i + 1..n \/ j = l
      BY <1>1
    <2>2. \A j \in i + 1..n : j \in 1..n
      BY <1>1
    <2>3. \A j \in 1..i - 1 : j \in 1..n
      BY <1>1
    <2>4. \A j \in i + 1..l : ~Decides(toPanel'[j], b)
      BY <1>1, <1>4, <2>1, <2>2 DEF DecidedBy, n
    <2>5. i \in 1..l /\ toPanel'[i] = toPanel[i]
      BY <1>1, <1>2
    <2>6. \A j \in 1..i - 1 : toPanel'[j] = toPanel[j]
      BY <1>1, <2>3
    <2>7. QED
      BY <1>4, <2>4, <2>5, <2>6 DEF DecidedBy, Decides, l
  <1>5. QED
    BY <1>3, <1>4 DEF n, l

\* A message that decides about its partition, and that is all that is on its way to it
\* if it is the code for an armed DSC panel, is put behind the others.
LEMMA DecidingAppended ==
  ASSUME CmdTypeOK, NEW a \in PartAddresses, NEW m \in PanelMessages, Decides(m, a),
         toPanel' = Append(toPanel, m), panelArmed' = panelArmed, panelType' = panelType,
         wanted'[a] = (m.keys # "disarm"),
         m.keys = "disarm" /\ panelType = "D" =>
           panelArmed[a] /\ \A i \in 1..Len(toPanel) : ~Decides(toPanel[i], a)
  PROVE  \E i \in 1..Len(toPanel') : DecidedBy(i, a)'
  <1> DEFINE n == Len(toPanel)
  <1>1. /\ n \in Nat /\ Len(toPanel') = n + 1 /\ toPanel'[n + 1] = m
        /\ \A i \in 1..n : toPanel'[i] = toPanel[i]
    BY DEF CmdTypeOK
  <1> HIDE DEF n
  <1>2. PICK l \in 1..n + 1 : l = n + 1 /\ l + 1..l = {} /\ 1..l - 1 = 1..n
    BY <1>1
  <1>3. DecidedBy(l, a)'
    <2>1. \A j \in l + 1..Len(toPanel') : ~Decides(toPanel'[j], a)
      BY <1>1, <1>2
    <2>2. m.keys = "disarm" /\ panelType = "D" =>
            panelArmed[a] /\ \A j \in 1..l - 1 : ~Decides(toPanel'[j], a)
      BY <1>1, <1>2 DEF n
    <2>3. QED
      BY <1>1, <1>2, <2>1, <2>2 DEF DecidedBy, Decides
  <1>4. QED
    BY <1>1, <1>2, <1>3

\* A command changes what is wanted just when it decides, sends nothing only if that is
\* what the panel is already, and says when it may be wrong.
LEMMA WantedStep ==
  ASSUME CmdTypeOK, WantedIsOnItsWay,
         NEW kind \in Kinds, NEW n \in PartSlots, NEW coded \in BOOLEAN, Command(kind, n, coded)
  PROVE  WantedIsOnItsWay'
  <1> DEFINE a == partAddress[n]
             valid == coded \/ ~NeedsCode(kind)
             counts == valid /\ kind \in ArmKeys /\ seenType[a] # "U"
             outdated == panelType = "D" /\ kind = "disarm" /\ ~UpToDate(a)
             m == [to |-> a, keys |-> KeysOf(kind, a), coded |-> valid]
  <1>1. PICK gone \in BOOLEAN :
          /\ Ad2Send(m, gone)
          /\ unsure' = IF ~counts THEN unsure
                       ELSE IF gone \/ outdated THEN unsure \cup {a} ELSE unsure \ {a}
    BY DEF Command
  <1>2. /\ a \in PartAddresses /\ seenType[a] \in {"U", panelType} /\ panelType \in {"A", "D"}
        /\ wanted' = IF counts THEN [wanted EXCEPT ![a] = (kind # "disarm")] ELSE wanted
        /\ panelArmed' = panelArmed /\ panelType' = panelType
        /\ wanted \in [PartAddresses -> BOOLEAN]
    BY DEF Command, CmdTypeOK
  <1>3. m \in PanelMessages /\ m.to = a
    BY <1>2, KeysOfType DEF PanelMessages
  <1>4. /\ counts => m.coded /\ (m.keys = kind \/ (m.keys = "" /\ kind = "disarm"
                                                  /\ panelType = "D" /\ ~seenArmed[a]))
        /\ counts /\ kind = "disarm" /\ panelType = "D" /\ m.keys # "" => seenArmed[a]
        /\ ~counts => ~Decides(m, a)
    <2>1. Kinds = ArmKeys \cup {"panic", "other"} /\ "" \notin ArmKeys /\ "panic" \notin ArmKeys
      BY DEF Kinds, ArmKeys
    <2>2. m.keys = KeysOf(kind, a) /\ m.coded = valid
      OBVIOUS
    <2>3. m.keys # "" => m.keys = kind /\ (seenType[a] = "U" => kind = "panic")
      BY <2>2 DEF KeysOf
    <2>4. ~counts => ~Decides(m, a)
      BY <2>1, <2>2, <2>3 DEF Decides
    <2>5. ASSUME counts
          PROVE  /\ kind # "panic" /\ seenType[a] = panelType /\ m.coded
                 /\ m.keys = IF kind = "disarm" /\ panelType = "D" /\ ~seenArmed[a] THEN "" ELSE kind
      BY <1>2, <2>1, <2>2, <2>5 DEF KeysOf
    <2> HIDE DEF counts, m
    <2>6. kind # ""
      BY <2>1
    <2>7. QED
      BY <2>4, <2>5, <2>6
  <1>5. ASSUME NEW b \in PartAddresses \ unsure', b # a \/ ~counts
        PROVE  /\ b \in PartAddresses \ unsure /\ wanted'[b] = wanted[b] /\ ~Decides(m, b)
               /\ DoneAlready(b) \/ \E i \in 1..Len(toPanel) : DecidedBy(i, b)
    <2>1. b \in PartAddresses \ unsure /\ wanted'[b] = wanted[b]
      BY <1>1, <1>2, <1>5
    <2>2. ~Decides(m, b)
      BY <1>3, <1>4, <1>5 DEF Decides
    <2>3. QED
      BY <2>1, <2>2 DEF WantedIsOnItsWay
  <1>6. ASSUME counts, a \notin unsure'
        PROVE  ~gone /\ ~outdated
    BY <1>1, <1>6
  <1>7. wanted'[a] = (kind # "disarm") \/ ~counts
    BY <1>2
  <1>8. toPanel' = IF m.keys = "" \/ gone THEN toPanel ELSE Append(toPanel, m)
    BY <1>1 DEF Ad2Send
  <1> SUFFICES ASSUME NEW b \in PartAddresses \ unsure'
               PROVE  DoneAlready(b)' \/ \E i \in 1..Len(toPanel') : DecidedBy(i, b)'
    BY DEF WantedIsOnItsWay
  <1> HIDE DEF m, counts, outdated, a
  <1>9. CASE b # a \/ ~counts
    <2>1. /\ b \in PartAddresses \ unsure /\ wanted'[b] = wanted[b] /\ ~Decides(m, b)
          /\ DoneAlready(b) \/ \E i \in 1..Len(toPanel) : DecidedBy(i, b)
      BY <1>5, <1>9
    <2>2. CASE toPanel' = toPanel
      BY <1>2, <2>1, <2>2 DEF DoneAlready, DecidedBy, Decides
    <2>3. CASE toPanel' = Append(toPanel, m)
      BY <1>2, <1>3, <2>1, <2>3, OtherAppended
    <2>4. QED
      BY <1>8, <2>2, <2>3
  <1>10. CASE b = a /\ counts
    <2>1. ~gone /\ ~outdated /\ wanted'[a] = (kind # "disarm") /\ m.coded
      BY <1>4, <1>6, <1>7, <1>10
    <2>2. kind = "disarm" /\ panelType = "D" =>
            /\ seenArmed[a] = panelArmed[a]
            /\ \A i \in 1..Len(toPanel) : ~Decides(toPanel[i], a)
      BY <2>1 DEF outdated, UpToDate
    <2>3. CASE m.keys = ""
      <3>1. kind = "disarm" /\ panelType = "D" /\ ~seenArmed[a] /\ toPanel' = toPanel
        BY <1>4, <1>8, <1>10, <2>3 DEF counts, ArmKeys
      <3>2. panelArmed[a] \in BOOLEAN /\ seenArmed[a] \in BOOLEAN /\ wanted'[a] = FALSE
        BY <1>2, <2>1, <3>1 DEF CmdTypeOK
      <3>3. panelArmed'[b] = wanted'[b] /\ \A i \in 1..Len(toPanel') : ~Decides(toPanel'[i], b)
        BY <1>2, <1>10, <2>2, <3>1, <3>2
      <3>4. QED
        BY <3>3 DEF DoneAlready, Decides
    <2>4. CASE m.keys # ""
      <3>1. m.keys = kind /\ toPanel' = Append(toPanel, m)
        BY <1>4, <1>8, <1>10, <2>1, <2>4
      <3>2. Decides(m, a)
        BY <1>3, <1>10, <2>1, <3>1 DEF Decides, counts
      <3>3. m.keys = "disarm" /\ panelType = "D" =>
              panelArmed[a] /\ \A i \in 1..Len(toPanel) : ~Decides(toPanel[i], a)
        BY <1>4, <1>10, <2>2, <2>4, <3>1
      <3>4. /\ Decides(m, b) /\ wanted'[b] = (m.keys # "disarm")
            /\ m.keys = "disarm" /\ panelType = "D" =>
                 panelArmed[b] /\ \A i \in 1..Len(toPanel) : ~Decides(toPanel[i], b)
        BY <1>10, <2>1, <3>1, <3>2, <3>3
      <3>5. QED
        BY <1>2, <1>3, <3>1, <3>4, DecidingAppended
    <2>5. QED
      BY <2>3, <2>4
  <1>11. QED
    BY <1>9, <1>10

\* The panel does what the first message says.
LEMMA HandledStep ==
  ASSUME CmdTypeOK, WantedIsOnItsWay, PanelHandles
  PROVE  WantedIsOnItsWay'
  <1> DEFINE m == toPanel[1]
             n == Len(toPanel)
  <1>1. /\ toPanel \in Seq(PanelMessages) /\ n \in Nat \ {0}
        /\ Len(toPanel') = n - 1
        /\ \A i \in 1..n - 1 : toPanel'[i] = toPanel[i + 1]
        /\ m \in PanelMessages /\ 1 \in 1..n
    BY DEF CmdTypeOK, PanelHandles
  <1>2. UNCHANGED <<wanted, unsure, panelType>>
    BY DEF PanelHandles
  <1>3. panelArmed' = IF Decides(m, m.to) THEN [panelArmed EXCEPT ![m.to] = ArmedBy(m)]
                      ELSE panelArmed
    <2>1. Head(toPanel) = m
      BY <1>1
    <2> HIDE DEF m
    <2>2. QED
      BY <2>1 DEF PanelHandles
  <1> HIDE DEF n, m
  <1> SUFFICES ASSUME NEW a \in PartAddresses \ unsure
               PROVE  DoneAlready(a)' \/ \E i \in 1..n - 1 : DecidedBy(i, a)'
    BY <1>1, <1>2 DEF WantedIsOnItsWay
  <1>4. panelArmed'[a] = IF Decides(m, a) THEN ArmedBy(m) ELSE panelArmed[a]
    BY <1>1, <1>3 DEF Decides, CmdTypeOK, PanelMessages
  <1>5. \A i \in 1..n - 1 : i + 1 \in 1..n /\ Decides(toPanel'[i], a) = Decides(toPanel[i + 1], a)
    BY <1>1
  <1>6. CASE DoneAlready(a)
    <2>1. ~Decides(m, a) /\ \A i \in 1..n - 1 : ~Decides(toPanel'[i], a)
      BY <1>1, <1>5, <1>6 DEF DoneAlready, m, n
    <2>2. QED
      BY <1>1, <1>2, <1>4, <1>6, <2>1 DEF DoneAlready, Decides
  <1>7. ASSUME NEW i \in 1..n, DecidedBy(i, a)
        PROVE  DoneAlready(a)' \/ \E k \in 1..n - 1 : DecidedBy(k, a)'
    <2>1. CASE i = 1
      <3>1. Decides(m, a) /\ wanted[a] = (m.keys # "disarm")
            /\ (m.keys = "disarm" /\ panelType = "D" => panelArmed[a])
            /\ \A j \in 2..n : ~Decides(toPanel[j], a)
        BY <1>7, <2>1 DEF DecidedBy, m, n
      <3>2. ArmedBy(m) = wanted[a]
        BY <1>1, <3>1 DEF ArmedBy, Decides, CmdTypeOK
      <3>3. \A k \in 1..n - 1 : k + 1 \in 2..n
        BY <1>1
      <3>4. \A k \in 1..n - 1 : ~Decides(toPanel'[k], a)
        BY <1>5, <3>1, <3>3
      <3>5. DoneAlready(a)'
        BY <1>1, <1>2, <1>4, <3>1, <3>2, <3>4 DEF DoneAlready, Decides
      <3>6. QED
        BY <3>5
    <2>2. CASE i # 1
      <3> DEFINE k == i - 1
      <3>1. k \in 1..n - 1 /\ k + 1 = i /\ toPanel'[k] = toPanel[i]
        BY <1>1, <2>2
      <3>2. \A j \in k + 1..n - 1 : j \in 1..n - 1 /\ j + 1 \in i + 1..n
        BY <1>1, <3>1
      <3>3. \A j \in 1..k - 1 : j \in 1..n - 1 /\ j + 1 \in 1..i - 1
        BY <1>1, <3>1
      <3>4. 1 \in 1..i - 1
        BY <1>1, <2>2
      <3> HIDE DEF k
      <3>5. \A j \in k + 1..n - 1 : ~Decides(toPanel'[j], a)
        BY <1>5, <1>7, <3>2 DEF DecidedBy, n
      <3>6. ASSUME toPanel'[k].keys = "disarm", panelType = "D"
            PROVE  panelArmed'[a] /\ \A j \in 1..k - 1 : ~Decides(toPanel'[j], a)
        <4>1. panelArmed[a] /\ \A j \in 1..i - 1 : ~Decides(toPanel[j], a)
          BY <1>7, <3>1, <3>6 DEF DecidedBy
        <4>2. ~Decides(m, a)
          BY <3>4, <4>1 DEF m
        <4>3. QED
          BY <1>4, <1>5, <3>3, <4>1, <4>2
      <3>7. Decides(toPanel'[k], a) /\ wanted[a] = (toPanel'[k].keys # "disarm")
        BY <1>7, <3>1 DEF DecidedBy
      <3>8. DecidedBy(k, a)'
        BY <1>1, <1>2, <3>5, <3>6, <3>7 DEF DecidedBy, Decides
      <3>9. QED
        BY <3>1, <3>8
    <2>3. QED
      BY <2>1, <2>2
  <1>8. QED
    BY <1>6, <1>7 DEF WantedIsOnItsWay, n

\* The last command given for a partition wins, on both types of panel, whatever slots and
\* addresses the commands came by: unless its message was lost, a keypad has changed the
\* partition since, or a DSC panel was to be disarmed before it reported its last change.
THEOREM LastCommandWon == CmdSpec => []LastCommandWins
  <1>1. CmdInv /\ [CmdNext]_cmdVars => CmdInv'
    <2> SUFFICES ASSUME CmdTypeOK, CmdTypeOK', WantedIsOnItsWay, [CmdNext]_cmdVars
                 PROVE  WantedIsOnItsWay'
      BY CmdTypeStep DEF CmdInv
    <2>1. ASSUME NEW kind \in Kinds, NEW n \in PartSlots, NEW coded \in BOOLEAN,
                 Command(kind, n, coded)
          PROVE  WantedIsOnItsWay'
      BY <2>1, WantedStep
    <2>2. CASE PanelHandles
      BY <2>2, HandledStep
    <2>3. CASE UNCHANGED <<panelType, toPanel, panelArmed, wanted, unsure>>
      BY <2>3 DEF WantedIsOnItsWay, DoneAlready, DecidedBy, Decides
    <2>4. ASSUME NEW a \in PartAddresses, Keypad(a)
          PROVE  WantedIsOnItsWay'
      <3> SUFFICES ASSUME NEW b \in PartAddresses \ unsure'
                   PROVE  DoneAlready(b)' \/ \E i \in 1..Len(toPanel') : DecidedBy(i, b)'
        BY DEF WantedIsOnItsWay
      <3>1. /\ b \in PartAddresses \ unsure /\ panelArmed'[b] = panelArmed[b]
            /\ UNCHANGED <<panelType, toPanel, wanted>>
        BY <2>4 DEF Keypad, CmdTypeOK
      <3>2. QED
        BY <3>1 DEF WantedIsOnItsWay, DoneAlready, DecidedBy, Decides
    <2>5. QED
      BY <2>1, <2>2, <2>3, <2>4 DEF CmdNext, SetAddress, Report, Ad2Connection, cmdVars
  <1>2. CmdInv => LastCommandWins
    <2>1. toPanel = <<>> => 1..Len(toPanel) = {}
      OBVIOUS
    <2>2. QED
      BY <2>1 DEF CmdInv, LastCommandWins, WantedIsOnItsWay, DoneAlready
  <1>3. QED
    BY <1>1, <1>2, CmdInitInv, PTL DEF CmdSpec

--------------------------------------------------------------------------------
(* What the callbacks of the parser send. *)

\* An alert that stands was raised after the key was sent last; settings are sent only
\* by a boot that then protects itself.
CbInv ==
  /\ clock \in Nat \ {0} /\ _last_faults_alert \in 0..clock
  /\ starAt \in {Never} \cup 1..clock
  /\ _last_faults_alert # 0 => starAt <= _last_faults_alert
  /\ protectMode \in BOOLEAN /\ configFits \in BOOLEAN
  /\ synced = IF protectMode THEN 1 ELSE 0

LEMMA CbStep ==
  ASSUME CbInv, [CbNext]_cbVars
  PROVE  /\ CbInv'
         /\ starAt' # starAt /\ starAt # Never => clock - starAt > 1
         /\ synced' <= 1
  <1> USE CallbacksAssumption DEF CbInv, Never
  <1>1. CASE Passes
    BY <1>1 DEF Passes, config
  <1>2. CASE FaultsMessage
    BY <1>2 DEF FaultsMessage, TimedOut, config
  <1>3. CASE OtherMessage
    BY <1>3 DEF OtherMessage, TimedOut, config
  <1>4. CASE ConfigReport
    <2>1. CASE configFits \/ protectMode
      BY <1>4, <2>1 DEF ConfigReport, faults
    <2>2. CASE ~configFits /\ ~protectMode
      <3>1. protectMode' = TRUE /\ synced' = 1 /\ UNCHANGED <<faults, configFits>>
        BY <1>4, <2>2 DEF ConfigReport
      <3>2. QED
        BY <3>1 DEF faults
    <2>3. QED
      BY <2>1, <2>2
  <1>5. CASE ConfigChanges
    BY <1>5 DEF ConfigChanges, faults
  <1>6. CASE UNCHANGED cbVars
    BY <1>6 DEF cbVars, faults, config
  <1>7. QED
    BY <1>1, <1>2, <1>3, <1>4, <1>5, <1>6 DEF CbNext

\* The key for the faults is not sent twice within five seconds, and the settings once
\* in a boot, whatever the panel and the AD2* report and however often.
THEOREM PanelSpared == CbSpec => PanelIsSpared
  <1>1. CbInit => CbInv
    <2> SUFFICES ASSUME CbInit PROVE CbInv
      OBVIOUS
    <2>1. protectMode = FALSE /\ synced = 0
      BY DEF CbInit
    <2>2. synced = IF protectMode THEN 1 ELSE 0
      BY <2>1
    <2>3. protectMode \in BOOLEAN /\ configFits \in BOOLEAN
      BY DEF CbInit
    <2>4. /\ clock \in Nat \ {0} /\ _last_faults_alert \in 0..clock
          /\ starAt \in {Never} \cup 1..clock
          /\ _last_faults_alert # 0 => starAt <= _last_faults_alert
      BY DEF CbInit, Never
    <2>5. QED
      BY <2>2, <2>3, <2>4 DEF CbInv
  <1>2. CbInv /\ [CbNext]_cbVars => CbInv'
    BY CbStep
  <1>3. CbInv /\ [CbNext]_cbVars =>
          [/\ starAt' # starAt /\ starAt # Never => clock - starAt > 1
           /\ synced' <= 1]_cbVars
    BY CbStep
  <1>4. QED
    BY <1>1, <1>2, <1>3, PTL DEF CbSpec, PanelIsSpared

--------------------------------------------------------------------------------
(* Rings of R slots, filled one after another. *)

\* The slot d places before slot h, and the slot d places after it.
Back(R, h, d)  == IF d <= h THEN h - d ELSE h + R - d
Ahead(R, h, d) == IF h + d < R THEN h + d ELSE h + d - R

LEMMA Wraps ==
  ASSUME NEW R \in Nat \ {0}, NEW n \in Nat, n < 2 * R
  PROVE  n % R = IF n < R THEN n ELSE n - R
  <1>1. ASSUME NEW m \in Nat, m < R
        PROVE  m % R = m /\ (m + R) % R = m
    BY <1>1
  <1>2. CASE n < R
    BY <1>1, <1>2
  <1>3. CASE n >= R
    <2>1. n - R \in Nat /\ n - R < R /\ n = (n - R) + R
      BY <1>3
    <2>2. n % R = n - R
      BY <1>1, <2>1
    <2>3. QED
      BY <1>3, <2>2
  <1>4. QED
    BY <1>2, <1>3

\* Going round the ring.
LEMMA Slots ==
  ASSUME NEW R \in Nat \ {0}, NEW h \in 0..R - 1
  PROVE  /\ \A d \in 1..R : Back(R, h, d) \in 0..R - 1
         /\ \A d, e \in 1..R : Back(R, h, d) = Back(R, h, e) => d = e
         /\ Back(R, h, R) = h
         /\ \A d \in 0..R - 1 : Ahead(R, h, d) = Back(R, h, R - d)
         /\ Ahead(R, h, 0) = h
         /\ Ahead(R, h, 1) \in 0..R - 1 /\ (h + 1) % R = Ahead(R, h, 1)
         /\ Back(R, Ahead(R, h, 1), 1) = h
         /\ \A d \in 2..R : Back(R, Ahead(R, h, 1), d) = Back(R, h, d - 1)
         /\ \A d \in 0..R - 2 : Ahead(R, Ahead(R, h, d), 1) = Ahead(R, h, d + 1)
         /\ \A d \in 1..R : (h + R - d) % R = Back(R, h, d)
  <1>0. \A n \in Nat : n < 2 * R => n % R = IF n < R THEN n ELSE n - R
    BY Wraps
  <1>1. \A d \in 1..R : Back(R, h, d) \in 0..R - 1
    BY DEF Back
  <1>2. \A d, e \in 1..R : Back(R, h, d) = Back(R, h, e) => d = e
    BY DEF Back
  <1>3. Back(R, h, R) = h
    BY DEF Back
  <1>4. \A d \in 0..R - 1 : Ahead(R, h, d) = Back(R, h, R - d)
    BY DEF Back, Ahead
  <1>5. Ahead(R, h, 0) = h /\ Ahead(R, h, 1) \in 0..R - 1
    BY DEF Ahead
  <1>6. (h + 1) % R = Ahead(R, h, 1)
    <2>1. h + 1 \in Nat /\ h + 1 < 2 * R
      OBVIOUS
    <2>2. (h + 1) % R = IF h + 1 < R THEN h + 1 ELSE h + 1 - R
      BY <1>0, <2>1
    <2>3. QED
      BY <2>2 DEF Ahead
  <1>7. Back(R, Ahead(R, h, 1), 1) = h
    BY DEF Back, Ahead
  <1>8. \A d \in 2..R : Back(R, Ahead(R, h, 1), d) = Back(R, h, d - 1)
    BY DEF Back, Ahead
  <1>9. \A d \in 0..R - 2 : Ahead(R, Ahead(R, h, d), 1) = Ahead(R, h, d + 1)
    BY DEF Ahead
  <1>10. ASSUME NEW d \in 1..R
         PROVE  (h + R - d) % R = Back(R, h, d)
    <2>1. h + R - d \in Nat /\ h + R - d < 2 * R
      OBVIOUS
    <2>2. (h + R - d) % R
            = IF h + R - d < R THEN h + R - d ELSE h + R - d - R
      BY <1>0, <2>1
    <2>3. QED
      BY <2>2 DEF Back
  <1>11. QED
    BY <1>1, <1>2, <1>3, <1>4, <1>5, <1>6, <1>7, <1>8, <1>9, <1>10

--------------------------------------------------------------------------------
(* The log: nothing is lost unseen. *)

LEMMA LogConstants ==
  RingSize \in Nat \ {0} /\ QueueSize \in Nat \ {0} /\ MaxBytes \in Nat \ {0} /\ MaxLines \in Nat \ {0}
  BY SdLogAssumption

Increasing(s) == \A i, j \in 1..Len(s) : i < j => s[i] < s[j]
Before(s, t) == \A i \in 1..Len(s), j \in 1..Len(t) : s[i] < t[j]
UpTo(s, n) == \A i \in 1..Len(s) : s[i] <= n

\* The lines in the two files and in the queue are in the order they were logged.
FilesInv ==
  /\ lines \in Nat /\ fileOpen \in BOOLEAN /\ fileSize \in Nat
  /\ oldFile \in Seq(Nat) /\ logFile \in Seq(Nat) /\ logQueue \in Seq(Nat)
  /\ Increasing(oldFile) /\ Increasing(logFile) /\ Increasing(logQueue)
  /\ Before(oldFile, logFile) /\ Before(oldFile, logQueue) /\ Before(logFile, logQueue)
  /\ UpTo(oldFile, lines) /\ UpTo(logFile, lines) /\ UpTo(logQueue, lines)
  /\ Len(oldFile) <= MaxBytes /\ Len(logFile) <= MaxBytes
  /\ fileOpen => fileSize = Len(logFile)

CountersInv ==
  /\ dropped \in Nat /\ writeErrors \in Nat /\ missing \in Nat
  /\ MissingIsCounted

LEMMA Appended ==
  ASSUME NEW s \in Seq(Nat), NEW n \in Nat
  PROVE  /\ Append(s, n) \in Seq(Nat) /\ Len(Append(s, n)) = Len(s) + 1
         /\ Increasing(s) /\ (\A i \in 1..Len(s) : s[i] < n) => Increasing(Append(s, n))
         /\ \A t \in Seq(Nat) : Before(t, s) /\ (\A i \in 1..Len(t) : t[i] < n) => Before(t, Append(s, n))
         /\ \A t \in Seq(Nat) : Before(s, t) /\ (\A i \in 1..Len(t) : n < t[i]) => Before(Append(s, n), t)
         /\ \A m \in Nat : UpTo(s, m) /\ n <= m => UpTo(Append(s, n), m)
  <1> DEFINE a == Append(s, n)
  <1>1. /\ a \in Seq(Nat) /\ Len(a) = Len(s) + 1 /\ a[Len(s) + 1] = n
        /\ \A i \in 1..Len(s) : a[i] = s[i]
        /\ Len(s) \in Nat /\ \A i \in 1..Len(s) : s[i] \in Nat
    OBVIOUS
  <1> HIDE DEF a
  <1>7. \A i \in 1..Len(a) : i \in 1..Len(s) \/ i = Len(s) + 1
    BY <1>1
  <1>2. ASSUME Increasing(s), \A i \in 1..Len(s) : s[i] < n
        PROVE  Increasing(a)
    <2> SUFFICES ASSUME NEW i \in 1..Len(a), NEW j \in 1..Len(a), i < j
                 PROVE  a[i] < a[j]
      BY DEF Increasing
    <2>1. i \in 1..Len(s)
      BY <1>1
    <2>2. CASE j \in 1..Len(s)
      BY <1>1, <1>2, <2>1, <2>2 DEF Increasing
    <2>3. CASE j = Len(s) + 1
      BY <1>1, <1>2, <2>1, <2>3
    <2>4. QED
      BY <1>7, <2>2, <2>3
  <1>3. ASSUME NEW t \in Seq(Nat), Before(t, s), \A i \in 1..Len(t) : t[i] < n
        PROVE  Before(t, a)
    <2> SUFFICES ASSUME NEW i \in 1..Len(t), NEW j \in 1..Len(a)
                 PROVE  t[i] < a[j]
      BY DEF Before
    <2>1. CASE j \in 1..Len(s)
      BY <1>1, <1>3, <2>1 DEF Before
    <2>2. CASE j = Len(s) + 1
      BY <1>1, <1>3, <2>2
    <2>3. QED
      BY <1>7, <2>1, <2>2
  <1>4. ASSUME NEW t \in Seq(Nat), Before(s, t), \A i \in 1..Len(t) : n < t[i]
        PROVE  Before(a, t)
    <2> SUFFICES ASSUME NEW i \in 1..Len(a), NEW j \in 1..Len(t)
                 PROVE  a[i] < t[j]
      BY DEF Before
    <2>1. CASE i \in 1..Len(s)
      BY <1>1, <1>4, <2>1 DEF Before
    <2>2. CASE i = Len(s) + 1
      BY <1>1, <1>4, <2>2
    <2>3. QED
      BY <1>7, <2>1, <2>2
  <1>5. \A m \in Nat : UpTo(s, m) /\ n <= m => UpTo(a, m)
    BY <1>1 DEF UpTo
  <1>6. QED
    BY <1>1, <1>2, <1>3, <1>4, <1>5 DEF a

LEMMA Grown ==
  ASSUME NEW s \in Seq(Nat), NEW m \in Nat, UpTo(s, m)
  PROVE  UpTo(s, m + 1) /\ \A i \in 1..Len(s) : s[i] < m + 1
  <1>1. \A i \in 1..Len(s) : s[i] \in Nat
    OBVIOUS
  <1>2. QED
    BY <1>1 DEF UpTo

\* What the task has taken comes before what waits, and after what is in the files.
LEMMA Taken ==
  ASSUME FilesInv, Takes
  PROVE  /\ Line \in Nat /\ Line <= lines /\ lines' = lines
         /\ logQueue' \in Seq(Nat) /\ Increasing(logQueue') /\ UpTo(logQueue', lines)
         /\ \A s \in Seq(Nat) : Before(s, logQueue) =>
              Before(s, logQueue') /\ \A i \in 1..Len(s) : s[i] < Line
         /\ \A i \in 1..Len(logQueue') : Line < logQueue'[i]
  <1>1. /\ logQueue \in Seq(Nat) /\ logQueue # <<>> /\ logQueue' = Tail(logQueue)
        /\ UNCHANGED lines /\ Line = logQueue[1]
    BY DEF Takes, FilesInv, Line, ringVars
  <1>2. /\ Len(logQueue) \in Nat \ {0} /\ Len(logQueue') = Len(logQueue) - 1
        /\ logQueue' \in Seq(Nat)
        /\ \A i \in 1..Len(logQueue) - 1 : logQueue'[i] = logQueue[i + 1]
        /\ \A i \in 1..Len(logQueue) : logQueue[i] \in Nat
    BY <1>1
  <1>3. Line \in Nat /\ Line <= lines
    BY <1>1, <1>2 DEF FilesInv, UpTo
  <1>4. Increasing(logQueue') /\ UpTo(logQueue', lines)
    <2>1. /\ \A i, j \in 1..Len(logQueue) : i < j => logQueue[i] < logQueue[j]
          /\ \A i \in 1..Len(logQueue) : logQueue[i] <= lines
      BY DEF FilesInv, Increasing, UpTo
    <2>2. \A i \in 1..Len(logQueue') : i \in 1..Len(logQueue) - 1 /\ i + 1 \in 1..Len(logQueue)
      BY <1>2
    <2>3. \A i \in 1..Len(logQueue') : logQueue'[i] = logQueue[i + 1]
      BY <1>2, <2>2
    <2>4. UpTo(logQueue', lines)
      BY <2>1, <2>2, <2>3 DEF UpTo
    <2>5. ASSUME NEW i \in 1..Len(logQueue'), NEW j \in 1..Len(logQueue'), i < j
          PROVE  logQueue'[i] < logQueue'[j]
      <3>1. i + 1 < j + 1
        BY <1>2, <2>5
      <3>2. QED
        BY <2>1, <2>2, <2>3, <3>1
    <2>6. QED
      BY <2>4, <2>5 DEF Increasing
  <1>5. \A i \in 1..Len(logQueue') : Line < logQueue'[i]
    BY <1>1, <1>2 DEF FilesInv, Increasing
  <1>6. ASSUME NEW s \in Seq(Nat), Before(s, logQueue)
        PROVE  Before(s, logQueue') /\ \A i \in 1..Len(s) : s[i] < Line
    BY <1>1, <1>2, <1>6 DEF Before
  <1>7. QED
    BY <1>1, <1>2, <1>3, <1>4, <1>5, <1>6

LEMMA NothingBefore ==
  ASSUME NEW s \in Seq(Nat), NEW n \in Nat
  PROVE  /\ <<>> \in Seq(Nat) /\ Increasing(<<>>) /\ Before(<<>>, s) /\ Before(s, <<>>)
         /\ UpTo(<<>>, n) /\ Len(<<>>) = 0
  BY DEF Increasing, Before, UpTo

LEMMA FilesStep ==
  ASSUME FilesInv, CountersInv, [LogNext]_logVars
  PROVE  FilesInv' /\ CountersInv'
  <1> USE LogConstants
  <1>1. ASSUME UNCHANGED <<lines, fileOpen, fileSize, oldFile, logFile, logQueue, dropped,
                           writeErrors, missing>>
        PROVE  FilesInv' /\ CountersInv'
    BY <1>1 DEF FilesInv, CountersInv, MissingIsCounted, Increasing, Before, UpTo
  <1>2. CASE Capture
    <2>1. lines' = lines + 1 /\ lines \in Nat
      BY <1>2 DEF Capture, FilesInv
    <2>2. UNCHANGED <<fileOpen, fileSize, oldFile, logFile>>
      BY <1>2 DEF Capture, fileVars
    <2>3. /\ UpTo(oldFile, lines') /\ UpTo(logFile, lines') /\ UpTo(logQueue, lines')
          /\ \A i \in 1..Len(oldFile) : oldFile[i] < lines'
          /\ \A i \in 1..Len(logFile) : logFile[i] < lines'
          /\ \A i \in 1..Len(logQueue) : logQueue[i] < lines'
      BY <2>1, Grown DEF FilesInv
    <2>4. CASE logQueue' = Append(logQueue, lines') /\ UNCHANGED <<dropped, missing, writeErrors>>
      <3>1. /\ logQueue' \in Seq(Nat) /\ Increasing(logQueue')
            /\ Before(oldFile, logQueue') /\ Before(logFile, logQueue') /\ UpTo(logQueue', lines')
        <4>1. logQueue \in Seq(Nat) /\ lines' \in Nat /\ lines' <= lines'
          BY <2>1 DEF FilesInv
        <4>2. /\ oldFile \in Seq(Nat) /\ logFile \in Seq(Nat) /\ Increasing(logQueue)
              /\ Before(oldFile, logQueue) /\ Before(logFile, logQueue)
          BY DEF FilesInv
        <4>3. logQueue' = Append(logQueue, lines')
          BY <2>4
        <4>4. QED
          BY <2>3, <4>1, <4>2, <4>3, Appended
      <3>2. QED
        BY <2>1, <2>2, <2>3, <2>4, <3>1 DEF FilesInv, CountersInv, MissingIsCounted
    <2>5. CASE /\ logQueue' = logQueue /\ writeErrors' = writeErrors
               /\ \/ dropped' = dropped + 1 /\ missing' = missing + 1
                  \/ UNCHANGED <<dropped, missing>>
      BY <2>1, <2>2, <2>3, <2>5 DEF FilesInv, CountersInv, MissingIsCounted
    <2>6. QED
      BY <1>2, <2>4, <2>5 DEF Capture
  <1>3. ASSUME Takes,
               logFile' \in Seq(Nat), Increasing(logFile'), Before(logFile', logQueue'),
               UpTo(logFile', lines), Len(logFile') <= MaxBytes,
               oldFile' \in Seq(Nat), Increasing(oldFile'), Before(oldFile', logQueue'),
               UpTo(oldFile', lines), Len(oldFile') <= MaxBytes, Before(oldFile', logFile'),
               fileOpen' \in BOOLEAN, fileSize' \in Nat, fileOpen' => fileSize' = Len(logFile')
        PROVE  FilesInv'
    BY <1>3, Taken DEF FilesInv
  <1>4. ASSUME Takes, UNCHANGED <<writeErrors, missing>> \/
                      (missing' = missing + 1 /\ writeErrors' \in {writeErrors + 1, writeErrors + 2})
                      \/ (missing' = missing /\ writeErrors' = writeErrors + 1)
        PROVE  CountersInv'
    BY <1>4 DEF Takes, CountersInv, MissingIsCounted
  <1>5. Size = Len(logFile) /\ Size \in Nat
    BY DEF Size, FilesInv
  <1>6. ASSUME Takes, UNCHANGED <<oldFile, logFile>>
        PROVE  /\ logFile' \in Seq(Nat) /\ Increasing(logFile') /\ Before(logFile', logQueue')
               /\ UpTo(logFile', lines) /\ Len(logFile') <= MaxBytes
               /\ oldFile' \in Seq(Nat) /\ Increasing(oldFile') /\ Before(oldFile', logQueue')
               /\ UpTo(oldFile', lines) /\ Len(oldFile') <= MaxBytes /\ Before(oldFile', logFile')
    BY <1>6, Taken DEF FilesInv
  <1>7. CASE Discards
    BY <1>3, <1>4, <1>6, <1>7 DEF Discards, fileVars, FilesInv
  <1>8. CASE OpenFails
    BY <1>3, <1>4, <1>6, <1>8 DEF OpenFails, fileVars, FilesInv
  <1>9. CASE Writes
    <2>1. Takes /\ fileOpen' = TRUE /\ oldFile' = oldFile /\ Size + 1 <= MaxBytes
      BY <1>5, <1>9 DEF Writes, Full
    <2>2. CountersInv'
      BY <1>4, <1>9 DEF Writes
    <2>3. CASE logFile' = Append(logFile, Line) /\ fileSize' = Size + 1
      <3>1. /\ logFile' \in Seq(Nat) /\ Increasing(logFile') /\ Before(logFile', logQueue')
            /\ UpTo(logFile', lines) /\ Before(oldFile', logFile') /\ Len(logFile') = Len(logFile) + 1
        BY <2>1, <2>3, Taken, Appended DEF FilesInv
      <3>2. /\ oldFile' \in Seq(Nat) /\ Increasing(oldFile') /\ Before(oldFile', logQueue')
            /\ UpTo(oldFile', lines) /\ Len(oldFile') <= MaxBytes
        BY <2>1, Taken DEF FilesInv
      <3>3. QED
        BY <1>3, <1>5, <2>1, <2>2, <2>3, <3>1, <3>2
    <2>4. CASE logFile' = logFile /\ fileSize' = Size
      BY <1>3, <1>5, <1>6, <2>1, <2>2, <2>4
    <2>5. QED
      BY <1>9, <2>3, <2>4 DEF Writes
  <1>10. ASSUME Takes, oldFile' = logFile
         PROVE  /\ oldFile' \in Seq(Nat) /\ Increasing(oldFile') /\ Before(oldFile', logQueue')
                /\ UpTo(oldFile', lines) /\ Len(oldFile') <= MaxBytes
                /\ \A i \in 1..Len(oldFile') : oldFile'[i] < Line
    BY <1>10, Taken DEF FilesInv
  <1>11. CASE Rotates
    <2>1. Takes /\ oldFile' = logFile /\ logFile' = <<Line>> /\ fileOpen' = TRUE /\ fileSize' = 1
      BY <1>11 DEF Rotates
    <2>2. Line \in Nat /\ Line <= lines /\ \A i \in 1..Len(logQueue') : Line < logQueue'[i]
      BY <2>1, Taken
    <2>3. logFile' \in Seq(Nat) /\ Len(logFile') = 1 /\ logFile'[1] = Line
      BY <2>1, <2>2
    <2>4. /\ Increasing(logFile') /\ Before(logFile', logQueue') /\ UpTo(logFile', lines)
          /\ Before(oldFile', logFile')
      BY <1>10, <2>1, <2>2, <2>3 DEF Increasing, Before, UpTo
    <2>5. Len(logFile') <= MaxBytes
      BY <2>3
    <2>6. QED
      BY <1>3, <1>4, <1>10, <1>11, <2>1, <2>3, <2>4, <2>5 DEF Rotates
  <1>12. CASE RotateFails
    <2>1. Takes /\ oldFile' = logFile /\ logFile' = <<>> /\ fileOpen' = FALSE /\ fileSize' = 0
      BY <1>12 DEF RotateFails
    <2>2. /\ logFile' \in Seq(Nat) /\ Increasing(logFile') /\ Before(logFile', logQueue')
          /\ UpTo(logFile', lines) /\ Before(oldFile', logFile') /\ Len(logFile') <= MaxBytes
      <3>1. logQueue' \in Seq(Nat) /\ lines \in Nat /\ oldFile' \in Seq(Nat)
        BY <1>10, <2>1, Taken DEF FilesInv
      <3>2. MaxBytes >= 0
        OBVIOUS
      <3>3. QED
        BY <2>1, <3>1, <3>2, NothingBefore
    <2>3. QED
      <3>1. fileOpen' \in BOOLEAN /\ fileSize' \in Nat /\ (fileOpen' => fileSize' = Len(logFile'))
        BY <2>1
      <3>2. FilesInv'
        BY <1>3, <1>10, <2>1, <2>2, <3>1
      <3>3. CountersInv'
        BY <1>4, <1>12 DEF RotateFails
      <3>4. QED
        BY <3>2, <3>3
  <1>13. CASE RenameFails
    <2>1. /\ Takes /\ oldFile' = <<>> /\ logFile' = logFile /\ fileSize' = Size
          /\ fileOpen' \in BOOLEAN
      BY <1>13 DEF RenameFails
    <2>2. /\ oldFile' \in Seq(Nat) /\ Increasing(oldFile') /\ Before(oldFile', logQueue')
          /\ UpTo(oldFile', lines) /\ Len(oldFile') <= MaxBytes /\ Before(oldFile', logFile')
      BY <2>1, Taken, NothingBefore DEF FilesInv
    <2>3. /\ logFile' \in Seq(Nat) /\ Increasing(logFile') /\ Before(logFile', logQueue')
          /\ UpTo(logFile', lines) /\ Len(logFile') <= MaxBytes
      BY <2>1, Taken DEF FilesInv
    <2>4. QED
      BY <1>3, <1>4, <1>5, <1>13, <2>1, <2>2, <2>3 DEF RenameFails
  <1>14. CASE ClosesFile
    BY <1>14 DEF ClosesFile, ringVars, FilesInv, CountersInv, MissingIsCounted, Increasing, Before, UpTo
  <1>15. CASE \E b \in BOOLEAN : SetEnabled(b)
    BY <1>1, <1>15 DEF SetEnabled, ringVars, fileVars
  <1>16. CASE (\E limit \in 1..RingSize : ViewBegins(limit)) \/ ViewReads \/ ViewEnds
    BY <1>1, <1>16 DEF ViewBegins, ViewReads, ViewEnds, ringVars, fileVars
  <1>17. CASE UNCHANGED logVars
    BY <1>1, <1>17 DEF logVars, ringVars, fileVars
  <1>18. QED
    BY <1>2, <1>7, <1>8, <1>9, <1>11, <1>12, <1>13, <1>14, <1>15, <1>16, <1>17 DEF LogNext

Views == [at : {"rest", "read"}, newest : Nat, count : 0..RingSize, head : 0..RingSize - 1,
          offset : Nat, items : Seq(Nat)]

\* Going back from the head, the ring holds the newest lines.
RingInv ==
  /\ lines \in Nat
  /\ logRing \in [0..RingSize - 1 -> Nat]
  /\ logHead \in 0..RingSize - 1 /\ logCount \in 0..RingSize
  /\ \A d \in 1..logCount : logRing[Back(RingSize, logHead, d)] = lines + 1 - d

\* What a reader's slots hold: the line that was there when it began, until
\* RingSize + 1 - d lines have come since, and a later one from then on.
ViewInv ==
  LET since == lines - viewer.newest
  IN /\ viewer \in Views
     /\ viewer.at = "rest" => viewer.items = <<>>
     /\ viewer.at = "read" =>
          /\ viewer.newest <= lines /\ viewer.offset <= viewer.count
          /\ Len(viewer.items) = viewer.offset
          /\ since < RingSize => logHead = Ahead(RingSize, viewer.head, since)
          /\ \A d \in 1..viewer.count :
               IF since + d <= RingSize
               THEN logRing[Back(RingSize, viewer.head, d)] = viewer.newest + 1 - d
               ELSE logRing[Back(RingSize, viewer.head, d)] > viewer.newest
          /\ \A i \in 1..viewer.offset :
               \/ viewer.items[i] = viewer.newest + 1 - i
               \/ since + i > RingSize
                  /\ \A j \in i..viewer.offset : viewer.items[j] > viewer.newest

LEMMA LogSlots ==
  ASSUME NEW h \in 0..RingSize - 1
  PROVE  /\ \A d \in 1..RingSize : Back(RingSize, h, d) \in 0..RingSize - 1
         /\ \A d, e \in 1..RingSize : Back(RingSize, h, d) = Back(RingSize, h, e) => d = e
         /\ Back(RingSize, h, RingSize) = h
         /\ \A d \in 0..RingSize - 1 : Ahead(RingSize, h, d) = Back(RingSize, h, RingSize - d)
         /\ Ahead(RingSize, h, 0) = h
         /\ Ahead(RingSize, h, 1) \in 0..RingSize - 1 /\ (h + 1) % RingSize = Ahead(RingSize, h, 1)
         /\ Back(RingSize, Ahead(RingSize, h, 1), 1) = h
         /\ \A d \in 2..RingSize : Back(RingSize, Ahead(RingSize, h, 1), d) = Back(RingSize, h, d - 1)
         /\ \A d \in 0..RingSize - 2 : Ahead(RingSize, Ahead(RingSize, h, d), 1) = Ahead(RingSize, h, d + 1)
         /\ \A d \in 1..RingSize : (h + RingSize - d) % RingSize = Back(RingSize, h, d)
  <1>1. RingSize \in Nat \ {0}
    BY LogConstants
  <1>2. QED
    BY <1>1, Slots

LEMMA RingCaptures ==
  ASSUME RingInv, Capture
  PROVE  /\ RingInv' /\ lines' = lines + 1 /\ logHead' = Ahead(RingSize, logHead, 1)
         /\ logRing' = [logRing EXCEPT ![logHead] = lines + 1]
  <1> USE LogConstants
  <1>1. /\ lines' = lines + 1 /\ logRing' = [logRing EXCEPT ![logHead] = lines + 1]
        /\ logHead' = (logHead + 1) % RingSize
        /\ logCount' = IF logCount < RingSize THEN logCount + 1 ELSE logCount
        /\ lines \in Nat /\ logHead \in 0..RingSize - 1 /\ logCount \in 0..RingSize
        /\ logRing \in [0..RingSize - 1 -> Nat]
    BY DEF Capture, RingInv
  <1>2. logHead' = Ahead(RingSize, logHead, 1) /\ logHead' \in 0..RingSize - 1
    BY <1>1, LogSlots
  <1>3. logCount' \in 0..RingSize /\ \A d \in 2..logCount' : d - 1 \in 1..logCount
    BY <1>1
  <1>4. ASSUME NEW d \in 1..logCount'
        PROVE  logRing'[Back(RingSize, logHead', d)] = lines' + 1 - d
    <2>1. CASE d = 1
      <3>1. Back(RingSize, logHead', d) = logHead
        BY <1>1, <1>2, <2>1, LogSlots
      <3>2. QED
        BY <1>1, <2>1, <3>1
    <2>2. CASE d # 1
      <3>1. d \in 2..logCount' /\ d - 1 \in 1..logCount /\ d \in 2..RingSize
        BY <1>3, <2>2
      <3>2. Back(RingSize, logHead', d) = Back(RingSize, logHead, d - 1)
        BY <1>1, <1>2, <3>1, LogSlots
      <3>3. d - 1 \in 1..RingSize /\ RingSize \in 1..RingSize /\ d - 1 # RingSize
        BY <3>1
      <3>8. /\ Back(RingSize, logHead, RingSize) = logHead
            /\ Back(RingSize, logHead, d - 1) = Back(RingSize, logHead, RingSize) => d - 1 = RingSize
            /\ Back(RingSize, logHead, d - 1) \in 0..RingSize - 1
        BY <1>1, <3>3, LogSlots
      <3>4. Back(RingSize, logHead, d - 1) # logHead /\ Back(RingSize, logHead, d - 1) \in 0..RingSize - 1
        BY <3>3, <3>8
      <3>5. logRing[Back(RingSize, logHead, d - 1)] = lines + 1 - (d - 1)
        BY <3>1 DEF RingInv
      <3>6. logRing'[Back(RingSize, logHead', d)] = logRing[Back(RingSize, logHead, d - 1)]
        BY <1>1, <3>2, <3>4
      <3>7. QED
        BY <1>1, <3>1, <3>5, <3>6
    <2>3. QED
      BY <2>1, <2>2
  <1>5. QED
    BY <1>1, <1>2, <1>3, <1>4 DEF RingInv

LEMMA ViewCaptures ==
  ASSUME RingInv, ViewInv, Capture
  PROVE  ViewInv'
  <1> USE LogConstants
  <1>1. /\ lines' = lines + 1 /\ logHead' = Ahead(RingSize, logHead, 1) /\ viewer' = viewer
        /\ logRing' = [logRing EXCEPT ![logHead] = lines + 1]
        /\ lines \in Nat /\ logHead \in 0..RingSize - 1
        /\ logRing \in [0..RingSize - 1 -> Nat]
    BY RingCaptures DEF Capture, RingInv
  <1>2. viewer \in Views /\ (viewer.at = "rest" => viewer.items = <<>>)
    BY DEF ViewInv
  <1> SUFFICES ASSUME viewer.at = "read"
               PROVE  ViewInv'
    BY <1>1, <1>2 DEF ViewInv
  <1> DEFINE since == lines - viewer.newest
  <1>3. /\ viewer.newest \in Nat /\ viewer.newest <= lines /\ viewer.offset <= viewer.count
        /\ Len(viewer.items) = viewer.offset
        /\ viewer.head \in 0..RingSize - 1 /\ viewer.count \in 0..RingSize
        /\ viewer.offset \in Nat /\ since \in Nat
    BY <1>1, <1>2 DEF ViewInv, Views
  <1>4. since < RingSize => logHead = Ahead(RingSize, viewer.head, since)
    BY DEF ViewInv
  <1>5. ASSUME NEW d \in 1..viewer.count
        PROVE  IF since + d <= RingSize
               THEN logRing[Back(RingSize, viewer.head, d)] = viewer.newest + 1 - d
               ELSE logRing[Back(RingSize, viewer.head, d)] > viewer.newest
    BY DEF ViewInv
  <1>6. \A i \in 1..viewer.offset :
          \/ viewer.items[i] = viewer.newest + 1 - i
          \/ since + i > RingSize /\ \A j \in i..viewer.offset : viewer.items[j] > viewer.newest
    BY DEF ViewInv
  <1>7. lines' - viewer.newest = since + 1
    <2>1. lines' = lines + 1 /\ lines \in Nat /\ viewer.newest \in Nat
      BY <1>1, <1>3
    <2>2. QED
      BY <2>1
  <1> HIDE DEF since
  <1>8. since + 1 < RingSize => logHead' = Ahead(RingSize, viewer.head, since + 1)
    <2> SUFFICES ASSUME since + 1 < RingSize
                 PROVE  logHead' = Ahead(RingSize, viewer.head, since + 1)
      OBVIOUS
    <2>1. since \in 0..RingSize - 2 /\ logHead = Ahead(RingSize, viewer.head, since)
      BY <1>3, <1>4
    <2>2. \A d \in 0..RingSize - 2 :
            Ahead(RingSize, Ahead(RingSize, viewer.head, d), 1) = Ahead(RingSize, viewer.head, d + 1)
      BY <1>3, LogSlots
    <2>3. QED
      BY <1>1, <2>1, <2>2
  <1>9. ASSUME NEW d \in 1..viewer.count
        PROVE  IF since + 1 + d <= RingSize
               THEN logRing'[Back(RingSize, viewer.head, d)] = viewer.newest + 1 - d
               ELSE logRing'[Back(RingSize, viewer.head, d)] > viewer.newest
    <2>1. d \in 1..RingSize /\ Back(RingSize, viewer.head, d) \in 0..RingSize - 1
      <3>1. d \in 1..RingSize
        BY <1>3
      <3>2. QED
        BY <1>3, <3>1, LogSlots
    <2>2. /\ logRing[Back(RingSize, viewer.head, d)] \in Nat
          /\ logRing'[Back(RingSize, viewer.head, d)]
               = IF Back(RingSize, viewer.head, d) = logHead THEN lines + 1 ELSE logRing[Back(RingSize, viewer.head, d)]
      BY <1>1, <2>1
    <2>3. CASE since + 1 + d <= RingSize
      <3>1. since \in 0..RingSize - 1 /\ RingSize - since \in 1..RingSize /\ d # RingSize - since
        BY <1>3, <2>1, <2>3
      <3>2. logHead = Back(RingSize, viewer.head, RingSize - since)
        <4>1. Ahead(RingSize, viewer.head, since) = Back(RingSize, viewer.head, RingSize - since)
          <5>1. viewer.head \in 0..RingSize - 1
            BY <1>3
          <5>2. \A k \in 0..RingSize - 1 : Ahead(RingSize, viewer.head, k) = Back(RingSize, viewer.head, RingSize - k)
            BY <5>1, LogSlots
          <5>3. QED
            BY <3>1, <5>2
        <4>2. since < RingSize
          BY <3>1
        <4>3. QED
          BY <1>4, <4>1, <4>2
      <3>3. Back(RingSize, viewer.head, d) # logHead
        <4>1. Back(RingSize, viewer.head, d) = Back(RingSize, viewer.head, RingSize - since) => d = RingSize - since
          BY <1>3, <2>1, <3>1, LogSlots
        <4>2. QED
          BY <3>1, <3>2, <4>1
      <3>4. logRing[Back(RingSize, viewer.head, d)] = viewer.newest + 1 - d
        BY <1>3, <1>5, <2>1, <2>3
      <3>5. QED
        BY <2>2, <2>3, <3>3, <3>4
    <2>4. CASE ~(since + 1 + d <= RingSize)
      <3>1. CASE since + d <= RingSize
        <4>1. since \in 0..RingSize - 1 /\ d = RingSize - since
          BY <1>3, <2>1, <2>4, <3>1
        <4>2. Back(RingSize, viewer.head, d) = logHead
          <5>1. Ahead(RingSize, viewer.head, since) = Back(RingSize, viewer.head, RingSize - since)
            BY <1>3, <4>1, LogSlots
          <5>2. since < RingSize
            BY <4>1
          <5>3. QED
            BY <1>4, <4>1, <5>1, <5>2
        <4>3. logRing'[Back(RingSize, viewer.head, d)] > viewer.newest
          BY <1>1, <1>3, <2>2, <4>2
        <4>4. QED
          BY <2>4, <4>3
      <3>2. CASE ~(since + d <= RingSize)
        <4>1. logRing[Back(RingSize, viewer.head, d)] > viewer.newest
          BY <1>5, <3>2
        <4>2. logRing'[Back(RingSize, viewer.head, d)] > viewer.newest
          BY <1>1, <1>3, <2>2, <4>1
        <4>3. QED
          BY <2>4, <4>2
      <3>3. QED
        BY <3>1, <3>2
    <2>5. QED
      BY <2>3, <2>4
  <1>10. \A i \in 1..viewer.offset :
           \/ viewer.items[i] = viewer.newest + 1 - i
           \/ since + 1 + i > RingSize /\ \A j \in i..viewer.offset : viewer.items[j] > viewer.newest
    <2>1. since \in Nat /\ viewer.offset \in Nat
      BY <1>3
    <2>2. \A i \in 1..viewer.offset : since + i > RingSize => since + 1 + i > RingSize
      BY <2>1
    <2>3. QED
      BY <1>6, <2>2
  <1>11. viewer.newest <= lines'
    BY <1>1, <1>3
  <1>12. QED
    BY <1>1, <1>2, <1>3, <1>7, <1>8, <1>9, <1>10, <1>11 DEF ViewInv

LEMMA ViewReading ==
  ASSUME RingInv, ViewInv, ViewReads
  PROVE  ViewInv'
  <1> USE LogConstants
  <1>1. /\ viewer.at = "read" /\ viewer.offset < viewer.count
        /\ viewer' = [viewer EXCEPT !.items = Append(@, logRing[ViewIndex(viewer)]), !.offset = @ + 1]
        /\ UNCHANGED <<lines, logRing, logHead, logCount>>
    BY DEF ViewReads, ringVars
  <1>2. viewer \in Views
    BY DEF ViewInv
  <1> DEFINE since == lines - viewer.newest
             next  == viewer.offset + 1
  <1>3. /\ lines \in Nat /\ viewer.newest \in Nat /\ viewer.newest <= lines
        /\ viewer.offset \in Nat /\ viewer.count \in 0..RingSize /\ viewer.head \in 0..RingSize - 1
        /\ viewer.items \in Seq(Nat) /\ Len(viewer.items) = viewer.offset
        /\ logRing \in [0..RingSize - 1 -> Nat]
    BY <1>1, <1>2 DEF ViewInv, Views, RingInv
  <1>4. next \in 1..viewer.count /\ next \in 1..RingSize /\ since \in Nat
    <2>1. /\ viewer.offset < viewer.count /\ viewer.offset \in Nat /\ viewer.count \in 0..RingSize
          /\ lines \in Nat /\ viewer.newest \in Nat /\ viewer.newest <= lines
      BY <1>1, <1>3
    <2>2. since \in Nat
      BY <2>1
    <2>3. viewer.offset + 1 \in 1..viewer.count /\ viewer.offset + 1 \in 1..RingSize
      BY <2>1
    <2>4. QED
      BY <2>2, <2>3
  <1>5. ViewIndex(viewer) = Back(RingSize, viewer.head, next)
    <2>1. (viewer.head + RingSize - next) % RingSize = Back(RingSize, viewer.head, next)
      BY <1>3, <1>4, LogSlots
    <2>2. viewer.head + RingSize - 1 - viewer.offset = viewer.head + RingSize - next
      BY <1>3
    <2>3. QED
      BY <2>1, <2>2 DEF ViewIndex
  <1> DEFINE line == logRing[ViewIndex(viewer)]
  <1>6. /\ line \in Nat
        /\ IF since + next <= RingSize THEN line = viewer.newest + 1 - next ELSE line > viewer.newest
    <2>1. Back(RingSize, viewer.head, next) \in 0..RingSize - 1
      BY <1>3, <1>4, LogSlots
    <2>2. IF since + next <= RingSize
          THEN logRing[Back(RingSize, viewer.head, next)] = viewer.newest + 1 - next
          ELSE logRing[Back(RingSize, viewer.head, next)] > viewer.newest
      BY <1>1, <1>4 DEF ViewInv
    <2>3. QED
      BY <1>3, <1>5, <2>1, <2>2
  <1>7. /\ viewer'.at = "read" /\ viewer'.newest = viewer.newest /\ viewer'.count = viewer.count
        /\ viewer'.head = viewer.head /\ viewer'.offset = next
        /\ viewer'.items = Append(viewer.items, line)
        /\ viewer' \in [at : {"rest", "read"}, newest : Nat, count : 0..RingSize,
                        head : 0..RingSize - 1, offset : Nat, items : {Append(viewer.items, line)}]
    <2>1. /\ viewer' = [viewer EXCEPT !.items = Append(@, line), !.offset = next]
          /\ viewer.at = "read" /\ next \in Nat
      BY <1>1, <1>3
    <2> HIDE DEF line, next
    <2>2. QED
      BY <1>2, <2>1 DEF Views
  <1>8. \A i \in 1..viewer.offset :
          \/ viewer.items[i] = viewer.newest + 1 - i
          \/ since + i > RingSize /\ \A j \in i..viewer.offset : viewer.items[j] > viewer.newest
    BY <1>1 DEF ViewInv
  <1> HIDE DEF since, next, line
  <1> DEFINE listed == Append(viewer.items, line)
  <1>9. /\ listed \in Seq(Nat) /\ Len(listed) = next /\ listed[next] = line
        /\ \A i \in 1..viewer.offset : listed[i] = viewer.items[i]
    <2>1. viewer.items \in Seq(Nat) /\ Len(viewer.items) = viewer.offset /\ line \in Nat
      BY <1>3, <1>6
    <2>2. /\ listed \in Seq(Nat) /\ Len(listed) = Len(viewer.items) + 1
          /\ listed[Len(viewer.items) + 1] = line
          /\ \A i \in 1..Len(viewer.items) : listed[i] = viewer.items[i]
      BY <2>1, AppendProperties
    <2> HIDE DEF listed
    <2>3. QED
      BY <2>1, <2>2 DEF next
  <1>10. \A i \in 1..next : i \in 1..viewer.offset \/ i = next
    BY <1>3 DEF next
  <1>11. /\ viewer'.items = listed /\ viewer' \in Views
    BY <1>7, <1>9 DEF Views
  <1> HIDE DEF listed
  <1>12. ASSUME NEW i \in 1..next
         PROVE  \/ listed[i] = viewer.newest + 1 - i
                \/ since + i > RingSize /\ \A j \in i..next : listed[j] > viewer.newest
    <2>1. CASE i = next
      <3>1. \A j \in i..next : j = next
        BY <1>4, <2>1
      <3>2. listed[i] = line
        BY <1>9, <2>1
      <3>3. CASE since + next <= RingSize
        BY <1>6, <2>1, <3>2, <3>3
      <3>4. CASE ~(since + next <= RingSize)
        <4>1. since + next > RingSize /\ line > viewer.newest
          BY <1>3, <1>4, <1>6, <3>4
        <4>2. QED
          BY <2>1, <3>1, <3>2, <4>1
      <3>5. QED
        BY <3>3, <3>4
    <2>2. CASE i \in 1..viewer.offset /\ viewer.items[i] = viewer.newest + 1 - i
      BY <1>9, <2>2
    <2>3. CASE /\ i \in 1..viewer.offset /\ since + i > RingSize
               /\ \A j \in i..viewer.offset : viewer.items[j] > viewer.newest
      <3>1. since + next > RingSize
        BY <1>3, <1>4, <2>3 DEF next
      <3>2. line > viewer.newest
        BY <1>3, <1>4, <1>6, <3>1
      <3>3. \A j \in i..next : j \in i..viewer.offset \/ j = next
        <4>1. i \in Nat /\ viewer.offset \in Nat /\ next = viewer.offset + 1
          BY <1>3, <2>3 DEF next
        <4>2. QED
          BY <4>1
      <3>4. \A j \in i..viewer.offset : j \in 1..viewer.offset
        BY <1>3, <2>3
      <3>5. QED
        BY <1>9, <2>3, <3>2, <3>3, <3>4
    <2>4. QED
      BY <1>8, <1>10, <2>1, <2>2, <2>3
  <1>13. /\ since < RingSize => logHead = Ahead(RingSize, viewer.head, since)
         /\ \A d \in 1..viewer.count :
              IF since + d <= RingSize
              THEN logRing[Back(RingSize, viewer.head, d)] = viewer.newest + 1 - d
              ELSE logRing[Back(RingSize, viewer.head, d)] > viewer.newest
    BY <1>1 DEF ViewInv, since
  <1>14. lines' - viewer'.newest = since /\ viewer'.newest <= lines' /\ viewer'.offset <= viewer'.count
    BY <1>1, <1>3, <1>4, <1>7 DEF since
  <1>15. viewer' \in Views /\ viewer'.at = "read" /\ Len(viewer'.items) = viewer'.offset
    BY <1>7, <1>9, <1>11
  <1>16. lines' - viewer'.newest < RingSize =>
           logHead' = Ahead(RingSize, viewer'.head, lines' - viewer'.newest)
    BY <1>1, <1>7, <1>13, <1>14
  <1>17. \A d \in 1..viewer'.count :
           IF (lines' - viewer'.newest) + d <= RingSize
           THEN logRing'[Back(RingSize, viewer'.head, d)] = viewer'.newest + 1 - d
           ELSE logRing'[Back(RingSize, viewer'.head, d)] > viewer'.newest
    BY <1>1, <1>7, <1>13, <1>14
  <1>18. \A i \in 1..viewer'.offset :
           \/ viewer'.items[i] = viewer'.newest + 1 - i
           \/ /\ (lines' - viewer'.newest) + i > RingSize
              /\ \A j \in i..viewer'.offset : viewer'.items[j] > viewer'.newest
    BY <1>7, <1>11, <1>12, <1>14
  <1>19. QED
    BY <1>14, <1>15, <1>16, <1>17, <1>18 DEF ViewInv

LEMMA ViewBeginning ==
  ASSUME RingInv, ViewInv, NEW limit \in 1..RingSize, ViewBegins(limit)
  PROVE  ViewInv'
  <1> USE LogConstants
  <1>1. /\ viewer' = [at |-> "read", newest |-> lines, count |-> Smaller(limit, logCount),
                      head |-> logHead, offset |-> 0, items |-> <<>>]
        /\ UNCHANGED <<lines, logRing, logHead, logCount>>
    BY DEF ViewBegins, NoView, ringVars
  <1>2. /\ lines \in Nat /\ logHead \in 0..RingSize - 1 /\ logCount \in 0..RingSize
        /\ Smaller(limit, logCount) \in 0..RingSize /\ Smaller(limit, logCount) <= logCount
    BY DEF RingInv, Smaller
  <1>3. <<>> \in Seq(Nat) /\ Len(<<>>) = 0
    OBVIOUS
  <1>4. viewer' \in Views
    BY <1>1, <1>2, <1>3 DEF Views
  <1>5. logHead = Ahead(RingSize, logHead, 0) /\ lines - lines = 0
    BY <1>2, LogSlots
  <1>6. ASSUME NEW d \in 1..Smaller(limit, logCount)
        PROVE  d <= RingSize /\ logRing[Back(RingSize, logHead, d)] = lines + 1 - d
    BY <1>2 DEF RingInv
  <1>7. \A d \in 1..Smaller(limit, logCount) : 0 + d = d
    BY <1>2
  <1>8. QED
    BY <1>1, <1>2, <1>3, <1>4, <1>5, <1>6, <1>7 DEF ViewInv

LEMMA RingStep ==
  ASSUME RingInv, ViewInv, [LogNext]_logVars
  PROVE  RingInv' /\ ViewInv'
  <1>1. ASSUME UNCHANGED <<lines, logRing, logHead, logCount>>
        PROVE  RingInv'
    BY <1>1 DEF RingInv
  <1>2. ASSUME UNCHANGED <<lines, logRing, logHead, logCount, viewer>>
        PROVE  RingInv' /\ ViewInv'
    BY <1>1, <1>2 DEF ViewInv
  <1>3. CASE Capture
    BY <1>3, RingCaptures, ViewCaptures
  <1>4. CASE Discards \/ OpenFails \/ Writes \/ Rotates \/ RotateFails \/ RenameFails
    BY <1>2, <1>4 DEF Discards, OpenFails, Writes, Rotates, RotateFails, RenameFails, Takes, ringVars
  <1>5. CASE ClosesFile \/ \E b \in BOOLEAN : SetEnabled(b)
    BY <1>2, <1>5 DEF ClosesFile, SetEnabled, ringVars
  <1>6. CASE \E limit \in 1..RingSize : ViewBegins(limit)
    BY <1>1, <1>6, ViewBeginning DEF ViewBegins, ringVars
  <1>7. CASE ViewReads
    BY <1>1, <1>7, ViewReading DEF ViewReads, ringVars
  <1>8. CASE ViewEnds
    <2>1. viewer' = NoView /\ UNCHANGED <<lines, logRing, logHead, logCount>>
      BY <1>8 DEF ViewEnds, ringVars
    <2>2. NoView \in Views /\ NoView.at = "rest" /\ NoView.items = <<>>
      BY LogConstants DEF NoView, Views
    <2>3. QED
      BY <1>1, <2>1, <2>2 DEF ViewInv
  <1>9. CASE UNCHANGED logVars
    BY <1>2, <1>9 DEF logVars, ringVars
  <1>10. QED
    BY <1>3, <1>4, <1>5, <1>6, <1>7, <1>8, <1>9 DEF LogNext

LEMMA FilesAreInOrder ==
  ASSUME FilesInv
  PROVE  LogFilesAreInOrder
  <1> DEFINE all == oldFile \o logFile
             m == Len(oldFile)
             n == Len(logFile)
  <1>1. /\ m \in Nat /\ n \in Nat /\ Len(all) = m + n /\ DOMAIN all = 1..(m + n)
        /\ \A i \in 1..m + n : all[i] = IF i <= m THEN oldFile[i] ELSE logFile[i - m]
    <2>1. oldFile \in Seq(Nat) /\ logFile \in Seq(Nat)
      BY DEF FilesInv
    <2>2. QED
      BY <2>1
  <1>2. /\ \A i, j \in 1..m : i < j => oldFile[i] < oldFile[j]
        /\ \A i, j \in 1..n : i < j => logFile[i] < logFile[j]
        /\ \A i \in 1..m, j \in 1..n : oldFile[i] < logFile[j]
        /\ m <= MaxBytes /\ n <= MaxBytes
    BY DEF FilesInv, Increasing, Before
  <1> HIDE DEF all, m, n
  <1>3. ASSUME NEW i \in 1..m + n, NEW j \in 1..m + n, i < j
        PROVE  all[i] < all[j]
    <2>1. CASE j <= m
      <3>1. i \in 1..m /\ j \in 1..m /\ i <= m
        BY <1>1, <1>3, <2>1
      <3>2. QED
        BY <1>1, <1>2, <1>3, <3>1
    <2>2. CASE i <= m /\ ~(j <= m)
      <3>1. i \in 1..m /\ j - m \in 1..n
        BY <1>1, <2>2
      <3>2. QED
        BY <1>1, <1>2, <2>2, <3>1
    <2>3. CASE ~(i <= m)
      <3>1. ~(j <= m) /\ i - m \in 1..n /\ j - m \in 1..n /\ i - m < j - m
        BY <1>1, <1>3, <2>3
      <3>2. QED
        BY <1>1, <1>2, <2>3, <3>1
    <2>4. QED
      BY <1>1, <2>1, <2>2, <2>3
  <1>4. QED
    BY <1>1, <1>2, <1>3 DEF LogFilesAreInOrder, all, m, n

LEMMA ListIsNewest ==
  ASSUME ViewInv
  PROVE  RecentIsNewest
  <1>1. /\ viewer.items \in Seq(Nat) /\ DOMAIN viewer.items = 1..Len(viewer.items)
        /\ viewer.at \in {"rest", "read"} /\ viewer.offset \in Nat
    BY DEF ViewInv, Views
  <1>2. CASE viewer.at = "rest"
    <2>1. viewer.items = <<>>
      BY <1>2 DEF ViewInv
    <2>2. QED
      BY <2>1 DEF RecentIsNewest
  <1>3. CASE viewer.at = "read"
    <2>1. /\ Len(viewer.items) = viewer.offset
          /\ \A i \in 1..viewer.offset :
               \/ viewer.items[i] = viewer.newest + 1 - i
               \/ \A j \in i..viewer.offset : viewer.items[j] > viewer.newest
      BY <1>3 DEF ViewInv
    <2>2. QED
      BY <1>1, <2>1 DEF RecentIsNewest
  <1>4. QED
    BY <1>1, <1>2, <1>3

\* The log loses nothing unseen (_ad2_sd_log_task, ad2_capture_log_line,
\* ad2_get_recent_logs_json): the lines of the two files are in order and in their limits,
\* each line that is missing from them is in a counter, and the list of recent lines
\* begins with the newest, whatever the size of the ring, the queue and the files.
THEOREM LogLosesNothingUnseen == LogSpec => []LogIsComplete
  <1> USE LogConstants
  <1>1. LogInit => FilesInv /\ CountersInv /\ RingInv /\ ViewInv
    <2> SUFFICES ASSUME LogInit
                 PROVE  FilesInv /\ CountersInv /\ RingInv /\ ViewInv
      OBVIOUS
    <2>1. FilesInv
      <3>1. lines = 0 /\ fileOpen = FALSE /\ fileSize = 0
            /\ oldFile = <<>> /\ logFile = <<>> /\ logQueue = <<>>
        BY DEF LogInit
      <3>2. 0 \in Nat /\ FALSE \in BOOLEAN /\ <<>> \in Seq(Nat) /\ MaxBytes >= 0
        OBVIOUS
      <3>3. QED
        BY <3>1, <3>2, NothingBefore DEF FilesInv
    <2>2. CountersInv
      BY DEF LogInit, CountersInv, MissingIsCounted
    <2>3. RingInv
      BY DEF LogInit, RingInv
    <2>4. ViewInv
      <3>1. viewer = NoView /\ NoView.at = "rest" /\ NoView.items = <<>> /\ NoView \in Views
        BY DEF LogInit, NoView, Views
      <3>2. QED
        BY <3>1 DEF ViewInv
    <2>5. QED
      BY <2>1, <2>2, <2>3, <2>4
  <1>2. /\ FilesInv /\ CountersInv /\ RingInv /\ ViewInv /\ [LogNext]_logVars
        => (FilesInv /\ CountersInv /\ RingInv /\ ViewInv)'
    BY FilesStep, RingStep
  <1>3. FilesInv /\ CountersInv /\ RingInv /\ ViewInv => LogIsComplete
    BY FilesAreInOrder, ListIsNewest DEF LogIsComplete, CountersInv
  <1>4. QED
    BY <1>1, <1>2, <1>3, PTL DEF LogSpec

--------------------------------------------------------------------------------
(* The history of the web interface. *)

LEMMA HistoryConstants ==
  HistorySize \in Nat \ {0} /\ AllPartitions \notin EventPartitions
  BY WebHistoryAssumption

LEMMA HistorySlots ==
  ASSUME NEW h \in 0..HistorySize - 1
  PROVE  /\ \A d \in 1..HistorySize : Back(HistorySize, h, d) \in 0..HistorySize - 1
         /\ \A d, e \in 1..HistorySize :
              Back(HistorySize, h, d) = Back(HistorySize, h, e) => d = e
         /\ Back(HistorySize, h, HistorySize) = h
         /\ (h + 1) % HistorySize \in 0..HistorySize - 1
         /\ Back(HistorySize, (h + 1) % HistorySize, 1) = h
         /\ \A d \in 2..HistorySize :
              Back(HistorySize, (h + 1) % HistorySize, d) = Back(HistorySize, h, d - 1)
         /\ \A d \in 1..HistorySize :
              (h + HistorySize - d) % HistorySize = Back(HistorySize, h, d)
  <1> DEFINE H == HistorySize
  <1>1. H \in Nat \ {0} /\ h \in 0..H - 1
    BY HistoryConstants
  <1> HIDE DEF H
  <1>2. (h + 1) % H = Ahead(H, h, 1)
    BY <1>1, Slots
  <1>3. /\ \A d \in 1..H : Back(H, h, d) \in 0..H - 1
        /\ \A d, e \in 1..H : Back(H, h, d) = Back(H, h, e) => d = e
        /\ Back(H, h, H) = h
    BY <1>1, Slots
  <1>4. /\ Ahead(H, h, 1) \in 0..H - 1 /\ Back(H, Ahead(H, h, 1), 1) = h
        /\ \A d \in 2..H : Back(H, Ahead(H, h, 1), d) = Back(H, h, d - 1)
    BY <1>1, Slots
  <1>5. \A d \in 1..H : (h + H - d) % H = Back(H, h, d)
    BY <1>1, Slots
  <1>6. QED
    BY <1>2, <1>3, <1>4, <1>5 DEF H

Happenings == [sequence : Nat, part : EventPartitions]

Readers == [at : {"rest", "take", "read", "give"}, part : EventPartitions \cup {AllPartitions},
            wanted : 0..HistorySize, offset : Nat, items : Seq(Happenings)]

\* The counters and the mutex.
HistoryTypes ==
  /\ ring \in [0..HistorySize - 1 -> [sequence : Nat, part : EventPartitions \cup {AllPartitions}]]
  /\ head \in 0..HistorySize - 1
  /\ adder \in [at : {"rest", "take", "fill", "move"}, part : EventPartitions \cup {AllPartitions}]
  /\ adder.at # "rest" => adder.part \in EventPartitions
  /\ reader \in Readers
  /\ historyHeld \in {"nobody", "adder", "reader"}
  /\ historyHeld = "adder" <=> adder.at \in {"fill", "move"}
  /\ historyHeld = "reader" <=> reader.at \in {"read", "give"}
  /\ recorded \in Seq(Happenings)
  /\ \A k \in 1..Len(recorded) : recorded[k].sequence = k
  /\ sequence = IF adder.at = "move" THEN Len(recorded) + 1 ELSE Len(recorded)
  /\ count = IF Len(recorded) < HistorySize THEN Len(recorded) ELSE HistorySize

\* Going back from the head, the ring holds the newest events, except that the oldest
\* is overwritten before the head moves.
RingHolds ==
  /\ \A d \in 1..count :
       \/ ring[Back(HistorySize, head, d)] = recorded[Len(recorded) + 1 - d]
       \/ adder.at = "move" /\ d = HistorySize
  /\ adder.at = "move" => ring[head] = [sequence |-> sequence, part |-> adder.part]

Newest(d) == recorded[Len(recorded) + 1 - d]

\* The items are what matches among the newest events, newest first.
AnswersOf(items, newest) ==
  /\ \A i \in 1..Len(items) : Matches(items[i]) /\ \E d \in 1..newest : items[i] = Newest(d)
  /\ \A i, j \in 1..Len(items) : i < j => items[i].sequence > items[j].sequence
  /\ \A d \in 1..newest : Matches(Newest(d)) => \E i \in 1..Len(items) : items[i] = Newest(d)

\* The answer so far is what matches among the newest reader.offset events.
AnswerInv ==
  /\ reader.at = "take" => reader.items = <<>> /\ reader.offset = 0
  /\ reader.at \in {"read", "give"} =>
       /\ reader.offset <= count /\ Len(reader.items) <= reader.wanted
       /\ AnswersOf(reader.items, reader.offset)
  /\ reader.at = "give" => reader.offset = count \/ Len(reader.items) = reader.wanted

HistoryInv == HistoryTypes /\ RingHolds /\ AnswerInv

\* The answer is not touched while the reader holds the mutex.
LEMMA AnswerKept ==
  ASSUME AnswerInv, UNCHANGED <<recorded, count>>, reader' = reader
  PROVE  AnswerInv'
  BY DEF AnswerInv, AnswersOf, Newest, Matches

LEMMA Moved ==
  ASSUME HistoryInv, Move
  PROVE  HistoryInv'
  <1> USE HistoryConstants
  <1> DEFINE e == [sequence |-> sequence, part |-> adder.part]
             n == Len(recorded)
  <1>1. /\ adder.at = "move" /\ head' = (head + 1) % HistorySize
        /\ count' = IF count < HistorySize THEN count + 1 ELSE count
        /\ recorded' = Append(recorded, e)
        /\ historyHeld' = "nobody" /\ adder' = [adder EXCEPT !.at = "rest"]
        /\ UNCHANGED <<ring, sequence, reader>>
    BY DEF Move
  <1>2. HistoryTypes /\ RingHolds /\ AnswerInv
    BY DEF HistoryInv
  <1>3. /\ n \in Nat /\ sequence = n + 1 /\ e \in Happenings /\ e.sequence = n + 1
        /\ head \in 0..HistorySize - 1 /\ recorded \in Seq(Happenings)
        /\ count = IF n < HistorySize THEN n ELSE HistorySize
        /\ reader.at \notin {"read", "give"}
    BY <1>1, <1>2 DEF HistoryTypes, Happenings
  <1>4. /\ recorded' \in Seq(Happenings) /\ Len(recorded') = n + 1 /\ recorded'[n + 1] = e
        /\ \A k \in 1..n : recorded'[k] = recorded[k]
    BY <1>1, <1>3
  <1> HIDE DEF e, n
  <1>5. \A k \in 1..n + 1 : recorded'[k].sequence = k
    <2>1. \A k \in 1..n + 1 : k \in 1..n \/ k = n + 1
      BY <1>3
    <2>2. \A k \in 1..n : recorded[k].sequence = k
      BY <1>2 DEF HistoryTypes, n
    <2>3. QED
      BY <1>3, <1>4, <2>1, <2>2
  <1>6. count' = IF n + 1 < HistorySize THEN n + 1 ELSE HistorySize
    BY <1>1, <1>3
  <1>7. HistoryTypes'
    <2>1. head' \in 0..HistorySize - 1
      BY <1>1, <1>3, HistorySlots
    <2>2. /\ adder' \in [at : {"rest", "take", "fill", "move"},
                         part : EventPartitions \cup {AllPartitions}]
          /\ adder'.at = "rest"
      BY <1>1, <1>2 DEF HistoryTypes
    <2>3. /\ historyHeld' = "nobody" /\ reader' \in Readers /\ reader'.at \notin {"read", "give"}
          /\ ring' \in [0..HistorySize - 1 -> [sequence : Nat, part : EventPartitions \cup {AllPartitions}]]
      BY <1>1, <1>2, <1>3 DEF HistoryTypes
    <2>4. sequence' = n + 1
      BY <1>1, <1>3
    <2>5. QED
      BY <1>4, <1>5, <1>6, <2>1, <2>2, <2>3, <2>4 DEF HistoryTypes
  <1>8. ASSUME NEW d \in 1..count'
        PROVE  ring[Back(HistorySize, head', d)] = recorded'[n + 2 - d]
    <2>1. d \in 1..HistorySize /\ d \in 1..n + 1
      BY <1>3, <1>6
    <2>2. CASE d = 1
      <3>1. Back(HistorySize, head', d) = head
        BY <1>1, <1>3, <2>2, HistorySlots
      <3>2. ring[head] = e
        BY <1>1, <1>2 DEF RingHolds, e
      <3>3. n + 2 - d = n + 1
        BY <1>3, <2>2
      <3>4. QED
        BY <1>4, <3>1, <3>2, <3>3
    <2>3. CASE d # 1
      <3>1. d \in 2..HistorySize
        BY <2>1, <2>3
      <3>2. Back(HistorySize, head', d) = Back(HistorySize, head, d - 1)
        BY <1>1, <1>3, <3>1, HistorySlots
      <3>3. d - 1 \in 1..count /\ d - 1 # HistorySize
        BY <1>3, <2>1, <3>1
      <3>4. ring[Back(HistorySize, head, d - 1)] = recorded[n + 1 - (d - 1)]
        BY <1>2, <3>3 DEF RingHolds, n
      <3>5. n + 1 - (d - 1) = n + 2 - d /\ n + 2 - d \in 1..n
        BY <1>3, <2>1, <3>1
      <3>6. QED
        BY <1>4, <3>2, <3>4, <3>5
    <2>4. QED
      BY <2>2, <2>3
  <1>9. RingHolds'
    <2>1. adder'.at = "rest"
      BY <1>1, <1>2 DEF HistoryTypes
    <2>2. ring' = ring
      BY <1>1
    <2>3. ASSUME NEW d \in 1..count'
          PROVE  ring'[Back(HistorySize, head', d)] = recorded'[Len(recorded') + 1 - d]
      <3>1. Len(recorded') + 1 - d = n + 2 - d
        BY <1>3, <1>4
      <3>2. QED
        BY <1>8, <2>2, <3>1
    <2>4. QED
      BY <2>1, <2>3 DEF RingHolds
  <1>10. AnswerInv'
    BY <1>1, <1>2, <1>3 DEF AnswerInv
  <1>11. QED
    BY <1>7, <1>9, <1>10 DEF HistoryInv

LEMMA ReadOneMore ==
  ASSUME HistoryInv, ReadOne
  PROVE  HistoryInv'
  <1> USE HistoryConstants
  <1> DEFINE n == Len(recorded)
             next == reader.offset + 1
             e == recorded[n - reader.offset]
             items == reader.items
  <1>1. /\ reader.at = "read" /\ reader.offset < count /\ Len(items) < reader.wanted
        /\ UNCHANGED <<ring, head, count, sequence, historyHeld, adder, recorded>>
    BY DEF ReadOne, More
  <1>2. HistoryTypes /\ RingHolds /\ AnswerInv
    BY DEF HistoryInv
  <1>3. /\ n \in Nat /\ count <= n /\ count \in 0..HistorySize /\ reader.offset \in Nat
        /\ head \in 0..HistorySize - 1 /\ recorded \in Seq(Happenings)
        /\ items \in Seq(Happenings) /\ reader.wanted \in 0..HistorySize /\ reader \in Readers
    BY <1>2 DEF HistoryTypes, Readers
  <1>4. adder.at # "move"
    BY <1>1, <1>2 DEF HistoryTypes
  <1>5. /\ next \in 1..count /\ next \in 1..HistorySize /\ n - reader.offset \in 1..n
        /\ n + 1 - next = n - reader.offset
    <2>1. /\ reader.offset < count /\ count <= n /\ count <= HistorySize
          /\ n \in Nat /\ count \in Nat /\ reader.offset \in Nat /\ HistorySize \in Nat
      BY <1>1, <1>3
    <2>2. QED
      BY <2>1
  <1>6. ring[(head + HistorySize - 1 - reader.offset) % HistorySize] = e
    <2>1. (head + HistorySize - next) % HistorySize = Back(HistorySize, head, next)
      BY <1>3, <1>5, HistorySlots
    <2>2. head + HistorySize - 1 - reader.offset = head + HistorySize - next
      BY <1>3
    <2>3. ring[Back(HistorySize, head, next)] = recorded[n + 1 - next]
      BY <1>2, <1>4, <1>5 DEF RingHolds
    <2>4. QED
      BY <1>5, <2>1, <2>2, <2>3
  <1>7. e \in Happenings /\ e.sequence = n - reader.offset
    <2>1. e \in Happenings
      BY <1>3, <1>5
    <2>2. \A k \in 1..n : recorded[k].sequence = k
      BY <1>2 DEF HistoryTypes
    <2>3. QED
      BY <1>5, <2>1, <2>2
  <1>8. reader' = [reader EXCEPT !.offset = next, !.items = IF Matches(e) THEN Append(items, e) ELSE items]
    <2>1. reader' = [reader EXCEPT !.offset = reader.offset + 1,
                       !.items = IF reader.part \in {AllPartitions, e.part} THEN Append(items, e) ELSE items]
      BY <1>6 DEF ReadOne
    <2>2. QED
      BY <2>1 DEF Matches
  <1> HIDE DEF e, next, items, n
  <1>9. /\ reader'.offset = next /\ reader'.at = "read" /\ reader'.wanted = reader.wanted
        /\ reader'.part = reader.part
        /\ reader'.items = IF Matches(e) THEN Append(items, e) ELSE items
    BY <1>1, <1>3, <1>8 DEF Readers
  <1>10. HistoryTypes'
    <2>1. reader'.items \in Seq(Happenings)
      BY <1>3, <1>7, <1>9 DEF items
    <2>2. reader' \in Readers
      <3>1. next \in Nat
        BY <1>5
      <3>2. QED
        BY <1>3, <1>8, <1>9, <2>1, <3>1 DEF Readers
    <2>3. QED
      BY <1>1, <1>2, <1>9, <2>2 DEF HistoryTypes
  <1>11. RingHolds'
    BY <1>1, <1>2 DEF RingHolds
  <1>12. /\ \A i \in 1..Len(items) :
              Matches(items[i]) /\ \E d \in 1..reader.offset : items[i] = Newest(d)
         /\ \A i, j \in 1..Len(items) : i < j => items[i].sequence > items[j].sequence
         /\ \A d \in 1..reader.offset :
              Matches(Newest(d)) => \E i \in 1..Len(items) : items[i] = Newest(d)
    BY <1>1, <1>2 DEF AnswerInv, AnswersOf, items
  <1>13. Newest(next) = e /\ 1..next = 1..reader.offset \cup {next}
    <2>1. Newest(next) = e
      BY <1>5 DEF n, e, Newest
    <2>2. 1..next = 1..reader.offset \cup {next}
      BY <1>3 DEF next
    <2>3. QED
      BY <2>1, <2>2
  <1>14. \A d \in 1..reader.offset : Newest(d).sequence > e.sequence
    <2>1. \A k \in 1..n : recorded[k].sequence = k
      BY <1>2 DEF HistoryTypes, n
    <2>2. ASSUME NEW d \in 1..reader.offset
          PROVE  Newest(d).sequence > e.sequence
      <3>1. n + 1 - d \in 1..n /\ n + 1 - d > n - reader.offset
        <4>1. n \in Nat /\ reader.offset \in Nat /\ n - reader.offset \in 1..n
          BY <1>3, <1>5
        <4>2. QED
          BY <4>1
      <3>2. Newest(d).sequence = n + 1 - d
        BY <2>1, <3>1 DEF n, Newest
      <3>3. QED
        BY <1>7, <3>1, <3>2
    <2>3. QED
      BY <2>2
  <1>15. ASSUME NEW some, AnswersOf(some, next), reader'.items = some, Len(some) <= reader.wanted
         PROVE  HistoryInv'
    <2>1. /\ \A i \in 1..Len(some) :
               reader'.part \in {AllPartitions, some[i].part} /\ \E d \in 1..next : some[i] = Newest(d)
          /\ \A i, j \in 1..Len(some) : i < j => some[i].sequence > some[j].sequence
          /\ \A d \in 1..next :
               reader'.part \in {AllPartitions, Newest(d).part} => \E i \in 1..Len(some) : some[i] = Newest(d)
      BY <1>9, <1>15 DEF AnswersOf, Matches
    <2>2. AnswersOf(reader.items, reader.offset)'
      BY <1>1, <1>9, <1>15, <2>1 DEF AnswersOf, Matches, Newest
    <2>3. reader'.at = "read" /\ reader'.offset <= count' /\ Len(reader'.items) <= reader'.wanted
      <3>1. next <= count
        BY <1>3, <1>5
      <3>2. QED
        BY <1>1, <1>9, <1>15, <3>1
    <2>4. AnswerInv'
      BY <2>2, <2>3 DEF AnswerInv
    <2>5. QED
      BY <1>10, <1>11, <2>4 DEF HistoryInv
  <1>16. CASE ~Matches(e)
    <2>1. reader'.items = items
      BY <1>9, <1>16
    <2>2. \A i \in 1..Len(items) : \E d \in 1..next : items[i] = Newest(d)
      BY <1>12, <1>13
    <2>3. \A d \in 1..next : Matches(Newest(d)) => \E i \in 1..Len(items) : items[i] = Newest(d)
      BY <1>12, <1>13, <1>16
    <2>4. AnswersOf(items, next)
      BY <1>12, <2>2, <2>3 DEF AnswersOf
    <2>5. Len(items) <= reader.wanted
      BY <1>1, <1>3 DEF items
    <2>6. QED
      BY <1>15, <2>1, <2>4, <2>5
  <1>17. CASE Matches(e)
    <2> DEFINE longer == Append(items, e)
    <2>1. /\ reader'.items = longer /\ Len(items) \in Nat /\ Len(longer) = Len(items) + 1
          /\ longer[Len(items) + 1] = e /\ \A i \in 1..Len(items) : longer[i] = items[i]
          /\ \A i \in 1..Len(longer) : i \in 1..Len(items) \/ i = Len(items) + 1
      BY <1>3, <1>7, <1>9, <1>17
    <2> HIDE DEF longer
    <2>2. \A i \in 1..Len(longer) : Matches(longer[i]) /\ \E d \in 1..next : longer[i] = Newest(d)
      <3> SUFFICES ASSUME NEW i \in 1..Len(longer)
                   PROVE  Matches(longer[i]) /\ \E d \in 1..next : longer[i] = Newest(d)
        OBVIOUS
      <3>1. CASE i \in 1..Len(items)
        <4>1. longer[i] = items[i]
          BY <2>1, <3>1
        <4>2. QED
          BY <1>12, <1>13, <3>1, <4>1
      <3>2. CASE i = Len(items) + 1
        <4>1. longer[i] = e
          BY <2>1, <3>2
        <4>2. QED
          BY <1>13, <1>17, <4>1
      <3>3. QED
        BY <2>1, <3>1, <3>2
    <2>3. ASSUME NEW i \in 1..Len(longer), NEW j \in 1..Len(longer), i < j
          PROVE  longer[i].sequence > longer[j].sequence
      <3>1. i \in 1..Len(items)
        BY <2>1, <2>3
      <3>2. longer[i] = items[i]
        BY <2>1, <3>1
      <3>3. CASE j \in 1..Len(items)
        BY <1>12, <2>1, <2>3, <3>1, <3>2, <3>3
      <3>4. CASE j = Len(items) + 1
        BY <1>12, <1>14, <2>1, <3>1, <3>2, <3>4
      <3>5. QED
        BY <2>1, <3>3, <3>4
    <2>4. ASSUME NEW d \in 1..next, Matches(Newest(d))
          PROVE  \E i \in 1..Len(longer) : longer[i] = Newest(d)
      <3>1. CASE d = next
        <4>1. Len(items) + 1 \in 1..Len(longer)
          BY <2>1
        <4>2. QED
          BY <1>13, <2>1, <3>1, <4>1
      <3>2. CASE d \in 1..reader.offset
        <4>1. PICK i \in 1..Len(items) : items[i] = Newest(d)
          BY <1>12, <2>4, <3>2
        <4>2. i \in 1..Len(longer)
          BY <2>1
        <4>3. QED
          BY <2>1, <4>1, <4>2
      <3>3. QED
        BY <1>13, <3>1, <3>2
    <2>5. Len(longer) <= reader.wanted
      BY <1>1, <1>3, <2>1 DEF items
    <2>6. AnswersOf(longer, next)
      BY <2>2, <2>3, <2>4 DEF AnswersOf
    <2>7. QED
      BY <1>15, <2>1, <2>5, <2>6
  <1>18. QED
    BY <1>16, <1>17

LEMMA Filled ==
  ASSUME HistoryInv, Fill
  PROVE  HistoryInv'
  <1> USE HistoryConstants
  <1> DEFINE e == [sequence |-> sequence + 1, part |-> adder.part]
  <1>1. /\ adder.at = "fill" /\ sequence' = sequence + 1
        /\ ring' = [ring EXCEPT ![head] = e]
        /\ adder' = [adder EXCEPT !.at = "move"]
        /\ UNCHANGED <<head, count, historyHeld, reader, recorded>>
    BY DEF Fill
  <1>2. HistoryTypes /\ RingHolds /\ AnswerInv
    BY DEF HistoryInv
  <1>3. /\ sequence \in Nat /\ head \in 0..HistorySize - 1 /\ count \in 0..HistorySize
        /\ adder.part \in EventPartitions
        /\ ring \in [0..HistorySize - 1 -> [sequence : Nat, part : EventPartitions \cup {AllPartitions}]]
        /\ adder \in [at : {"rest", "take", "fill", "move"}, part : EventPartitions \cup {AllPartitions}]
    BY <1>1, <1>2 DEF HistoryTypes
  <1>4. adder'.at = "move" /\ adder'.part = adder.part
    BY <1>1, <1>3
  <1>5. /\ ring'[head] = e
        /\ ring' \in [0..HistorySize - 1 -> [sequence : Nat, part : EventPartitions \cup {AllPartitions}]]
        /\ \A i \in 0..HistorySize - 1 : i # head => ring'[i] = ring[i]
    BY <1>1, <1>3
  <1>6. HistoryTypes'
    <2>1. adder' \in [at : {"rest", "take", "fill", "move"}, part : EventPartitions \cup {AllPartitions}]
      BY <1>1, <1>3
    <2>2. sequence = Len(recorded)
      BY <1>1, <1>2 DEF HistoryTypes
    <2>3. sequence' = Len(recorded') + 1
      BY <1>1, <2>2
    <2>4. historyHeld = "adder"
      BY <1>1, <1>2 DEF HistoryTypes
    <2>5. QED
      BY <1>1, <1>2, <1>3, <1>4, <1>5, <2>1, <2>3, <2>4 DEF HistoryTypes
  <1>7. ASSUME NEW d \in 1..count, d # HistorySize
        PROVE  ring'[Back(HistorySize, head, d)] = recorded[Len(recorded) + 1 - d]
    <2>1. d \in 1..HistorySize /\ HistorySize \in 1..HistorySize
      BY <1>3
    <2>2. Back(HistorySize, head, d) \in 0..HistorySize - 1 /\ Back(HistorySize, head, d) # head
      <3>1. \A a, b \in 1..HistorySize :
              Back(HistorySize, head, a) = Back(HistorySize, head, b) => a = b
        BY <1>3, HistorySlots
      <3>2. /\ Back(HistorySize, head, HistorySize) = head
            /\ Back(HistorySize, head, d) \in 0..HistorySize - 1
        BY <1>3, <2>1, HistorySlots
      <3>3. QED
        BY <1>7, <2>1, <3>1, <3>2
    <2>3. ring[Back(HistorySize, head, d)] = recorded[Len(recorded) + 1 - d]
      BY <1>1, <1>2 DEF RingHolds
    <2>4. QED
      BY <1>5, <2>2, <2>3
  <1>8. RingHolds'
    BY <1>1, <1>4, <1>5, <1>7 DEF RingHolds
  <1>9. AnswerInv'
    BY <1>1, <1>2, AnswerKept
  <1>10. QED
    BY <1>6, <1>8, <1>9 DEF HistoryInv

LEMMA Awaited ==
  ASSUME HistoryInv,
         \/ \E p \in EventPartitions : Event(p)
         \/ AdderTakes
         \/ AdderGivesUp
  PROVE  HistoryInv'
  <1>1. /\ adder.at \in {"rest", "take"} /\ UNCHANGED <<ring, head, count, sequence, reader, recorded>>
        /\ \/ /\ historyHeld' = historyHeld
              /\ \/ \E p \in EventPartitions : adder' = [at |-> "take", part |-> p]
                 \/ adder' = [adder EXCEPT !.at = "rest"]
           \/ /\ historyHeld = "nobody" /\ adder.at = "take" /\ historyHeld' = "adder"
              /\ adder' = [adder EXCEPT !.at = "fill"]
    BY DEF Event, AdderTakes, AdderGivesUp
  <1>2. HistoryTypes /\ RingHolds /\ AnswerInv
    BY DEF HistoryInv
  <1>3. /\ adder \in [at : {"rest", "take", "fill", "move"}, part : EventPartitions \cup {AllPartitions}]
        /\ adder.at # "rest" => adder.part \in EventPartitions
        /\ historyHeld # "adder"
    BY <1>1, <1>2 DEF HistoryTypes
  <1>4. /\ adder' \in [at : {"rest", "take", "fill", "move"}, part : EventPartitions \cup {AllPartitions}]
        /\ adder'.at \in {"rest", "take", "fill"}
        /\ adder'.at # "rest" => adder'.part \in EventPartitions
        /\ historyHeld' = "adder" <=> adder'.at = "fill"
        /\ historyHeld' = "reader" <=> historyHeld = "reader"
        /\ historyHeld' \in {"nobody", "adder", "reader"}
    BY <1>1, <1>2, <1>3 DEF HistoryTypes
  <1>5. HistoryTypes'
    BY <1>1, <1>2, <1>4 DEF HistoryTypes
  <1>6. RingHolds'
    BY <1>1, <1>2, <1>4 DEF RingHolds
  <1>7. AnswerInv'
    BY <1>1, <1>2, AnswerKept
  <1>8. QED
    BY <1>5, <1>6, <1>7 DEF HistoryInv

LEMMA Answered ==
  ASSUME HistoryInv,
         \/ \E p \in EventPartitions \cup {AllPartitions}, limit \in 1..HistorySize + 1 :
              AskHistory(p, limit)
         \/ ReaderTakes
         \/ ReaderGivesUp
         \/ ReadAll
         \/ Answer
  PROVE  HistoryInv'
  <1> USE HistoryConstants
  <1>0. UNCHANGED <<ring, head, count, sequence, adder, recorded>>
    BY DEF AskHistory, ReaderTakes, ReaderGivesUp, ReadAll, Answer
  <1>1. HistoryTypes /\ RingHolds /\ AnswerInv
    BY DEF HistoryInv
  <1>2. reader \in Readers
    BY <1>1 DEF HistoryTypes
  <1>3. RingHolds'
    BY <1>0, <1>1 DEF RingHolds
  <1>4. AtRest \in Readers
    BY DEF AtRest, Readers
  <1>5. ASSUME NEW p \in EventPartitions \cup {AllPartitions}, NEW limit \in 1..HistorySize + 1,
               AskHistory(p, limit)
        PROVE  HistoryTypes' /\ AnswerInv'
    <2> DEFINE size == IF limit < HistorySize THEN limit ELSE HistorySize
    <2>1. /\ reader.at = "rest" /\ historyHeld' = historyHeld
          /\ reader' = [AtRest EXCEPT !.at = "take", !.part = p, !.wanted = size]
      BY <1>5 DEF AskHistory
    <2>2. size \in 0..HistorySize
      OBVIOUS
    <2> HIDE DEF size
    <2>3. /\ reader' \in Readers /\ reader'.at = "take" /\ reader'.items = <<>> /\ reader'.offset = 0
      <3>1. AtRest.items = <<>> /\ AtRest.offset = 0
        BY DEF AtRest
      <3>2. QED
        BY <1>4, <2>1, <2>2, <3>1 DEF Readers
    <2>4. HistoryTypes'
      BY <1>0, <1>1, <2>1, <2>3 DEF HistoryTypes
    <2>5. AnswerInv'
      BY <2>3 DEF AnswerInv
    <2>6. QED
      BY <2>4, <2>5
  <1>6. CASE ReaderTakes
    <2>1. /\ reader.at = "take" /\ historyHeld = "nobody" /\ historyHeld' = "reader"
          /\ reader' = [reader EXCEPT !.at = "read"]
      BY <1>6 DEF ReaderTakes
    <2>2. /\ reader' \in Readers /\ reader'.at = "read" /\ reader'.items = <<>> /\ reader'.offset = 0
      BY <1>1, <1>2, <2>1 DEF Readers, AnswerInv
    <2>3. HistoryTypes'
      BY <1>0, <1>1, <2>1, <2>2 DEF HistoryTypes
    <2>4. AnswersOf(reader.items, reader.offset)'
      BY <2>2 DEF AnswersOf
    <2>5. reader'.offset <= count' /\ Len(reader'.items) <= reader'.wanted
      BY <2>2, <2>3 DEF HistoryTypes, Readers
    <2>6. AnswerInv'
      BY <2>2, <2>4, <2>5 DEF AnswerInv
    <2>7. QED
      BY <1>3, <2>3, <2>6 DEF HistoryInv
  <1>7. CASE ReaderGivesUp \/ Answer
    <2>1. /\ reader' = AtRest
          /\ \/ reader.at = "take" /\ historyHeld = "adder" /\ historyHeld' = historyHeld
             \/ reader.at = "give" /\ historyHeld' = "nobody"
      BY <1>7 DEF ReaderGivesUp, Answer
    <2>2. reader' \in Readers /\ reader'.at = "rest"
      BY <1>4, <2>1 DEF AtRest
    <2>3. HistoryTypes'
      BY <1>0, <1>1, <2>1, <2>2 DEF HistoryTypes
    <2>4. AnswerInv'
      BY <2>2 DEF AnswerInv
    <2>5. QED
      BY <1>3, <2>3, <2>4 DEF HistoryInv
  <1>8. CASE ReadAll
    <2>1. /\ reader.at = "read" /\ historyHeld' = historyHeld /\ reader' = [reader EXCEPT !.at = "give"]
          /\ ~(reader.offset < count /\ Len(reader.items) < reader.wanted)
      BY <1>8 DEF ReadAll, More
    <2>2. /\ reader' \in Readers /\ reader'.at = "give" /\ reader'.items = reader.items
          /\ reader'.offset = reader.offset /\ reader'.wanted = reader.wanted
          /\ reader'.part = reader.part
      BY <1>2, <2>1 DEF Readers
    <2>3. HistoryTypes'
      BY <1>0, <1>1, <2>1, <2>2 DEF HistoryTypes
    <2>4. /\ reader.offset <= count /\ Len(reader.items) <= reader.wanted
          /\ AnswersOf(reader.items, reader.offset)
      BY <1>1, <2>1 DEF AnswerInv
    <2>5. AnswersOf(reader.items, reader.offset)'
      BY <1>0, <2>2, <2>4 DEF AnswersOf, Matches, Newest
    <2>6. reader.offset = count \/ Len(reader.items) = reader.wanted
      <3>1. /\ reader.offset \in Nat /\ Len(reader.items) \in Nat
            /\ reader.wanted \in Nat /\ count \in Nat
        BY <1>1, <1>2 DEF HistoryTypes, Readers
      <3>2. QED
        BY <2>1, <2>4, <3>1
    <2>7. AnswerInv'
      BY <1>0, <2>2, <2>4, <2>5, <2>6 DEF AnswerInv
    <2>8. QED
      BY <1>3, <2>3, <2>7 DEF HistoryInv
  <1>9. QED
    BY <1>3, <1>5, <1>6, <1>7, <1>8 DEF HistoryInv

LEMMA HistoryBegins ==
  ASSUME HistoryInit
  PROVE  HistoryInv
  <1> USE HistoryConstants
  <1>1. /\ ring = [i \in 0..HistorySize - 1 |-> NoItem] /\ head = 0 /\ count = 0 /\ sequence = 0
        /\ historyHeld = "nobody" /\ adder = [at |-> "rest", part |-> AllPartitions]
        /\ reader = AtRest /\ recorded = <<>>
    BY DEF HistoryInit
  <1>2. HistoryTypes
    <2>1. ring \in [0..HistorySize - 1 -> [sequence : Nat, part : EventPartitions \cup {AllPartitions}]]
      BY <1>1 DEF NoItem
    <2>2. reader \in Readers /\ reader.at = "rest"
      BY <1>1 DEF AtRest, Readers
    <2>3. recorded \in Seq(Happenings) /\ Len(recorded) = 0
      BY <1>1
    <2>4. QED
      BY <1>1, <2>1, <2>2, <2>3 DEF HistoryTypes
  <1>3. RingHolds
    BY <1>1 DEF RingHolds
  <1>4. AnswerInv
    BY <1>1 DEF AnswerInv, AtRest
  <1>5. QED
    BY <1>2, <1>3, <1>4 DEF HistoryInv

LEMMA HistoryStep ==
  ASSUME HistoryInv, [HistoryNext]_historyVars
  PROVE  HistoryInv'
  <1>1. CASE \E p \in EventPartitions : Event(p)
    BY <1>1, Awaited
  <1>2. CASE AdderTakes \/ AdderGivesUp
    BY <1>2, Awaited
  <1>3. CASE Fill
    BY <1>3, Filled
  <1>4. CASE Move
    BY <1>4, Moved
  <1>5. CASE \E p \in EventPartitions \cup {AllPartitions}, limit \in 1..HistorySize + 1 :
               AskHistory(p, limit)
    BY <1>5, Answered
  <1>6. CASE ReaderTakes \/ ReaderGivesUp \/ ReadAll \/ Answer
    BY <1>6, Answered
  <1>7. CASE ReadOne
    BY <1>7, ReadOneMore
  <1>8. CASE UNCHANGED historyVars
    <2>1. HistoryTypes' /\ RingHolds'
      BY <1>8 DEF historyVars, HistoryInv, HistoryTypes, RingHolds
    <2>2. AnswerInv'
      BY <1>8, AnswerKept DEF historyVars, HistoryInv
    <2>3. QED
      BY <2>1, <2>2 DEF HistoryInv
  <1>9. QED
    BY <1>1, <1>2, <1>3, <1>4, <1>5, <1>6, <1>7, <1>8 DEF HistoryNext

\* The events the ring can hold are the newest ones, back to the oldest it holds.
LEMMA AnswerIsLatest ==
  ASSUME HistoryInv
  PROVE  HistoryIsLatest
  <1> USE HistoryConstants
  <1> DEFINE n == Len(recorded)
             items == reader.items
  <1>0. SUFFICES ASSUME reader.at = "give"
                 PROVE  /\ Len(items) <= reader.wanted
                        /\ \A i \in 1..Len(items) : Matches(items[i]) /\ \E k \in Held : items[i] = recorded[k]
                        /\ \A i, j \in 1..Len(items) : i < j => items[i].sequence > items[j].sequence
                        /\ \A k \in Held :
                             \/ ~Matches(recorded[k])
                             \/ \E i \in 1..Len(items) : items[i] = recorded[k]
                             \/ /\ Len(items) = reader.wanted
                                /\ \A i \in 1..Len(items) : items[i].sequence > recorded[k].sequence
    BY DEF HistoryIsLatest
  <1>1. /\ n \in Nat /\ count = (IF n < HistorySize THEN n ELSE HistorySize)
        /\ \A k \in 1..n : recorded[k].sequence = k
        /\ reader.offset \in Nat
    BY DEF HistoryInv, HistoryTypes, Readers
  <1>2. /\ reader.offset <= count /\ Len(items) <= reader.wanted
        /\ AnswersOf(items, reader.offset)
        /\ reader.offset = count \/ Len(items) = reader.wanted
    BY <1>0 DEF HistoryInv, AnswerInv
  <1> HIDE DEF n, items
  <1>3. ASSUME NEW d \in 1..count
        PROVE  n + 1 - d \in Held /\ Newest(d) = recorded[n + 1 - d] /\ recorded[n + 1 - d].sequence = n + 1 - d
    <2>1. n + 1 - d \in 1..n /\ n + 1 - d + HistorySize > n
      BY <1>1
    <2>2. QED
      BY <1>1, <2>1 DEF Held, Newest, n
  <1>4. ASSUME NEW k \in Held
        PROVE  n + 1 - k \in 1..count /\ Newest(n + 1 - k) = recorded[k] /\ recorded[k].sequence = k
    <2>1. k \in 1..n /\ k + HistorySize > n
      BY DEF Held, n
    <2>2. n + 1 - k \in 1..n /\ n + 1 - k <= HistorySize /\ n + 1 - (n + 1 - k) = k
      BY <1>1, <2>1
    <2>3. n + 1 - k \in 1..count
      BY <1>1, <2>2
    <2>4. QED
      BY <1>1, <2>1, <2>2, <2>3 DEF Newest, n
  <1>5. \A i \in 1..Len(items) : Matches(items[i]) /\ \E k \in Held : items[i] = recorded[k]
    <2>1. \A d \in 1..reader.offset : d \in 1..count
      BY <1>1, <1>2
    <2>2. QED
      BY <1>2, <1>3, <2>1 DEF AnswersOf
  <1>6. ASSUME NEW k \in Held, Matches(recorded[k])
        PROVE  \/ \E i \in 1..Len(items) : items[i] = recorded[k]
               \/ /\ Len(items) = reader.wanted
                  /\ \A i \in 1..Len(items) : items[i].sequence > recorded[k].sequence
    <2>1. CASE n + 1 - k <= reader.offset
      <3>1. n + 1 - k \in 1..reader.offset
        BY <1>1, <1>4, <2>1
      <3>2. Newest(n + 1 - k) = recorded[k]
        BY <1>4
      <3>3. Matches(Newest(n + 1 - k))
        BY <1>6, <3>2
      <3>4. \E i \in 1..Len(items) : items[i] = Newest(n + 1 - k)
        BY <1>2, <3>1, <3>3 DEF AnswersOf
      <3>5. QED
        BY <3>2, <3>4
    <2>2. CASE ~(n + 1 - k <= reader.offset)
      <3>1. reader.offset # count /\ k \in Int
        <4>1. k \in Int
          BY DEF Held
        <4>2. n + 1 - k \in 1..count
          BY <1>4
        <4>3. QED
          BY <1>1, <2>2, <4>1, <4>2
      <3>2. ASSUME NEW i \in 1..Len(items)
            PROVE  items[i].sequence > recorded[k].sequence
        <4>1. PICK d \in 1..reader.offset : items[i] = Newest(d)
          BY <1>2 DEF AnswersOf
        <4>2. d \in 1..count
          BY <1>1, <1>2
        <4>3. items[i].sequence = n + 1 - d
          BY <1>3, <4>1, <4>2
        <4>4. n + 1 - d > k
          BY <1>1, <2>2, <3>1, <4>1
        <4>5. QED
          BY <1>4, <4>3, <4>4
      <3>3. QED
        BY <1>2, <3>1, <3>2
    <2>3. QED
      BY <2>1, <2>2
  <1>7. QED
    BY <1>2, <1>5, <1>6 DEF AnswersOf, items

\* The history the web interface answers with is right: whatever the parser's task
\* records around a request, the server's answer is the newest matching events the ring
\* can hold, newest first, none of them half written (webui_add_history,
\* webui_history_json).
THEOREM HistoryIsRight == HistorySpec => []HistoryIsLatest
  <1>1. HistoryInit => HistoryInv
    BY HistoryBegins
  <1>2. HistoryInv /\ [HistoryNext]_historyVars => HistoryInv'
    BY HistoryStep
  <1>3. HistoryInv => HistoryIsLatest
    BY AnswerIsLatest
  <1>4. QED
    BY <1>1, <1>2, <1>3, PTL DEF HistorySpec
================================================================================
