-------------------------- MODULE MessageFramerProofs --------------------------
(***************************************************************************)
(* Proofs about MessageFramer for every ring size up to 127 and every way  *)
(* the bytes are cut into reads.                                           *)
(***************************************************************************)
EXTENDS MessageFramer, SequenceTheorems, TLAPS

USE FramerAssumption DEF Size

LEMMA SizeType == Size \in 2..127 /\ Size \in Nat /\ ErrorWrap \in Nat \ {0}
  BY DEF FramerAssumption

\* A position inside the ring stays inside, and advances by one slot.
LEMMA AdvanceType ==
  ASSUME NEW pos \in Slots
  PROVE  /\ Advance(pos) \in Slots
         /\ Advance(pos) = IF pos = Size - 1 THEN 0 ELSE pos + 1
  BY SizeType DEF Slots, Advance, Int8

LEMMA CountType ==
  ASSUME ring_qin_position \in Slots, ring_qout_position \in Slots
  PROVE  /\ Count \in 0..Size-1
         /\ \A i \in 1..Count+1 : Slot(i) \in Slots
         /\ \A i \in 1..Count : Slot(i) # ring_qin_position
         /\ Slot(Count + 1) = ring_qin_position
         /\ Count = Size - 1 <=> Advance(ring_qin_position) = ring_qout_position
  <1>1. /\ Advance(ring_qin_position) = IF ring_qin_position = Size - 1 THEN 0
                                        ELSE ring_qin_position + 1
        /\ ring_qin_position \in Int /\ ring_qout_position \in Int
        /\ 0 <= ring_qin_position /\ ring_qin_position < Size
        /\ 0 <= ring_qout_position /\ ring_qout_position < Size
        /\ Size \in Int /\ Size >= 2
    BY AdvanceType, SizeType DEF Slots
  <1> HIDE DEF Size
  <1>2. CASE ring_qin_position >= ring_qout_position
    <2>1. Count = ring_qin_position - ring_qout_position
      BY <1>2 DEF Count
    <2>2. \A i \in 1..Count+1 : Slot(i) = ring_qout_position + i - 1
      BY <1>1, <1>2, <2>1 DEF Slot
    <2>3. QED
      BY <1>1, <1>2, <2>1, <2>2 DEF Slots
  <1>3. CASE ring_qin_position < ring_qout_position
    <2>1. Count = ring_qin_position + Size - ring_qout_position
      BY <1>1, <1>3 DEF Count
    <2>2. \A i \in 1..Count+1 : Slot(i) = IF ring_qout_position + i - 1 < Size
                                           THEN ring_qout_position + i - 1
                                           ELSE ring_qout_position + i - 1 - Size
      BY DEF Slot
    <2>3. QED
      BY <1>1, <1>3, <2>1, <2>2 DEF Slots
  <1>4. QED
    BY <1>1, <1>2, <1>3

\* Printable bytes only are stored.
OnlyChars ==
  AD2_Parser_State # "RESET" =>
    \A i \in 1..Count : ring_buffer[Slot(i)] \in Chars

IInv == TypeOK /\ NoEmptyMessage /\ OnlyChars

LEMMA UnreadType ==
  ASSUME TypeOK, unread # <<>>
  PROVE  Head(unread) \in Byte /\ Tail(unread) \in Seq(Byte)
  BY DEF TypeOK

\* What one stored byte does to the ring.
LEMMA StoreByteContent ==
  ASSUME IInv, StoreByte
  PROVE  /\ Count < Size - 1 =>
              /\ Count' = Count + 1
              /\ \A i \in 1..Count+1 : Slot(i)' = Slot(i)
              /\ UNCHANGED ring_error_count
         /\ Count = Size - 1 =>
              /\ Count' = Size - 1
              /\ \A i \in 1..Size-2 : Slot(i)' = Slot(i + 1)
              /\ Slot(Size - 1)' = ring_qin_position
              /\ ring_error_count' = (ring_error_count + 1) % ErrorWrap
         /\ \A s \in Slots : ring_buffer'[s] =
              IF s = ring_qin_position THEN Head(unread) ELSE ring_buffer[s]
         /\ ring_qin_position' \in Slots /\ ring_qout_position' \in Slots
         /\ Count' # 0
  <1>1. ring_qin_position \in Slots /\ ring_qout_position \in Slots
    BY DEF IInv, TypeOK
  <1>2. /\ ring_qin_position' = Advance(ring_qin_position)
        /\ ring_qout_position' = IF Advance(ring_qin_position) = ring_qout_position
                                 THEN Advance(ring_qout_position)
                                 ELSE ring_qout_position
        /\ ring_error_count' = IF Advance(ring_qin_position) = ring_qout_position
                               THEN (ring_error_count + 1) % ErrorWrap
                               ELSE ring_error_count
    BY DEF StoreByte
  <1>3. ring_qin_position' \in Slots /\ ring_qout_position' \in Slots
    BY <1>1, <1>2, AdvanceType
  <1>4. \A s \in Slots : ring_buffer'[s] =
          IF s = ring_qin_position THEN Head(unread) ELSE ring_buffer[s]
    BY DEF StoreByte, IInv, TypeOK
  <1>9. /\ ring_qin_position \in Int /\ 0 <= ring_qin_position /\ ring_qin_position < Size
        /\ ring_qout_position \in Int /\ 0 <= ring_qout_position /\ ring_qout_position < Size
        /\ Size \in Int /\ Size >= 2
    BY <1>1, SizeType DEF Slots
  <1>5. ASSUME Count < Size - 1
        PROVE  /\ Count' = Count + 1
               /\ \A i \in 1..Count+1 : Slot(i)' = Slot(i)
               /\ UNCHANGED ring_error_count
    <2>1. Advance(ring_qin_position) # ring_qout_position
      BY <1>1, <1>5, CountType
    <2>2. ring_qout_position' = ring_qout_position
      BY <1>2, <2>1
    <2>3. ring_qin_position' = IF ring_qin_position = Size - 1 THEN 0
                               ELSE ring_qin_position + 1
      BY <1>1, <1>2, AdvanceType
    <2>4. ring_qin_position' # ring_qout_position
      BY <1>2, <2>1
    <2> HIDE DEF Size
    <2>5. Count' = Count + 1
      BY <1>9, <2>2, <2>3, <2>4 DEF Count
    <2>6. \A i \in 1..Count+1 : Slot(i)' = Slot(i)
      BY <2>2 DEF Slot
    <2>7. UNCHANGED ring_error_count
      BY <1>2, <2>1
    <2>8. QED
      BY <2>5, <2>6, <2>7
  <1>6. ASSUME Count = Size - 1
        PROVE  /\ Count' = Size - 1
               /\ \A i \in 1..Size-2 : Slot(i)' = Slot(i + 1)
               /\ Slot(Size - 1)' = ring_qin_position
               /\ ring_error_count' = (ring_error_count + 1) % ErrorWrap
    <2>1. Advance(ring_qin_position) = ring_qout_position
      BY <1>1, <1>6, CountType
    <2>2. /\ ring_qin_position' = ring_qout_position
          /\ ring_qout_position' = IF ring_qout_position = Size - 1 THEN 0
                                   ELSE ring_qout_position + 1
      BY <1>1, <1>2, <2>1, AdvanceType
    <2>3. ring_qout_position = IF ring_qin_position = Size - 1 THEN 0
                               ELSE ring_qin_position + 1
      BY <1>1, <2>1, AdvanceType
    <2> HIDE DEF Size
    <2>4. Count' = Size - 1
      BY <1>9, <2>2, <2>3 DEF Count
    <2>5. \A i \in 1..Size-2 : Slot(i)' = Slot(i + 1)
      BY <1>9, <2>2 DEF Slot
    <2>6. Slot(Size - 1)' = ring_qin_position
      BY <1>9, <2>2, <2>3 DEF Slot
    <2>7. QED
      BY <1>2, <2>1, <2>4, <2>5, <2>6
  <1>7. Count' # 0
    BY <1>1, <1>5, <1>6, CountType, SizeType
  <1>8. QED
    BY <1>2, <1>3, <1>4, <1>5, <1>6, <1>7

\* The positions stay in the ring, and no message is empty.
THEOREM FramerInvariant == Spec => []IInv
  <1>1. Init => IInv
    BY SizeType DEF Init, IInv, TypeOK, NoEmptyMessage, OnlyChars, States, Slots, Empty, Count
  <1>2. IInv /\ [Next]_vars => IInv'
    <2> SUFFICES ASSUME IInv, [Next]_vars
                 PROVE  IInv'
      OBVIOUS
    <2> USE DEF IInv
    <2>1. ASSUME NEW chunk \in Chunks, Put(chunk)
          PROVE  IInv'
      <3>1. chunk \in Seq(Byte)
        BY DEF FramerAssumption
      <3>2. QED
        BY <2>1, <3>1 DEF Put, TypeOK, NoEmptyMessage, OnlyChars, ringVars, Count, Slot, ByteIs
    <2>2. CASE Reset
      BY <2>2, SizeType DEF Reset, TypeOK, States, NoEmptyMessage, OnlyChars, Slots, Empty, Count
    <2>3. CASE StartLine
      BY <2>3 DEF StartLine, TypeOK, States, NoEmptyMessage, OnlyChars, ringVars, Count, Slot, ByteIs
    <2>4. CASE SkipByte
      BY <2>4, UnreadType DEF SkipByte, TypeOK, NoEmptyMessage, OnlyChars, ringVars, Count, Slot,
                              ByteIs, Consume
    <2>5. CASE CorruptLine
      BY <2>5, UnreadType DEF CorruptLine, TypeOK, States, NoEmptyMessage, OnlyChars, ringVars,
                              ByteIs, Consume
    <2>6. CASE EndLine
      <3>1. Count' = 0
        BY <2>6, SizeType DEF EndLine, Count, TypeOK, Slots
      <3>2. message' \in Seq(Chars)
        <4>1. Count \in Nat
          BY CountType DEF TypeOK
        <4>2. QED
          BY <2>6, <4>1 DEF EndLine, OnlyChars, Content
      <3>3. QED
        BY <2>6, <3>1, <3>2, UnreadType DEF EndLine, TypeOK, States, NoEmptyMessage, OnlyChars,
                                            ByteIs, Consume
    <2>7. CASE StoreByte
      <3>1. TypeOK'
        BY <2>7, StoreByteContent, UnreadType, SizeType DEF StoreByte, TypeOK, ByteIs, Consume
      <3>2. NoEmptyMessage'
        BY <2>7, StoreByteContent DEF StoreByte, NoEmptyMessage
      <3>3. OnlyChars'
        <4>1. Head(unread) \in Chars
          BY <2>7 DEF StoreByte, ByteIs
        <4>2. CASE Count < Size - 1
          <5>1. /\ Count \in Nat
                /\ \A i \in 1..Count+1 : Slot(i) \in Slots
                /\ \A i \in 1..Count : Slot(i) # ring_qin_position
                /\ Slot(Count + 1) = ring_qin_position
            BY CountType DEF TypeOK
          <5>2. \A i \in 1..Count+1 : ring_buffer'[Slot(i)] \in Chars
            BY <2>7, <4>1, <5>1, StoreByteContent DEF StoreByte, OnlyChars
          <5>3. QED
            BY <2>7, <4>2, <5>1, <5>2, StoreByteContent DEF OnlyChars
        <4>3. CASE Count = Size - 1
          BY <2>7, <4>1, <4>3, StoreByteContent, CountType, SizeType DEF StoreByte, TypeOK, OnlyChars
        <4>4. QED
          BY <4>2, <4>3, CountType, SizeType DEF TypeOK
      <3>4. QED
        BY <3>1, <3>2, <3>3
    <2>8. CASE UNCHANGED vars
      BY <2>8 DEF vars, ringVars, TypeOK, NoEmptyMessage, OnlyChars, Count, Slot, ByteIs
    <2>9. QED
      BY <2>1, <2>2, <2>3, <2>4, <2>5, <2>6, <2>7, <2>8 DEF Next, Turn
  <1>3. QED
    BY <1>1, <1>2, PTL DEF Spec

\* The type invariant and the absence of empty messages, by themselves.
THEOREM FramerTypeCorrect == Spec => []TypeOK
  BY FramerInvariant, PTL DEF IInv

THEOREM MessagesNotEmpty == Spec => []NoEmptyMessage
  BY FramerInvariant, PTL DEF IInv

--------------------------------------------------------------------------------
(* The ring implements LineAssembler. *)

\* Append and Tail, element by element.
LEMMA AppendElements ==
  ASSUME NEW S, NEW s \in Seq(S), NEW e \in S
  PROVE  Append(s, e) = [i \in 1..Len(s)+1 |-> IF i = Len(s) + 1 THEN e ELSE s[i]]
  <1> DEFINE n == Len(s)
             t == Append(s, e)
  <1>1. /\ t \in Seq(S)
        /\ Len(t) = n + 1
        /\ \A i \in 1..n : t[i] = s[i]
        /\ t[n + 1] = e
        /\ n \in Nat
    BY AppendProperties
  <1> HIDE DEF n, t
  <1>2. t = [i \in 1..n+1 |-> t[i]]
    <2>1. t = [i \in 1..Len(t) |-> t[i]]
      BY <1>1
    <2>2. QED
      BY <1>1, <2>1
  <1>3. \A i \in 1..n+1 : i # n + 1 => i \in 1..n
    BY <1>1
  <1>4. \A i \in 1..n+1 : t[i] = IF i = n + 1 THEN e ELSE s[i]
    BY <1>1, <1>3
  <1>5. t = [i \in 1..n+1 |-> IF i = n + 1 THEN e ELSE s[i]]
    BY <1>2, <1>4
  <1>6. QED
    BY <1>5 DEF n, t

LEMMA AppendTailElements ==
  ASSUME NEW S, NEW s \in Seq(S), NEW e \in S, s # <<>>
  PROVE  Append(Tail(s), e) = [i \in 1..Len(s) |-> IF i = Len(s) THEN e ELSE s[i + 1]]
  <1> DEFINE n == Len(s)
             t == Tail(s)
  <1>1. /\ t \in Seq(S)
        /\ Len(t) = n - 1
        /\ \A i \in 1..Len(t) : t[i] = s[i + 1]
        /\ n \in Nat \ {0}
    BY HeadTailProperties, EmptySeq
  <1> HIDE DEF n, t
  <1>2. Append(t, e) = [i \in 1..Len(t)+1 |-> IF i = Len(t) + 1 THEN e ELSE t[i]]
    BY <1>1, AppendElements
  <1>3. Append(t, e) = [i \in 1..n |-> IF i = n THEN e ELSE t[i]]
    BY <1>1, <1>2
  <1>4. \A i \in 1..n : i # n => i \in 1..n-1
    BY <1>1
  <1>5. Append(t, e) = [i \in 1..n |-> IF i = n THEN e ELSE s[i + 1]]
    BY <1>1, <1>3, <1>4
  <1>6. QED
    BY <1>5 DEF n, t

LEMMA ContentType ==
  ASSUME IInv, AD2_Parser_State # "RESET"
  PROVE  /\ Content \in Seq(Chars)
         /\ Len(Content) = Count
         /\ Count \in 0..Size-1
         /\ \A i \in 1..Count : Content[i] = ring_buffer[Slot(i)]
  <1>1. Count \in 0..Size-1
    BY CountType DEF IInv, TypeOK
  <1>2. Count \in Nat
    BY <1>1, SizeType
  <1>3. \A i \in 1..Count : ring_buffer[Slot(i)] \in Chars
    BY DEF IInv, OnlyChars
  <1>4. QED
    BY <1>1, <1>2, <1>3 DEF Content

\* A stored byte is collected, at the cost of the oldest one when the ring is full.
LEMMA StoreCollects ==
  ASSUME IInv, IInv', StoreByte
  PROVE  Lines!Next
  <1> DEFINE c == Head(unread)
  <1>1. /\ c \in Chars
        /\ AD2_Parser_State = "SCANNING_EOL" /\ AD2_Parser_State' = "SCANNING_EOL"
        /\ message' = message
    BY DEF StoreByte, ByteIs
  <1>2. /\ Content \in Seq(Chars) /\ Len(Content) = Count /\ Count \in 0..Size-1
        /\ \A i \in 1..Count : Content[i] = ring_buffer[Slot(i)]
    BY <1>1, ContentType
  <1>3. /\ Content' \in Seq(Chars) /\ Len(Content') = Count'
        /\ Content' = [i \in 1..Count' |-> ring_buffer'[Slot(i)']]
    <2>1. Count' \in 0..Size-1
      BY StoreByteContent, <1>2, SizeType
    <2>2. /\ Content' = [i \in 1..Count' |-> ring_buffer'[Slot(i)']]
          /\ \A i \in 1..Count' : ring_buffer'[Slot(i)'] \in Chars
      BY <1>1 DEF Content, IInv, OnlyChars
    <2>3. Count' \in Nat
      BY <2>1, SizeType
    <2> HIDE DEF Content
    <2>4. QED
      BY <2>2, <2>3
  <1>4. /\ \A i \in 1..Count+1 : Slot(i) \in Slots
        /\ \A i \in 1..Count : Slot(i) # ring_qin_position
        /\ Slot(Count + 1) = ring_qin_position
    BY CountType DEF IInv, TypeOK
  <1>5. \A i \in 1..Count+1 : ring_buffer'[Slot(i)] =
          IF i = Count + 1 THEN c ELSE Content[i]
    BY <1>2, <1>4, StoreByteContent
  <1> HIDE DEF c
  <1>6. CASE Count < Size - 1
    <2>1. /\ Count' = Count + 1
          /\ \A i \in 1..Count+1 : Slot(i)' = Slot(i)
          /\ ring_error_count' = ring_error_count
      BY <1>6, StoreByteContent
    <2>2. Append(Content, c) = [i \in 1..Count+1 |-> IF i = Count + 1 THEN c ELSE Content[i]]
      BY <1>1, <1>2, AppendElements
    <2>3. Content' = [i \in 1..Count+1 |-> IF i = Count + 1 THEN c ELSE Content[i]]
      BY <1>3, <1>5, <2>1
    <2>4. Content' = Append(Content, c)
      BY <2>2, <2>3
    <2>5. Len(Content) < Size - 1
      BY <1>2, <1>6
    <2>6. Lines!Collect(c)
      BY <1>1, <2>1, <2>4, <2>5 DEF Lines!Collect
    <2>7. QED
      BY <1>1, <2>6 DEF Lines!Next
  <1>7. CASE Count = Size - 1
    <2>1. /\ Count' = Size - 1
          /\ \A i \in 1..Size-2 : Slot(i)' = Slot(i + 1)
          /\ Slot(Size - 1)' = ring_qin_position
          /\ ring_error_count' = (ring_error_count + 1) % ErrorWrap
      BY <1>7, StoreByteContent
    <2>2. Size - 1 \in Nat /\ Size - 1 >= 1 /\ Count = Size - 1
      BY <1>7, SizeType
    <2> HIDE DEF Size
    <2>3. Append(Tail(Content), c) =
            [i \in 1..Size-1 |-> IF i = Size - 1 THEN c ELSE Content[i + 1]]
      <3>1. Content # <<>> /\ Len(Content) = Size - 1
        BY <1>2, <2>2
      <3>2. QED
        BY <1>1, <1>2, <3>1, AppendTailElements
    <2>4. \A i \in 1..Size-1 : ring_buffer'[Slot(i)'] =
            IF i = Size - 1 THEN c ELSE Content[i + 1]
      <3>1. ring_buffer'[Slot(Size - 1)'] = c
        BY <1>4, <1>5, <2>1, <2>2
      <3>2. ASSUME NEW i \in 1..Size-2
            PROVE  ring_buffer'[Slot(i)'] = Content[i + 1]
        <4>1. i + 1 \in 1..Count+1 /\ i + 1 # Count + 1
          BY <2>2
        <4>2. QED
          BY <4>1, <1>5, <2>1
      <3>3. \A i \in 1..Size-1 : i = Size - 1 \/ (i \in 1..Size-2 /\ i # Size - 1)
        BY <2>2
      <3>4. QED
        BY <3>1, <3>2, <3>3
    <2>5. Content' = Append(Tail(Content), c)
      BY <1>3, <2>1, <2>3, <2>4
    <2>6. Len(Content) = Size - 1
      BY <1>2, <1>7
    <2>7. Lines!CollectLosingOldest(c)
      BY <1>1, <2>1, <2>5, <2>6 DEF Lines!CollectLosingOldest
    <2>8. QED
      BY <1>1, <2>7 DEF Lines!Next
  <1>8. QED
    BY <1>2, <1>6, <1>7, SizeType

\* The ring assembles lines.
THEOREM RingAssemblesLines == Spec => AssemblesLines
  <1>1. Init => Lines!Init
    BY DEF Init, Lines!Init
  <1>2. IInv /\ IInv' /\ [Next]_vars => [Lines!Next]_(Lines!vars)
    <2> SUFFICES ASSUME IInv, IInv', [Next]_vars
                 PROVE  [Lines!Next]_(Lines!vars)
      OBVIOUS
    <2>1. ASSUME NEW chunk \in Chunks, Put(chunk)
          PROVE  [Lines!Next]_(Lines!vars)
      BY <2>1 DEF Put, ringVars, Lines!vars, Content, Count, Slot
    <2>2. CASE Reset
      <3>1. Count' = 0
        BY <2>2 DEF Reset, Count
      <3>2. Content' = <<>>
        BY <3>1 DEF Content
      <3>3. QED
        BY <2>2, <3>2 DEF Reset, Lines!vars
    <2>3. CASE StartLine
      BY <2>3 DEF StartLine, ringVars, Lines!vars, Content, Count, Slot
    <2>4. CASE SkipByte
      BY <2>4 DEF SkipByte, ringVars, Lines!vars, Content, Count, Slot
    <2>5. CASE CorruptLine
      BY <2>5 DEF CorruptLine, ringVars, Lines!GiveUp, Lines!Next
    <2>6. CASE EndLine
      <3>1. Count' = 0
        BY <2>6, SizeType DEF EndLine, Count, IInv, TypeOK, Slots
      <3>2. Content' = <<>>
        BY <3>1 DEF Content
      <3>3. Count # 0
        BY <2>6 DEF EndLine, IInv, NoEmptyMessage, ByteIs, FramerAssumption
      <3>4. Content # <<>>
        BY <2>6, <3>3, ContentType DEF EndLine
      <3>5. QED
        BY <2>6, <3>2, <3>4 DEF EndLine, Lines!HandOver, Lines!Next
    <2>7. CASE StoreByte
      BY <2>7, StoreCollects
    <2>8. CASE UNCHANGED vars
      BY <2>8 DEF vars, ringVars, Lines!vars, Content, Count, Slot
    <2>9. QED
      BY <2>1, <2>2, <2>3, <2>4, <2>5, <2>6, <2>7, <2>8 DEF Next, Turn
  <1>3. QED
    BY <1>1, <1>2, FramerInvariant, PTL DEF Spec, AssemblesLines, Lines!Spec
================================================================================
