----------------------------- MODULE MessageFramer -----------------------------
(***************************************************************************)
(* The byte level of AlarmDecoderParser::put(): the state machine that     *)
(* turns the bytes of an AD2* stream, as read in chunks from the UART or a *)
(* socket, into messages, and the ring buffer it collects them in.  One    *)
(* step is one turn of put()'s loop; a turn may leave the byte in place.   *)
(* What is done with a message is in VirtualSwitches and                   *)
(* AlarmDecoderParser.  The test of ring_qin_position against the end of   *)
(* the ring before each store is left out: TypeOK shows it never fires.    *)
(***************************************************************************)
EXTENDS Integers, Sequences

CONSTANTS Chars,          \* bytes 32..126
          EOL,            \* carriage return or line feed
          Noise,          \* any other byte
          ALARMDECODER_MAX_MESSAGE_SIZE,
          ErrorWrap,      \* 2^16, ring_error_count is a uint16_t
          Chunks          \* what one read can return, as sequences of bytes

Byte == Chars \cup {EOL, Noise}
Size == ALARMDECODER_MAX_MESSAGE_SIZE

\* "WARN: use int8_t so must be <= 127 for overflow protection."
ASSUME FramerAssumption ==
  /\ EOL \notin Chars /\ Noise \notin Chars /\ EOL # Noise
  /\ Size \in 2..127
  /\ ErrorWrap \in Nat \ {0}
  /\ Chunks \subseteq Seq(Byte)

VARIABLES
  AD2_Parser_State,
  ring_buffer,                           \* NoChar where memset cleared it
  ring_qin_position, ring_qout_position, \* int8_t
  ring_error_count,
  unread,                                \* bytes put() has still to consume
  message                                \* the last message handed on

ringVars == <<ring_buffer, ring_qin_position, ring_qout_position, ring_error_count>>
vars == <<AD2_Parser_State, ringVars, unread, message>>

States == {"RESET", "SCANNING_START", "SCANNING_EOL"}
NoChar == EOL
Slots  == 0..Size-1
Empty  == [i \in Slots |-> NoChar]

Init ==
  /\ AD2_Parser_State = "RESET"
  /\ ring_buffer = Empty
  /\ ring_qin_position = 0
  /\ ring_qout_position = 0
  /\ ring_error_count = 0
  /\ unread = <<>>
  /\ message = <<>>

--------------------------------------------------------------------------------
(* The ring. *)

Int8(x) == IF x > 127 THEN x - 256 ELSE x

Advance(pos) == IF Int8(pos + 1) >= Size THEN 0 ELSE Int8(pos + 1)

Count ==
  IF ring_qin_position >= ring_qout_position
  THEN ring_qin_position - ring_qout_position
  ELSE ring_qin_position + Size - ring_qout_position

Slot(i) ==
  IF ring_qout_position + i - 1 < Size THEN ring_qout_position + i - 1
                                       ELSE ring_qout_position + i - 1 - Size

\* What draining the ring from qout to qin yields.
Content == [i \in 1..Count |-> ring_buffer[Slot(i)]]

--------------------------------------------------------------------------------
(* One turn of the loop. *)

ByteIs(S) == unread # <<>> /\ Head(unread) \in S
Consume == unread' = Tail(unread)

\* put() is called with what was read; a length <= 0 is refused.
Put(chunk) ==
  /\ unread = <<>>
  /\ chunk # <<>>
  /\ unread' = chunk
  /\ UNCHANGED <<AD2_Parser_State, ringVars, message>>

Reset ==
  /\ AD2_Parser_State = "RESET"
  /\ unread # <<>>
  /\ ring_qin_position' = 0
  /\ ring_qout_position' = 0
  /\ ring_buffer' = Empty
  /\ AD2_Parser_State' = "SCANNING_START"
  /\ UNCHANGED <<ring_error_count, unread, message>>

\* The first printable byte is left for SCANNING_EOL.
StartLine ==
  /\ AD2_Parser_State = "SCANNING_START"
  /\ ByteIs(Chars)
  /\ AD2_Parser_State' = "SCANNING_EOL"
  /\ UNCHANGED <<ringVars, unread, message>>

SkipByte ==
  /\ AD2_Parser_State = "SCANNING_START"
  /\ ByteIs({EOL, Noise})
  /\ Consume
  /\ UNCHANGED <<AD2_Parser_State, ringVars, message>>

CorruptLine ==
  /\ AD2_Parser_State = "SCANNING_EOL"
  /\ ByteIs({Noise})
  /\ Consume
  /\ AD2_Parser_State' = "RESET"
  /\ UNCHANGED <<ringVars, message>>

\* The ring is drained into the message; the end of line itself is not stored.
EndLine ==
  /\ AD2_Parser_State = "SCANNING_EOL"
  /\ ByteIs({EOL})
  /\ Consume
  /\ AD2_Parser_State' = "SCANNING_START"
  /\ message' = Content
  /\ ring_qout_position' = ring_qin_position
  /\ UNCHANGED <<ring_buffer, ring_qin_position, ring_error_count>>

\* Mutant: a full ring is taken for an empty one.
StoreByteNoLoss ==
  /\ AD2_Parser_State = "SCANNING_EOL"
  /\ ByteIs(Chars)
  /\ Consume
  /\ ring_buffer' = [ring_buffer EXCEPT ![ring_qin_position] = Head(unread)]
  /\ ring_qin_position' = Advance(ring_qin_position)
  /\ UNCHANGED <<AD2_Parser_State, ring_qout_position, ring_error_count, message>>

\* If the ring is full the oldest byte is lost.
StoreByte ==
  /\ AD2_Parser_State = "SCANNING_EOL"
  /\ ByteIs(Chars)
  /\ Consume
  /\ ring_buffer' = [ring_buffer EXCEPT ![ring_qin_position] = Head(unread)]
  /\ ring_qin_position' = Advance(ring_qin_position)
  /\ IF ring_qin_position' = ring_qout_position
     THEN /\ ring_error_count' = (ring_error_count + 1) % ErrorWrap
          /\ ring_qout_position' = Advance(ring_qout_position)
     ELSE UNCHANGED <<ring_error_count, ring_qout_position>>
  /\ UNCHANGED <<AD2_Parser_State, message>>

Turn ==
  \/ Reset
  \/ StartLine
  \/ SkipByte
  \/ CorruptLine
  \/ EndLine
  \/ StoreByte

Next == Turn \/ \E chunk \in Chunks : Put(chunk)

Spec == Init /\ [][Next]_vars

--------------------------------------------------------------------------------
(* Properties. *)

\* The positions stay inside the ring: ring_buffer[qin] is never out of bounds,
\* and the int8_t positions never wrap.
TypeOK ==
  /\ AD2_Parser_State \in States
  /\ ring_buffer \in [Slots -> Chars \cup {NoChar}]
  /\ ring_qin_position \in Slots
  /\ ring_qout_position \in Slots
  /\ ring_error_count \in 0..ErrorWrap-1
  /\ unread \in Seq(Byte)
  /\ message \in Seq(Chars)

\* msg[0] is read without a test for an empty message: put() never hands one on,
\* because SCANNING_EOL is entered with a printable byte still to come.
NoEmptyMessage ==
  /\ AD2_Parser_State = "SCANNING_EOL" /\ Count = 0 => ByteIs(Chars)
  /\ AD2_Parser_State = "SCANNING_START" => Count = 0

\* The ring, whatever its positions and however the bytes were cut into chunks,
\* assembles lines: messages are what was collected, in order and without bytes
\* of the line before.
Lines == INSTANCE LineAssembler WITH
           Capacity <- Size - 1,
           LossWrap <- ErrorWrap,
           lost     <- ring_error_count,
           line     <- IF AD2_Parser_State = "RESET" THEN <<>> ELSE Content
AssemblesLines == Lines!Spec
================================================================================
