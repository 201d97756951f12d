---------------------------- MODULE SocketProofs ----------------------------
(***************************************************************************)
(* Theorems about the framing of Socket.tla, for any number of sending      *)
(* threads, any lengths of prefix, frames and connection, any slowness and  *)
(* any exits: what the receiver may rely on whatever times out, and what it *)
(* is given as long as nothing does.                                       *)
(***************************************************************************)
EXTENDS Socket, SequenceTheorems, TLAPS

-----------------------------------------------------------------------------
(* The inductive invariants.                                               *)

\* A message is complete, or its length known, only if its prefix was read.
PrefixBeforeLength ==
  totalLen \geq 0 \/ receiver = "complete" => Len(buf) \geq PrefixLen

\* Each thread has one turn, the mutex is with the last one, and a thread whose
\* turn is over has sent its frame.
SendersTakeTurns ==
  /\ \A m, n \in DOMAIN order : order[m] = order[n] => m = n
  /\ \A s \in Senders :
       /\ sender[s] = "idle" <=> \A n \in DOMAIN order : order[n] # s
       /\ sender[s] = "idle" => totalSent[s] = 0
       /\ sender[s] = "sent" => totalSent[s] = FrameLen[s]
       /\ sender[s] \in {"writing", "late", "spinning"} =>
            sm = s /\ order # <<>> /\ order[Len(order)] = s

\* The bytes w are grouped by frame, in the order q of the frames.
Grouped(q, w) ==
  /\ \A k \in 1 .. Len(w) : \E n \in DOMAIN q : q[n] = w[k].frame
  /\ \A k, l \in 1 .. Len(w), m, n \in DOMAIN q :
       k \leq l /\ q[m] = w[k].frame /\ q[n] = w[l].frame => m \leq n

OnTheWayInTurn == Grouped(order, buf \o stream)

\* Byte j of w is in place, as seen from byte i, which is of frame n: it is of the
\* same frame or begins the next one, as far away as it should be.
InPlace(q, w, n, i, j) ==
  /\ w[i].pos + (j - i) \leq FrameLen[q[n]] =>
       w[j] = [frame |-> q[n], pos |-> w[i].pos + (j - i)]
  /\ w[i].pos + (j - i) = FrameLen[q[n]] + 1 =>
       n + 1 \in DOMAIN q /\ w[j] = [frame |-> q[n + 1], pos |-> 1]

\* The bytes w are a stretch of the frames q, back to back.
Contiguous(q, w) ==
  /\ \A i \in 1 .. Len(w) : \E n \in DOMAIN q :
       w[i].frame = q[n] /\ w[i].pos \in 1 .. FrameLen[q[n]]
  /\ \A i, j \in 1 .. Len(w), n \in DOMAIN q :
       i \leq j /\ w[i].frame = q[n] => InPlace(q, w, n, i, j)

\* Their first byte is byte p of frame n, the one after their last would be.
StartsAt(q, w, n, p) == n \in DOMAIN q /\ w[1] = [frame |-> q[n], pos |-> p]
EndsAt(q, w, n, p) ==
  LET last == w[Len(w)] IN
  \A m \in DOMAIN q : last.frame = q[m] =>
    IF last.pos < FrameLen[q[m]] THEN n = m /\ p = last.pos + 1
                                 ELSE n = m + 1 /\ p = 1

\* The frame that is being read, and where the next byte to read is.
Current == order[Len(delivered) + 1]
FrameRead == buf # <<>> /\ Len(buf) = FrameLen[Current]
ReadTurn == IF FrameRead THEN Len(delivered) + 2 ELSE Len(delivered) + 1
ReadPos == IF FrameRead THEN 1 ELSE Len(buf) + 1

\* Where the next byte to write is.
Last == order[Len(order)]
FrameWritten == order = <<>> \/ totalSent[Last] = FrameLen[Last]
WriteTurn == IF FrameWritten THEN Len(order) + 1 ELSE Len(order)
WritePos == IF FrameWritten THEN 1 ELSE totalSent[Last] + 1

\* Nobody handles a timeout.
OnTime ==
  /\ \A s \in Senders : sender[s] # "late"
  /\ receiver \notin {"late", "crashed"}

\* The buffer holds the beginning of the frame whose turn it is, and the length
\* is that of the frame as soon as the prefix is there.
BufferIsPrefix ==
  /\ buf # <<>> => Len(delivered) < Len(order) /\ Len(buf) \leq FrameLen[Current]
  /\ \A k \in 1 .. Len(buf) : buf[k] = [frame |-> Current, pos |-> k]
  /\ totalLen = IF Len(buf) \geq PrefixLen THEN FrameLen[Current] ELSE -1
  /\ receiver = "reading" => ~ FrameRead
  /\ receiver = "complete" => FrameRead

\* The stream holds what has been written and not been read.
StreamIsBetween ==
  /\ Contiguous(order, stream)
  /\ IF stream = <<>> THEN ReadTurn = WriteTurn /\ ReadPos = WritePos
                      ELSE /\ StartsAt(order, stream, ReadTurn, ReadPos)
                           /\ EndsAt(order, stream, WriteTurn, WritePos)

\* The last byte written of a frame that is not delivered is still on its way.
LastByteIsThere ==
  \A n \in DOMAIN order :
    LET byte == [frame |-> order[n], pos |-> totalSent[order[n]]] IN
    n > Len(delivered) /\ totalSent[order[n]] > 0 =>
      \/ \E k \in 1 .. Len(stream) : stream[k] = byte
      \/ \E k \in 1 .. Len(buf) : buf[k] = byte

InStep ==
  timeouts = 0 =>
    OnTime /\ BufferIsPrefix /\ StreamIsBetween /\ FramesIntact /\ LastByteIsThere

-----------------------------------------------------------------------------
(* What the sequences of the model are.                                    *)

\* Bytes is a sequence: one byte per position.
LEMMA BytesFacts ==
  ASSUME NEW s \in Senders, NEW from \in Nat, NEW n \in Nat
  PROVE  /\ Bytes(s, from + 1, from + n) \in Seq(Byte)
         /\ Len(Bytes(s, from + 1, from + n)) = n
         /\ \A k \in 1 .. n :
              Bytes(s, from + 1, from + n)[k] = [frame |-> s, pos |-> from + k]
<1> DEFINE b == [k \in 1 .. n |-> [frame |-> s, pos |-> from + k]]
<1>1. Bytes(s, from + 1, from + n) = b
  <2>1. (from + n) - (from + 1) + 1 = n /\ \A k \in 1 .. n : (from + 1) + k - 1 = from + k
    OBVIOUS
  <2> QED BY <2>1 DEF Bytes
<1>2. b \in [1 .. n -> Byte]
  BY DEF Byte
<1>3. b \in Seq(Byte)
  BY <1>2, SeqDef
<1>4. Len(b) = n
  BY <1>2, <1>3, LenProperties
<1> QED BY <1>1, <1>3, <1>4

\* A write appends the next bytes of the frame.
LEMMA WriteFacts ==
  ASSUME TypeOK, NEW s \in Senders, NEW n, Write(s, n)
  PROVE  /\ n \in Nat \ {0} /\ totalSent[s] + n \leq FrameLen[s]
         /\ stream' \in Seq(Byte)
         /\ Len(stream') = Len(stream) + n /\ Len(stream') \leq Capacity
         /\ \A k \in 1 .. Len(stream) : stream'[k] = stream[k]
         /\ \A k \in 1 .. n :
              stream'[Len(stream) + k] = [frame |-> s, pos |-> totalSent[s] + k]
<1> DEFINE b == Bytes(s, totalSent[s] + 1, totalSent[s] + n)
<1>1. /\ stream \in Seq(Byte) /\ totalSent[s] \in Nat /\ FrameLen[s] \in Nat
      /\ Capacity \in Nat /\ Len(stream) \in Nat
  BY LengthAssumption DEF TypeOK
<1>2. n \in Nat \ {0} /\ totalSent[s] + n \leq FrameLen[s] /\ Len(stream) + n \leq Capacity
  BY <1>1, SMTT(60) DEF Write, Least
<1>3. /\ b \in Seq(Byte) /\ Len(b) = n
      /\ \A k \in 1 .. n : b[k] = [frame |-> s, pos |-> totalSent[s] + k]
  BY <1>1, <1>2, BytesFacts, SMTT(60)
<1>4. stream' = stream \o b
  BY DEF Write
<1> HIDE DEF b
<1>5. /\ stream \o b \in Seq(Byte) /\ Len(stream \o b) = Len(stream) + n
      /\ \A i \in 1 .. Len(stream) + n :
           (stream \o b)[i] = IF i \leq Len(stream) THEN stream[i] ELSE b[i - Len(stream)]
  BY <1>1, <1>3, ConcatProperties
<1>6. \A k \in 1 .. Len(stream) : stream'[k] = stream[k]
  BY <1>1, <1>2, <1>4, <1>5
<1>7. \A k \in 1 .. n : stream'[Len(stream) + k] = b[k]
  <2> SUFFICES ASSUME NEW k \in 1 .. n PROVE stream'[Len(stream) + k] = b[k]
    OBVIOUS
  <2>1. /\ Len(stream) + k \in 1 .. Len(stream) + n
        /\ ~ (Len(stream) + k \leq Len(stream)) /\ (Len(stream) + k) - Len(stream) = k
    BY <1>1, <1>2
  <2> QED BY <2>1, <1>4, <1>5
<1> QED BY <1>2, <1>3, <1>4, <1>5, <1>6, <1>7

\* A read takes its bytes from the front of the stream.
LEMMA TakeFacts ==
  ASSUME TypeOK, NEW n, Take(n)
  PROVE  /\ n \in 1 .. Len(stream) /\ n \leq ReadLength
         /\ stream' \in Seq(Byte) /\ Len(stream') = Len(stream) - n
         /\ \A k \in 1 .. Len(stream) - n : stream'[k] = stream[n + k]
         /\ SubSeq(stream, 1, n) \in Seq(Byte) /\ Len(SubSeq(stream, 1, n)) = n
         /\ \A k \in 1 .. n : SubSeq(stream, 1, n)[k] = stream[k]
         /\ SubSeq(stream, 1, n) \o stream' = stream
<1>1. /\ stream \in Seq(Byte) /\ buf \in Seq(Byte) /\ totalLen \in Int /\ PrefixLen \in Nat
      /\ Len(stream) \in Nat /\ Len(buf) \in Nat
  BY LengthAssumption DEF TypeOK
<1>2. n \in 1 .. Len(stream) /\ n \leq ReadLength
  BY <1>1 DEF Take, Least, ReadLength
<1>3. \A i \in 1 .. Len(stream) : stream[i] \in Byte
  BY <1>1
<1>4. stream' = SubSeq(stream, n + 1, Len(stream))
  BY DEF Take
<1>5. /\ SubSeq(stream, n + 1, Len(stream)) \in Seq(Byte)
      /\ Len(SubSeq(stream, n + 1, Len(stream))) = Len(stream) - n
      /\ \A k \in 1 .. Len(stream) - n :
           SubSeq(stream, n + 1, Len(stream))[k] = stream[n + k]
  <2>1. \A i \in n + 1 .. Len(stream) : stream[i] \in Byte
    BY <1>1, <1>2, <1>3
  <2>2. n + 1 \in Int /\ Len(stream) \in Int
    BY <1>1, <1>2
  <2>3. /\ SubSeq(stream, n + 1, Len(stream)) \in Seq(Byte)
        /\ Len(SubSeq(stream, n + 1, Len(stream)))
             = IF n + 1 <= Len(stream) THEN Len(stream) - (n + 1) + 1 ELSE 0
        /\ \A k \in 1 .. Len(stream) - (n + 1) + 1 :
             SubSeq(stream, n + 1, Len(stream))[k] = stream[(n + 1) + k - 1]
    BY <2>1, <2>2, SubSeqProperties
  <2> QED BY <2>3, <1>1, <1>2
<1>6. /\ SubSeq(stream, 1, n) \in Seq(Byte) /\ Len(SubSeq(stream, 1, n)) = n
      /\ \A k \in 1 .. n : SubSeq(stream, 1, n)[k] = stream[k]
  <2>1. \A i \in 1 .. n : stream[i] \in Byte
    BY <1>1, <1>2, <1>3
  <2>2. /\ SubSeq(stream, 1, n) \in Seq(Byte)
        /\ Len(SubSeq(stream, 1, n)) = IF 1 <= n THEN n - 1 + 1 ELSE 0
        /\ \A k \in 1 .. n - 1 + 1 : SubSeq(stream, 1, n)[k] = stream[1 + k - 1]
    BY <2>1, <1>2, SubSeqProperties
  <2> QED BY <2>2, <1>2
<1>7. SubSeq(stream, 1, n) \o SubSeq(stream, n + 1, Len(stream)) = stream
  <2>1. /\ 1 \in 1 .. Len(stream) + 1 /\ n \in 1 - 1 .. Len(stream)
        /\ Len(stream) \in n .. Len(stream)
    BY <1>1, <1>2
  <2>2. SubSeq(stream, 1, n) \o SubSeq(stream, n + 1, Len(stream))
          = SubSeq(stream, 1, Len(stream))
    BY <2>1, <1>1, ConcatAdjacentSubSeq
  <2> QED BY <2>2, <1>1, SubSeqFull
<1> QED BY <1>2, <1>4, <1>5, <1>6, <1>7

LEMMA BytesAssociate ==
  ASSUME NEW a \in Seq(Byte), NEW b \in Seq(Byte), NEW c \in Seq(Byte)
  PROVE  (a \o b) \o c = a \o (b \o c)
BY ConcatAssociative

\* What a read takes from the stream is at the end of the buffer.
LEMMA ReadFacts ==
  ASSUME TypeOK, NEW n, Take(n), buf' = buf \o SubSeq(stream, 1, n)
  PROVE  /\ buf' \in Seq(Byte) /\ Len(buf') = Len(buf) + n /\ Len(buf) \in Nat
         /\ \A k \in 1 .. Len(buf) : buf'[k] = buf[k]
         /\ \A k \in 1 .. n : buf'[Len(buf) + k] = stream[k]
         /\ buf' \o stream' = buf \o stream
<1> DEFINE r == SubSeq(stream, 1, n)
<1>1. /\ n \in Nat \ {0} /\ r \in Seq(Byte) /\ Len(r) = n
      /\ \A k \in 1 .. n : r[k] = stream[k]
      /\ stream' \in Seq(Byte) /\ r \o stream' = stream
  BY TakeFacts, SMTT(60)
<1>2. buf' = buf \o r /\ buf \in Seq(Byte) /\ Len(buf) \in Nat
  BY DEF TypeOK
<1> HIDE DEF r
<1>3. /\ buf \o r \in Seq(Byte) /\ Len(buf \o r) = Len(buf) + n
      /\ \A i \in 1 .. Len(buf) + n :
           (buf \o r)[i] = IF i <= Len(buf) THEN buf[i] ELSE r[i - Len(buf)]
  BY <1>1, <1>2, ConcatProperties
<1>4. \A k \in 1 .. Len(buf) : buf'[k] = buf[k]
  BY <1>1, <1>2, <1>3
<1>5. \A k \in 1 .. n : buf'[Len(buf) + k] = r[k]
  <2> SUFFICES ASSUME NEW k \in 1 .. n PROVE buf'[Len(buf) + k] = r[k]
    OBVIOUS
  <2>1. /\ Len(buf) + k \in 1 .. Len(buf) + n
        /\ ~ (Len(buf) + k <= Len(buf)) /\ (Len(buf) + k) - Len(buf) = k
    BY <1>1, <1>2
  <2> QED BY <2>1, <1>2, <1>3
<1>6. buf' \o stream' = buf \o stream
  <2>1. (buf \o r) \o stream' = buf \o (r \o stream')
    BY <1>1, <1>2, BytesAssociate
  <2> QED BY <2>1, <1>1, <1>2
<1> QED BY <1>1, <1>2, <1>3, <1>4, <1>5, <1>6

-----------------------------------------------------------------------------
(* Type correctness.                                                       *)

\* The length of a frame is decoded from bytes of it, or is garbage.
LEMMA DecodedType ==
  ASSUME NEW b \in Seq(Byte), Len(b) \geq PrefixLen
  PROVE  Decoded(b) \subseteq Int
<1>1. Len(b) \in Nat /\ PrefixLen \in Nat \ {0}
  BY LengthAssumption
<1>2. 1 \in 1 .. Len(b)
  BY <1>1
<1>3. b[1] \in Byte
  BY <1>2
<1>4. FrameLen[b[1].frame] \in Int /\ GarbageLengths \subseteq Int
  BY <1>3, LengthAssumption DEF Byte
<1>5. Decoded(b) \in {{FrameLen[b[1].frame]}, GarbageLengths}
  BY DEF Decoded
<1> QED BY <1>4, <1>5

SendTypes ==
  /\ sm \in Senders \cup {NoSender}
  /\ sender \in [Senders -> {"idle", "writing", "late", "spinning", "sent"}]
  /\ totalSent \in [Senders -> Nat]
  /\ \A s \in Senders : totalSent[s] \leq FrameLen[s]
  /\ order \in Seq(Senders)
StreamTypes ==
  /\ stream \in Seq(Byte) /\ Len(stream) \leq Capacity
  /\ timeouts \in 0 .. MaxTimeouts /\ gone \subseteq {"sender", "receiver"}
ReceiveTypes ==
  /\ receiver \in {"reading", "late", "spinning", "complete", "crashed"}
  /\ buf \in Seq(Byte)
  /\ totalLen \in Int
  /\ delivered \in Seq(Seq(Byte))

LEMMA TypeParts ==
  /\ TypeOK <=> SendTypes /\ StreamTypes /\ ReceiveTypes
  /\ TypeOK' <=> SendTypes' /\ StreamTypes' /\ ReceiveTypes'
BY DEF TypeOK, SendTypes, StreamTypes, ReceiveTypes

LEMMA SendTypesStep ==
  ASSUME TypeOK, PrefixBeforeLength, NEW s \in Senders, SendStep(s)
  PROVE  TypeOK' /\ PrefixBeforeLength'
<1>0. /\ MaxTimeouts \in Nat /\ timeouts \in 0 .. MaxTimeouts
      /\ FrameLen \in [Senders -> Nat]
  BY FaultAssumption, LengthAssumption DEF TypeOK
<1>1. UNCHANGED <<recvVars, gone>>
  BY DEF SendStep, StartSend, WriteSome, EndSend, WriteTimeout, LateWrite, WriteError
<1>2. ReceiveTypes' /\ PrefixBeforeLength'
  BY <1>1 DEF recvVars, TypeOK, ReceiveTypes, PrefixBeforeLength
<1>3. CASE StartSend(s)
  <2>1. order' \in Seq(Senders)
    BY <1>3 DEF StartSend, TypeOK
  <2> QED BY <1>2, <1>3, <2>1, TypeParts DEF StartSend, TypeOK, SendTypes, StreamTypes
<1>4. ASSUME NEW n \in 1 .. FrameLen[s], Write(s, n), UNCHANGED <<sm, order, gone>>,
             \/ totalSent' = [totalSent EXCEPT ![s] = @ + n] /\ UNCHANGED sender
             \/ sender' = [sender EXCEPT ![s] = "writing"] /\ UNCHANGED totalSent,
             timeouts' = timeouts
      PROVE  SendTypes' /\ StreamTypes'
  <2>1. /\ n \in Nat /\ totalSent[s] + n \leq FrameLen[s]
        /\ stream' \in Seq(Byte) /\ Len(stream') \leq Capacity
    BY <1>4, WriteFacts
  <2>2. StreamTypes'
    BY <1>4, <2>1 DEF TypeOK, StreamTypes
  <2>3. CASE totalSent' = [totalSent EXCEPT ![s] = @ + n] /\ UNCHANGED sender
    <3>1. /\ totalSent' \in [Senders -> Nat]
          /\ \A r \in Senders : totalSent'[r] \leq FrameLen[r]
      BY <2>1, <2>3 DEF TypeOK
    <3> QED BY <1>4, <2>2, <2>3, <3>1 DEF TypeOK, SendTypes
  <2>4. CASE sender' = [sender EXCEPT ![s] = "writing"] /\ UNCHANGED totalSent
    BY <1>4, <2>2, <2>4 DEF TypeOK, SendTypes
  <2> QED BY <1>4, <2>3, <2>4
<1>5. CASE WriteSome(s)
  BY <1>2, <1>4, <1>5, TypeParts DEF WriteSome
<1>6. CASE LateWrite(s)
  BY <1>2, <1>4, <1>6, TypeParts DEF LateWrite
<1>7. CASE EndSend(s) \/ WriteError(s)
  BY <1>2, <1>7, TypeParts DEF EndSend, WriteError, TypeOK, SendTypes, StreamTypes
<1>8. CASE WriteTimeout(s)
  <2>1. timeouts' \in 0 .. MaxTimeouts
    BY <1>0, <1>8 DEF WriteTimeout
  <2> QED BY <1>2, <1>8, <2>1, TypeParts DEF WriteTimeout, TypeOK, SendTypes, StreamTypes
<1> QED BY <1>3, <1>5, <1>6, <1>7, <1>8 DEF SendStep

LEMMA ReceiveTypesStep ==
  ASSUME TypeOK, PrefixBeforeLength, ReceiveStep
  PROVE  TypeOK' /\ PrefixBeforeLength'
<1>0. /\ MaxTimeouts \in Nat /\ timeouts \in 0 .. MaxTimeouts
      /\ Len(buf) \in Nat /\ PrefixLen \in Nat \ {0} /\ totalLen \in Int
      /\ Len(stream) \in Nat /\ Capacity \in Nat
  BY FaultAssumption, LengthAssumption DEF TypeOK
<1>1. UNCHANGED <<sendVars, gone>>
  BY DEF ReceiveStep, ReadSome, Deliver, ReadTimeout, LateRead, ReadError, LateError
<1>2. SendTypes'
  BY <1>1 DEF sendVars, TypeOK, SendTypes
<1>3. CASE ReadSome
  <2>1. PICK n \in 1 .. Capacity : Take(n) /\ buf' = buf \o SubSeq(stream, 1, n)
    BY <1>3 DEF ReadSome
  <2>2. /\ n \in Nat \ {0} /\ buf' \in Seq(Byte) /\ Len(buf') = Len(buf) + n
        /\ stream' \in Seq(Byte) /\ Len(stream') = Len(stream) - n
    <3>1. /\ n \in 1 .. Len(stream)
          /\ stream' \in Seq(Byte) /\ Len(stream') = Len(stream) - n
      BY <2>1, TakeFacts
    <3>2. buf' \in Seq(Byte) /\ Len(buf') = Len(buf) + n
      BY <2>1, ReadFacts
    <3> QED BY <3>1, <3>2, <1>0
  <2>3. totalLen' \in Int /\ (totalLen' \geq 0 => Len(buf') \geq PrefixLen)
    <3>1. CASE totalLen < 0 /\ Len(buf') \geq PrefixLen
      BY <1>3, <3>1, <2>2, DecodedType DEF ReadSome
    <3>2. CASE ~ (totalLen < 0 /\ Len(buf') \geq PrefixLen)
      <4>1. totalLen' = totalLen
        BY <1>3, <3>2 DEF ReadSome
      <4> QED BY <4>1, <3>2, <1>0, <2>2 DEF PrefixBeforeLength
    <3> QED BY <3>1, <3>2
  <2>4. /\ receiver' \in {"complete", "reading"}
        /\ receiver' = "complete" => totalLen' \geq 0
    BY <1>3 DEF ReadSome
  <2>5. PrefixBeforeLength'
    BY <2>3, <2>4 DEF PrefixBeforeLength
  <2>6. StreamTypes'
    BY <1>0, <1>1, <1>3, <2>2 DEF ReadSome, TypeOK, StreamTypes
  <2>7. ReceiveTypes'
    BY <1>3, <2>2, <2>3, <2>4 DEF ReadSome, TypeOK, ReceiveTypes
  <2> QED BY <1>2, <2>5, <2>6, <2>7, TypeParts
<1>4. CASE Deliver
  <2>1. Len(buf) \geq PrefixLen
    BY <1>4 DEF Deliver, PrefixBeforeLength
  <2>2. \A i \in PrefixLen + 1 .. Len(buf) : buf[i] \in Byte
    BY <1>0 DEF TypeOK
  <2>3. PrefixLen + 1 \in Int /\ Len(buf) \in Int
    BY <1>0
  <2>4. SubSeq(buf, PrefixLen + 1, Len(buf)) \in Seq(Byte)
    BY <2>2, <2>3, SubSeqProperties
  <2>5. delivered' \in Seq(Seq(Byte))
    BY <1>4, <2>4 DEF Deliver, TypeOK
  <2>6. ReceiveTypes' /\ PrefixBeforeLength'
    BY <1>4, <2>5 DEF Deliver, ReceiveTypes, PrefixBeforeLength
  <2>7. StreamTypes'
    BY <1>1, <1>4 DEF Deliver, TypeOK, StreamTypes
  <2> QED BY <1>2, <2>6, <2>7, TypeParts
<1>5. CASE ReadTimeout
  <2>1. timeouts' \in 0 .. MaxTimeouts
    BY <1>0, <1>5 DEF ReadTimeout
  <2> QED BY <1>2, <1>5, <2>1, TypeParts DEF ReadTimeout, TypeOK, StreamTypes, ReceiveTypes,
                                             PrefixBeforeLength
<1>6. CASE LateRead
  <2>1. PICK n \in 1 .. Capacity : Take(n)
    BY <1>6 DEF LateRead
  <2>2. n \in Nat /\ stream' \in Seq(Byte) /\ Len(stream') = Len(stream) - n
    BY <2>1, TakeFacts
  <2>3. StreamTypes'
    BY <1>0, <1>1, <1>6, <2>2 DEF LateRead, TypeOK, StreamTypes
  <2> QED BY <1>2, <1>6, <2>3, TypeParts DEF LateRead, TypeOK, ReceiveTypes,
                                             PrefixBeforeLength
<1>7. CASE ReadError
  BY <1>2, <1>7, TypeParts DEF ReadError, TypeOK, StreamTypes, ReceiveTypes,
                               PrefixBeforeLength
<1>8. CASE LateError
  <2>1. /\ receiver' \in {"reading", "crashed", "complete"}
        /\ receiver' = "complete" => Len(buf) \geq PrefixLen
        /\ UNCHANGED <<stream, buf, totalLen, delivered, timeouts, gone>>
    BY <1>0, <1>8 DEF LateError
  <2> QED BY <1>2, <2>1, TypeParts DEF TypeOK, StreamTypes, ReceiveTypes, PrefixBeforeLength
<1> QED BY <1>3, <1>4, <1>5, <1>6, <1>7, <1>8 DEF ReceiveStep

LEMMA TypesInductive == Spec => [](TypeOK /\ PrefixBeforeLength)
<1>1. Init => TypeOK /\ PrefixBeforeLength
  <2> SUFFICES ASSUME Init PROVE TypeOK /\ PrefixBeforeLength
    OBVIOUS
  <2>0. /\ FrameLen \in [Senders -> Nat] /\ Capacity \in Nat /\ MaxTimeouts \in Nat
    BY LengthAssumption, FaultAssumption
  <2>1. SendTypes
    BY <2>0 DEF Init, SendTypes
  <2>2. stream \in Seq(Byte) /\ Len(stream) = 0
    BY DEF Init
  <2>3. StreamTypes /\ ReceiveTypes /\ PrefixBeforeLength
    BY <2>0, <2>2 DEF Init, StreamTypes, ReceiveTypes, PrefixBeforeLength
  <2> QED BY <2>1, <2>3, TypeParts
<1>2. TypeOK /\ PrefixBeforeLength /\ [Next]_vars => (TypeOK /\ PrefixBeforeLength)'
  <2> SUFFICES ASSUME TypeOK, PrefixBeforeLength, [Next]_vars
               PROVE  TypeOK' /\ PrefixBeforeLength'
    OBVIOUS
  <2>1. CASE \E s \in Senders : SendStep(s)
    BY <2>1, SendTypesStep
  <2>2. CASE ReceiveStep
    BY <2>2, ReceiveTypesStep
  <2>3. CASE \E p \in {"sender", "receiver"} : Exit(p)
    BY <2>3 DEF Exit, sendVars, recvVars, TypeOK, PrefixBeforeLength
  <2>4. CASE UNCHANGED vars
    BY <2>4 DEF vars, TypeOK, PrefixBeforeLength
  <2> QED BY <2>1, <2>2, <2>3, <2>4 DEF Next
<1> QED BY <1>1, <1>2, PTL DEF Spec

\* Every variable keeps its type; in particular no thread counts more bytes than
\* its frame has, whatever write_some returns and however late.
THEOREM SocketTypeCorrect == Spec => []TypeOK
BY TypesInductive, PTL

\* Recieve never erases a prefix it has not read, except where LateError says so:
\* a message is complete only if it is at least as long as the prefix.
THEOREM PrefixIsThere == Spec => []PrefixBeforeLength
BY TypesInductive, PTL

-----------------------------------------------------------------------------
(* The mutex.                                                              *)

\* A thread that has not had its turn gets one after all the others.
LEMMA NewTurn ==
  ASSUME NEW q \in Seq(Senders), NEW s \in Senders
  PROVE  /\ DOMAIN q = 1 .. Len(q) /\ Len(q) \in Nat
         /\ Append(q, s) \in Seq(Senders)
         /\ DOMAIN Append(q, s) = 1 .. Len(q) + 1 /\ Len(Append(q, s)) = Len(q) + 1
         /\ \A n \in DOMAIN q : Append(q, s)[n] = q[n]
         /\ Append(q, s)[Len(q) + 1] = s
OBVIOUS

\* The state of one thread after its step, the other threads' being unchanged.
LEMMA OneThreadMoves ==
  ASSUME TypeOK, SendersTakeTurns, NEW s \in Senders,
         sender[s] \in {"writing", "late"}, order' = order,
         NEW x \in {"writing", "late", "spinning", "sent"},
         sender' = [sender EXCEPT ![s] = x],
         x = "sent" => totalSent'[s] = FrameLen[s],
         sm' = IF x = "sent" THEN NoSender ELSE sm,
         \A r \in Senders \ {s} : totalSent'[r] = totalSent[r]
  PROVE  SendersTakeTurns'
<1>1. sender'[s] = x /\ \A r \in Senders \ {s} : sender'[r] = sender[r]
  BY DEF TypeOK
<1>2. sm = s /\ order # <<>> /\ order[Len(order)] = s
  BY DEF SendersTakeTurns
<1>3. ASSUME NEW r \in Senders
      PROVE  /\ sender'[r] = "idle" <=> \A n \in DOMAIN order' : order'[n] # r
             /\ sender'[r] = "idle" => totalSent'[r] = 0
             /\ sender'[r] = "sent" => totalSent'[r] = FrameLen[r]
             /\ sender'[r] \in {"writing", "late", "spinning"} =>
                  sm' = r /\ order' # <<>> /\ order'[Len(order')] = r
  <2>1. CASE r = s
    <3>1. sender'[r] # "idle" /\ sender[r] # "idle"
      BY <1>1, <2>1
    <3>2. ~ \A n \in DOMAIN order : order[n] # r
      BY <3>1 DEF SendersTakeTurns
    <3> QED BY <1>1, <1>2, <2>1, <3>1, <3>2
  <2>2. CASE r # s
    <3>1. sender'[r] = sender[r] /\ totalSent'[r] = totalSent[r]
      BY <1>1, <2>2
    <3>2. sender[r] \notin {"writing", "late", "spinning"}
      BY <1>2, <2>2 DEF SendersTakeTurns
    <3>3. /\ sender[r] = "idle" <=> \A n \in DOMAIN order : order[n] # r
          /\ sender[r] = "idle" => totalSent[r] = 0
          /\ sender[r] = "sent" => totalSent[r] = FrameLen[r]
      BY DEF SendersTakeTurns
    <3> QED BY <3>1, <3>2, <3>3
  <2> QED BY <2>1, <2>2
<1>4. \A m, n \in DOMAIN order' : order'[m] = order'[n] => m = n
  BY DEF SendersTakeTurns
<1> QED BY <1>3, <1>4 DEF SendersTakeTurns

LEMMA TurnsStep ==
  ASSUME TypeOK, SendersTakeTurns, [Next]_vars
  PROVE  SendersTakeTurns'
<1>0. /\ order \in Seq(Senders) /\ DOMAIN order = 1 .. Len(order) /\ Len(order) \in Nat
      /\ totalSent \in [Senders -> Nat]
      /\ sender \in [Senders -> {"idle", "writing", "late", "spinning", "sent"}]
      /\ NoSender \notin Senders
  BY SenderAssumption DEF TypeOK
<1>1. ASSUME NEW s \in Senders, StartSend(s)
      PROVE  SendersTakeTurns'
  <2>1. /\ order' = Append(order, s) /\ sm = NoSender /\ sm' = s
        /\ sender[s] = "idle" /\ sender' = [sender EXCEPT ![s] = "writing"]
        /\ totalSent' = totalSent
    BY <1>1 DEF StartSend
  <2>2. /\ DOMAIN order' = 1 .. Len(order) + 1 /\ Len(order') = Len(order) + 1
        /\ \A n \in DOMAIN order : order'[n] = order[n]
        /\ order'[Len(order) + 1] = s
    BY <1>0, <2>1, NewTurn
  <2>3. \A n \in DOMAIN order : order[n] # s
    BY <2>1 DEF SendersTakeTurns
  <2>4. \A m, n \in DOMAIN order' : order'[m] = order'[n] => m = n
    <3> SUFFICES ASSUME NEW m \in DOMAIN order', NEW n \in DOMAIN order',
                        order'[m] = order'[n]
                 PROVE  m = n
      OBVIOUS
    <3>1. CASE m \in DOMAIN order /\ n \in DOMAIN order
      BY <2>2, <3>1 DEF SendersTakeTurns
    <3>2. CASE m \notin DOMAIN order \/ n \notin DOMAIN order
      BY <1>0, <2>2, <2>3, <3>2
    <3> QED BY <3>1, <3>2
  <2>5. ASSUME NEW r \in Senders
        PROVE  /\ sender'[r] = "idle" <=> \A n \in DOMAIN order' : order'[n] # r
               /\ sender'[r] = "idle" => totalSent'[r] = 0
               /\ sender'[r] = "sent" => totalSent'[r] = FrameLen[r]
               /\ sender'[r] \in {"writing", "late", "spinning"} =>
                    sm' = r /\ order' # <<>> /\ order'[Len(order')] = r
    <3>1. CASE r = s
      <4>1. sender'[s] = "writing" /\ Len(order) + 1 \in DOMAIN order'
        BY <1>0, <2>1, <2>2
      <4>2. order' # <<>>
        BY <1>0, <2>2
      <4> QED BY <2>1, <2>2, <3>1, <4>1, <4>2
    <3>2. CASE r # s
      <4>1. sender'[r] = sender[r] /\ totalSent'[r] = totalSent[r]
        BY <1>0, <2>1, <3>2
      <4>2. sender[r] \notin {"writing", "late", "spinning"}
        BY <1>0, <2>1 DEF SendersTakeTurns
      <4>3. (\A n \in DOMAIN order' : order'[n] # r) <=> (\A n \in DOMAIN order : order[n] # r)
        <5>1. \A n \in DOMAIN order' : n \in DOMAIN order \/ n = Len(order) + 1
          BY <1>0, <2>2
        <5>2. \A n \in DOMAIN order : n \in DOMAIN order'
          BY <1>0, <2>2
        <5> QED BY <5>1, <5>2, <2>2, <3>2
      <4>4. /\ sender[r] = "idle" <=> \A n \in DOMAIN order : order[n] # r
            /\ sender[r] = "idle" => totalSent[r] = 0
            /\ sender[r] = "sent" => totalSent[r] = FrameLen[r]
        BY DEF SendersTakeTurns
      <4> QED BY <4>1, <4>2, <4>3, <4>4
    <3> QED BY <3>1, <3>2
  <2> QED BY <2>4, <2>5 DEF SendersTakeTurns
<1>2. ASSUME NEW s \in Senders, SendStep(s), ~ StartSend(s)
      PROVE  SendersTakeTurns'
  <2>1. CASE WriteSome(s)
    <3>1. PICK n : totalSent' = [totalSent EXCEPT ![s] = @ + n]
      BY <2>1 DEF WriteSome
    <3>2. \A r \in Senders \ {s} : totalSent'[r] = totalSent[r]
      BY <1>0, <3>1
    <3>3. sender[s] = "writing" /\ UNCHANGED <<sm, sender, order>>
      BY <2>1 DEF WriteSome
    <3>4. sender' = [sender EXCEPT ![s] = "writing"]
      BY <1>0, <3>3
    <3> QED BY <3>2, <3>3, <3>4, OneThreadMoves
  <2>2. CASE EndSend(s)
    BY <2>2, OneThreadMoves DEF EndSend
  <2>3. CASE WriteTimeout(s)
    BY <2>3, OneThreadMoves DEF WriteTimeout
  <2>4. CASE LateWrite(s)
    BY <2>4, OneThreadMoves DEF LateWrite
  <2>5. CASE WriteError(s)
    BY <2>5, OneThreadMoves DEF WriteError
  <2> QED BY <1>2, <2>1, <2>2, <2>3, <2>4, <2>5 DEF SendStep
<1>3. CASE ReceiveStep \/ (\E p \in {"sender", "receiver"} : Exit(p)) \/ UNCHANGED vars
  <2>1. UNCHANGED sendVars
    BY <1>3 DEF ReceiveStep, ReadSome, Deliver, ReadTimeout, LateRead, ReadError,
                LateError, Exit, vars, sendVars
  <2> QED BY <2>1 DEF sendVars, SendersTakeTurns
<1> QED BY <1>1, <1>2, <1>3 DEF Next

-----------------------------------------------------------------------------
(* Frames are not interleaved.                                             *)

LEMMA GroupedSelection ==
  ASSUME NEW q, NEW w, NEW v, NEW f \in [1 .. Len(v) -> 1 .. Len(w)],
         Grouped(q, w), Len(w) \in Nat, Len(v) \in Nat,
         \A k, l \in 1 .. Len(v) : k \leq l => f[k] \leq f[l],
         \A k \in 1 .. Len(v) : v[k] = w[f[k]]
  PROVE  Grouped(q, v)
<1>1. \A k \in 1 .. Len(v) : f[k] \in 1 .. Len(w)
  OBVIOUS
<1>2. \A k \in 1 .. Len(v) : \E n \in DOMAIN q : q[n] = v[k].frame
  BY <1>1 DEF Grouped
<1>3. ASSUME NEW k \in 1 .. Len(v), NEW l \in 1 .. Len(v), NEW m \in DOMAIN q,
             NEW n \in DOMAIN q, k \leq l, q[m] = v[k].frame, q[n] = v[l].frame
      PROVE  m \leq n
  <2>1. f[k] \leq f[l] /\ q[m] = w[f[k]].frame /\ q[n] = w[f[l]].frame
    BY <1>3
  <2> QED BY <1>1, <2>1 DEF Grouped
<1> QED BY <1>2, <1>3 DEF Grouped

\* A new frame comes after all that is on the way.
LEMMA GroupedNewTurn ==
  ASSUME NEW q \in Seq(Senders), NEW w, NEW s \in Senders,
         Len(w) \in Nat, Grouped(q, w), \A n \in DOMAIN q : q[n] # s
  PROVE  Grouped(Append(q, s), w)
<1>1. /\ DOMAIN q = 1 .. Len(q) /\ Len(q) \in Nat
      /\ DOMAIN Append(q, s) = 1 .. Len(q) + 1
      /\ \A n \in DOMAIN q : Append(q, s)[n] = q[n]
      /\ Append(q, s)[Len(q) + 1] = s
  BY NewTurn
<1> DEFINE p == Append(q, s)
<1> HIDE DEF p
<1>2. DOMAIN p = 1 .. Len(q) + 1 /\ p[Len(q) + 1] = s /\ \A n \in DOMAIN q : p[n] = q[n]
  BY <1>1 DEF p
<1>3. \A k \in 1 .. Len(w) : \E n \in DOMAIN p : p[n] = w[k].frame
  BY <1>1, <1>2 DEF Grouped
<1>4. \A k \in 1 .. Len(w), n \in DOMAIN p :
        p[n] = w[k].frame => n \in DOMAIN q /\ q[n] = w[k].frame
  BY <1>1, <1>2 DEF Grouped
<1>5. \A k, l \in 1 .. Len(w), m, n \in DOMAIN p :
        k \leq l /\ p[m] = w[k].frame /\ p[n] = w[l].frame => m \leq n
  BY <1>4 DEF Grouped
<1> QED BY <1>3, <1>5 DEF Grouped, p

\* Only the thread whose turn is the last writes.
LEMMA GroupedWrite ==
  ASSUME NEW q \in Seq(Senders), NEW w \in Seq(Byte), NEW v \in Seq(Byte),
         Grouped(q, w), q # <<>>, \A m, n \in DOMAIN q : q[m] = q[n] => m = n,
         Len(v) \geq Len(w), \A k \in 1 .. Len(w) : v[k] = w[k],
         \A k \in Len(w) + 1 .. Len(v) : v[k].frame = q[Len(q)]
  PROVE  Grouped(q, v)
<1>1. DOMAIN q = 1 .. Len(q) /\ Len(q) \in Nat \ {0} /\ Len(w) \in Nat /\ Len(v) \in Nat
  OBVIOUS
<1>2. \A k \in 1 .. Len(v) : k \in 1 .. Len(w) \/ k \in Len(w) + 1 .. Len(v)
  BY <1>1
<1>3. \A k \in 1 .. Len(v) : \E n \in DOMAIN q : q[n] = v[k].frame
  BY <1>1, <1>2 DEF Grouped
<1>4. ASSUME NEW k \in 1 .. Len(v), NEW l \in 1 .. Len(v), NEW m \in DOMAIN q,
             NEW n \in DOMAIN q, k \leq l, q[m] = v[k].frame, q[n] = v[l].frame
      PROVE  m \leq n
  <2>1. CASE l \in 1 .. Len(w)
    <3>1. k \in 1 .. Len(w)
      BY <1>1, <1>4, <2>1
    <3> QED BY <1>4, <2>1, <3>1 DEF Grouped
  <2>2. CASE l \in Len(w) + 1 .. Len(v)
    BY <1>1, <1>4, <2>2
  <2> QED BY <1>2, <2>1, <2>2
<1> QED BY <1>3, <1>4 DEF Grouped

LEMMA BytesConcat ==
  ASSUME NEW a \in Seq(Byte), NEW b \in Seq(Byte)
  PROVE  /\ a \o b \in Seq(Byte) /\ Len(a) \in Nat /\ Len(b) \in Nat
         /\ Len(a \o b) = Len(a) + Len(b)
         /\ \A k \in 1 .. Len(a) : (a \o b)[k] = a[k]
         /\ \A k \in 1 .. Len(b) : (a \o b)[Len(a) + k] = b[k]
OBVIOUS

LEMMA OnTheWayStep ==
  ASSUME TypeOK, SendersTakeTurns, OnTheWayInTurn, [Next]_vars
  PROVE  OnTheWayInTurn'
<1> DEFINE w == buf \o stream
<1>0. /\ buf \in Seq(Byte) /\ stream \in Seq(Byte) /\ order \in Seq(Senders)
      /\ w \in Seq(Byte) /\ Len(w) = Len(buf) + Len(stream)
      /\ Len(buf) \in Nat /\ Len(stream) \in Nat
      /\ \A k \in 1 .. Len(buf) : w[k] = buf[k]
      /\ \A k \in 1 .. Len(stream) : w[Len(buf) + k] = stream[k]
      /\ Grouped(order, w)
  BY BytesConcat DEF TypeOK, OnTheWayInTurn
<1> HIDE DEF w
<1>1. ASSUME NEW s \in Senders, StartSend(s)
      PROVE  OnTheWayInTurn'
  <2>1. order' = Append(order, s) /\ buf' = buf /\ stream' = stream
    BY <1>1 DEF StartSend, recvVars
  <2>2. \A n \in DOMAIN order : order[n] # s
    BY <1>1 DEF StartSend, SendersTakeTurns
  <2>3. Grouped(Append(order, s), w)
    BY <1>0, <2>2, GroupedNewTurn
  <2> QED BY <2>1, <2>3 DEF OnTheWayInTurn, w
<1>2. ASSUME NEW s \in Senders, WriteSome(s) \/ LateWrite(s)
      PROVE  OnTheWayInTurn'
  <2>1. /\ \E n : Write(s, n)
        /\ sender[s] \in {"writing", "late"} /\ UNCHANGED <<order, buf>>
    BY <1>2 DEF WriteSome, LateWrite, recvVars
  <2>2. PICK n : Write(s, n)
    BY <2>1
  <2>3. /\ n \in Nat /\ stream' \in Seq(Byte) /\ Len(stream') = Len(stream) + n
        /\ \A k \in 1 .. Len(stream) : stream'[k] = stream[k]
        /\ \A k \in 1 .. n :
             stream'[Len(stream) + k] = [frame |-> s, pos |-> totalSent[s] + k]
    BY <2>2, WriteFacts
  <2> DEFINE v == buf \o stream'
  <2>4. /\ v \in Seq(Byte) /\ Len(v) = Len(buf) + Len(stream')
        /\ \A k \in 1 .. Len(buf) : v[k] = buf[k]
        /\ \A k \in 1 .. Len(stream') : v[Len(buf) + k] = stream'[k]
    BY <1>0, <2>3, BytesConcat
  <2> HIDE DEF v
  <2>5. order # <<>> /\ order[Len(order)] = s
        /\ \A k, l \in DOMAIN order : order[k] = order[l] => k = l
    BY <2>1 DEF SendersTakeTurns
  <2>6. ASSUME NEW k \in 1 .. Len(w) PROVE v[k] = w[k]
    <3>1. CASE k \in 1 .. Len(buf)
      BY <1>0, <2>4, <3>1
    <3>2. CASE k \notin 1 .. Len(buf)
      <4>1. /\ k - Len(buf) \in 1 .. Len(stream) /\ k - Len(buf) \in 1 .. Len(stream')
            /\ Len(buf) + (k - Len(buf)) = k
        BY <1>0, <2>3, <3>2
      <4>2. v[k] = stream'[k - Len(buf)] /\ w[k] = stream[k - Len(buf)]
        BY <1>0, <2>4, <4>1
      <4> QED BY <2>3, <4>1, <4>2
    <3> QED BY <3>1, <3>2
  <2>7. ASSUME NEW k \in Len(w) + 1 .. Len(v) PROVE v[k].frame = s
    <3>1. /\ k - Len(w) \in 1 .. n /\ Len(stream) + (k - Len(w)) \in 1 .. Len(stream')
          /\ Len(buf) + (Len(stream) + (k - Len(w))) = k
      BY <1>0, <2>3, <2>4
    <3>2. v[k] = stream'[Len(stream) + (k - Len(w))]
      BY <2>4, <3>1
    <3>3. v[k] = [frame |-> s, pos |-> totalSent[s] + (k - Len(w))]
      BY <2>3, <3>1, <3>2
    <3> QED BY <3>3
  <2>8. Len(v) \geq Len(w)
    BY <1>0, <2>3, <2>4
  <2>9. Grouped(order, v)
    BY <1>0, <2>4, <2>5, <2>6, <2>7, <2>8, GroupedWrite
  <2> QED BY <2>1, <2>9 DEF OnTheWayInTurn, v
<1>3. CASE ReadSome
  <2>1. PICK n : Take(n) /\ buf' = buf \o SubSeq(stream, 1, n)
    BY <1>3 DEF ReadSome
  <2>2. buf' \o stream' = buf \o stream
    BY <2>1, ReadFacts
  <2>3. order' = order
    BY <1>3 DEF ReadSome, sendVars
  <2> QED BY <2>2, <2>3 DEF OnTheWayInTurn
<1>4. CASE Deliver
  <2>1. buf' = <<>> /\ stream' = stream /\ order' = order
    BY <1>4 DEF Deliver, sendVars
  <2> DEFINE f == [k \in 1 .. Len(stream) |-> Len(buf) + k]
  <2>2. /\ f \in [1 .. Len(stream) -> 1 .. Len(w)]
        /\ \A k, l \in 1 .. Len(stream) : k \leq l => f[k] \leq f[l]
        /\ \A k \in 1 .. Len(stream) : stream[k] = w[f[k]]
    BY <1>0
  <2> HIDE DEF f
  <2>3. Grouped(order, stream)
    <3>1. Grouped(order, w) /\ Len(w) \in Nat /\ Len(stream) \in Nat
      BY <1>0
    <3> QED BY <3>1, <2>2, GroupedSelection, Zenon
  <2>4. <<>> \o stream = stream
    BY <1>0, ConcatEmptySeq
  <2> QED BY <2>1, <2>3, <2>4 DEF OnTheWayInTurn
<1>5. CASE LateRead
  <2>1. PICK n : Take(n)
    BY <1>5 DEF LateRead
  <2>2. /\ n \in 1 .. Len(stream)
        /\ stream' \in Seq(Byte) /\ Len(stream') = Len(stream) - n
        /\ \A k \in 1 .. Len(stream) - n : stream'[k] = stream[n + k]
    BY <2>1, TakeFacts
  <2>3. buf' = buf /\ order' = order
    BY <1>5 DEF LateRead, sendVars
  <2> DEFINE v == buf \o stream'
             f == [k \in 1 .. Len(v) |-> IF k \leq Len(buf) THEN k ELSE k + n]
  <2>4. /\ v \in Seq(Byte) /\ Len(v) = Len(buf) + Len(stream')
        /\ \A k \in 1 .. Len(buf) : v[k] = buf[k]
        /\ \A k \in 1 .. Len(stream') : v[Len(buf) + k] = stream'[k]
    BY <1>0, <2>2, BytesConcat
  <2> HIDE DEF v
  <2>5. f \in [1 .. Len(v) -> 1 .. Len(w)]
    BY <1>0, <2>2, <2>4
  <2>6. \A k, l \in 1 .. Len(v) : k \leq l => f[k] \leq f[l]
    BY <1>0, <2>2, <2>4, SMTT(60)
  <2>7. ASSUME NEW k \in 1 .. Len(v) PROVE v[k] = w[f[k]]
    <3>1. CASE k \in 1 .. Len(buf)
      BY <1>0, <2>4, <3>1
    <3>2. CASE k \notin 1 .. Len(buf)
      <4>1. /\ k - Len(buf) \in 1 .. Len(stream') /\ Len(buf) + (k - Len(buf)) = k
            /\ n + (k - Len(buf)) \in 1 .. Len(stream)
            /\ Len(buf) + (n + (k - Len(buf))) = k + n /\ ~ (k \leq Len(buf))
        BY <1>0, <2>2, <2>4, <3>2
      <4>2. v[k] = stream'[k - Len(buf)]
        BY <2>4, <4>1
      <4>3. stream'[k - Len(buf)] = stream[n + (k - Len(buf))]
        BY <2>2, <4>1
      <4>4. w[k + n] = stream[n + (k - Len(buf))]
        BY <1>0, <4>1
      <4>5. f[k] = k + n
        BY <4>1
      <4> QED BY <4>2, <4>3, <4>4, <4>5
    <3> QED BY <3>1, <3>2
  <2> HIDE DEF f
  <2>8. Len(v) \in Nat /\ Len(w) \in Nat
    BY <1>0, <2>4
  <2>9. Grouped(order, v)
    <3>1. Grouped(order, w)
      BY <1>0
    <3> QED BY <3>1, <2>5, <2>6, <2>7, <2>8, GroupedSelection, Zenon
  <2> QED BY <2>3, <2>9 DEF OnTheWayInTurn, v
<1>6. CASE \/ \E s \in Senders : EndSend(s) \/ WriteTimeout(s) \/ WriteError(s)
           \/ ReadTimeout \/ ReadError \/ LateError
           \/ \E p \in {"sender", "receiver"} : Exit(p)
           \/ UNCHANGED vars
  <2>1. UNCHANGED <<order, buf, stream>>
    BY <1>6 DEF EndSend, WriteTimeout, WriteError, ReadTimeout, ReadError, LateError, Exit,
                vars, sendVars, recvVars
  <2> QED BY <2>1 DEF OnTheWayInTurn
<1> QED BY <1>1, <1>2, <1>3, <1>4, <1>5, <1>6 DEF Next, SendStep, ReceiveStep

LEMMA OnTheWayInductive == Spec => [](TypeOK /\ SendersTakeTurns /\ OnTheWayInTurn)
<1>1. Init => SendersTakeTurns /\ OnTheWayInTurn
  <2> SUFFICES ASSUME Init PROVE SendersTakeTurns /\ OnTheWayInTurn
    OBVIOUS
  <2>1. SendersTakeTurns
    BY DEF Init, SendersTakeTurns
  <2>2. <<>> \o <<>> = <<>> /\ Len(<<>>) = 0
    BY ConcatEmptySeq
  <2>3. Grouped(order, <<>>)
    BY <2>2 DEF Grouped
  <2> QED BY <2>1, <2>2, <2>3 DEF Init, OnTheWayInTurn
<1>2. TypeOK /\ SendersTakeTurns /\ OnTheWayInTurn /\ [Next]_vars
        => SendersTakeTurns' /\ OnTheWayInTurn'
  BY TurnsStep, OnTheWayStep
<1> QED BY <1>1, <1>2, SocketTypeCorrect, PTL DEF Spec

\* One message is sent at a time, whatever times out or exits: the bytes on their
\* way are grouped by frame, in the order in which the threads got the mutex.
THEOREM OneMessageAtATime == Spec => []FramesNotInterleaved
<1>1. TypeOK /\ OnTheWayInTurn => FramesNotInterleaved
  <2> SUFFICES ASSUME TypeOK, OnTheWayInTurn PROVE FramesNotInterleaved
    OBVIOUS
  <2> DEFINE w == buf \o stream
             turn(k) == CHOOSE n \in DOMAIN order : order[n] = w[k].frame
  <2>1. Len(w) \in Nat /\ Grouped(order, w)
    BY BytesConcat DEF TypeOK, OnTheWayInTurn
  <2> SUFFICES ASSUME NEW k \in 1 .. (Len(w) - 1) PROVE turn(k) \leq turn(k + 1)
    BY DEF FramesNotInterleaved
  <2> HIDE DEF w
  <2>2. k \in 1 .. Len(w) /\ k + 1 \in 1 .. Len(w) /\ k \leq k + 1
    BY <2>1
  <2>3. \A l \in 1 .. Len(w) : turn(l) \in DOMAIN order /\ order[turn(l)] = w[l].frame
    BY <2>1 DEF Grouped
  <2> HIDE DEF turn
  <2> QED BY <2>1, <2>2, <2>3 DEF Grouped
<1> QED BY <1>1, OnTheWayInductive, PTL

-----------------------------------------------------------------------------
(* Stretches of the frames.                                                *)

LEMMA FramesAreLong ==
  ASSUME NEW s \in Senders
  PROVE  FrameLen[s] \in Nat \ {0} /\ FrameLen[s] \geq 2 * PrefixLen - 1
<1>1. FrameLen[s] \in Nat /\ PrefixLen \in Nat /\ PrefixLen # 0
  BY LengthAssumption
<1>2. FrameLen[s] \geq 2 * PrefixLen - 1
  BY LengthAssumption
<1> QED BY <1>1, <1>2

LEMMA ContiguousTypes ==
  ASSUME NEW q \in Seq(Senders), NEW w \in Seq(Byte)
  PROVE  /\ DOMAIN q = 1 .. Len(q) /\ Len(q) \in Nat /\ Len(w) \in Nat
         /\ \A n \in DOMAIN q : q[n] \in Senders /\ FrameLen[q[n]] \in Nat \ {0}
         /\ \A i \in 1 .. Len(w) : w[i].frame \in Senders /\ w[i].pos \in Nat
<1>1. DOMAIN q = 1 .. Len(q) /\ Len(q) \in Nat /\ Len(w) \in Nat
  OBVIOUS
<1>2. \A n \in DOMAIN q : q[n] \in Senders
  OBVIOUS
<1>3. \A s \in Senders : FrameLen[s] \in Nat \ {0}
  BY FramesAreLong
<1>4. \A i \in 1 .. Len(w) : w[i] \in Byte
  OBVIOUS
<1>5. \A b \in Byte : b.frame \in Senders /\ b.pos \in Nat
  BY DEF Byte
<1> QED BY <1>1, <1>2, <1>3, <1>4, <1>5

\* What is left of a stretch when its beginning has been read.
LEMMA ContiguousDrop ==
  ASSUME NEW q \in Seq(Senders), NEW w \in Seq(Byte), NEW v \in Seq(Byte),
         NEW n \in Nat, Contiguous(q, w), Len(v) = Len(w) - n,
         \A k \in 1 .. Len(w) - n : v[k] = w[n + k]
  PROVE  Contiguous(q, v)
<1>0. Len(w) \in Nat /\ Len(v) \in Nat
  OBVIOUS
<1>1. \A k \in 1 .. Len(v) : n + k \in 1 .. Len(w) /\ v[k] = w[n + k]
  BY <1>0
<1>2. ASSUME NEW i \in 1 .. Len(v)
      PROVE  \E m \in DOMAIN q : v[i].frame = q[m] /\ v[i].pos \in 1 .. FrameLen[q[m]]
  <2>1. \A k \in 1 .. Len(w) : \E m \in DOMAIN q :
          w[k].frame = q[m] /\ w[k].pos \in 1 .. FrameLen[q[m]]
    BY DEF Contiguous
  <2>2. n + i \in 1 .. Len(w) /\ v[i] = w[n + i]
    BY <1>1
  <2> HIDE DEF Contiguous
  <2> QED BY <2>1, <2>2
<1>3. ASSUME NEW i \in 1 .. Len(v), NEW j \in 1 .. Len(v), NEW m \in DOMAIN q,
             i \leq j, v[i].frame = q[m]
      PROVE  InPlace(q, v, m, i, j)
  <2>1. /\ n + i \in 1 .. Len(w) /\ n + j \in 1 .. Len(w) /\ n + i \leq n + j
        /\ (n + j) - (n + i) = j - i /\ v[i] = w[n + i] /\ v[j] = w[n + j]
    BY <1>0, <1>1, <1>3, SMTT(60)
  <2>2. InPlace(q, w, m, n + i, n + j)
    BY <1>3, <2>1 DEF Contiguous
  <2> QED BY <2>1, <2>2 DEF InPlace
<1> QED BY <1>2, <1>3 DEF Contiguous

\* A new frame begins after the stretch.
LEMMA ContiguousNewTurn ==
  ASSUME NEW q \in Seq(Senders), NEW w \in Seq(Byte), NEW s \in Senders,
         Contiguous(q, w), \A n \in DOMAIN q : q[n] # s
  PROVE  Contiguous(Append(q, s), w)
<1> DEFINE p == Append(q, s)
<1>1. /\ DOMAIN q = 1 .. Len(q) /\ Len(q) \in Nat
      /\ DOMAIN p = 1 .. Len(q) + 1 /\ p[Len(q) + 1] = s
      /\ \A n \in DOMAIN q : p[n] = q[n]
  BY NewTurn
<1> HIDE DEF p
<1>2. \A n \in DOMAIN q : n \in DOMAIN p
  BY <1>1
<1>3. \A i \in 1 .. Len(w) : \E n \in DOMAIN q :
        w[i].frame = q[n] /\ w[i].pos \in 1 .. FrameLen[q[n]]
  BY DEF Contiguous
<1>4. \A i \in 1 .. Len(w) : \E n \in DOMAIN p :
        w[i].frame = p[n] /\ w[i].pos \in 1 .. FrameLen[p[n]]
  BY <1>1, <1>2, <1>3
<1>5. \A i \in 1 .. Len(w), n \in DOMAIN p : w[i].frame = p[n] => n \in DOMAIN q
  <2> SUFFICES ASSUME NEW i \in 1 .. Len(w), NEW n \in DOMAIN p, w[i].frame = p[n],
                      n \notin DOMAIN q
               PROVE  FALSE
    OBVIOUS
  <2>1. n = Len(q) + 1
    BY <1>1
  <2> QED BY <1>1, <1>3, <2>1
<1>6. ASSUME NEW i \in 1 .. Len(w), NEW j \in 1 .. Len(w), NEW n \in DOMAIN p,
             i \leq j, w[i].frame = p[n]
      PROVE  InPlace(p, w, n, i, j)
  <2>1. n \in DOMAIN q /\ p[n] = q[n]
    BY <1>1, <1>5, <1>6
  <2>2. InPlace(q, w, n, i, j)
    BY <1>6, <2>1 DEF Contiguous
  <2>3. n + 1 \in DOMAIN q => n + 1 \in DOMAIN p /\ p[n + 1] = q[n + 1]
    BY <1>1, <1>2
  <2> QED BY <2>1, <2>2, <2>3 DEF InPlace
<1> QED BY <1>4, <1>6 DEF Contiguous, p

\* v is w and n more bytes of the frame of s.
Extended(w, v, s, t, n) ==
  /\ Len(v) = Len(w) + n
  /\ \A k \in 1 .. Len(w) : v[k] = w[k]
  /\ \A k \in 1 .. n : v[Len(w) + k] = [frame |-> s, pos |-> t + k]

\* The thread whose turn it is writes the next bytes of its frame.
LEMMA ContiguousWrite ==
  ASSUME NEW q \in Seq(Senders), NEW w \in Seq(Byte), NEW v \in Seq(Byte),
         NEW s \in Senders, NEW t \in Nat, NEW n \in Nat \ {0},
         Contiguous(q, w), \A k, m \in DOMAIN q : q[k] = q[m] => k = m,
         q # <<>>, s = q[Len(q)], t + n \leq FrameLen[s],
         w # <<>> => EndsAt(q, w, Len(q), t + 1),
         Extended(w, v, s, t, n)
  PROVE  Contiguous(q, v)
<1>e. /\ Len(v) = Len(w) + n
      /\ \A k \in 1 .. Len(w) : v[k] = w[k]
      /\ \A k \in 1 .. n : v[Len(w) + k] = [frame |-> s, pos |-> t + k]
  BY DEF Extended
<1>0. /\ DOMAIN q = 1 .. Len(q) /\ Len(q) \in Nat \ {0} /\ Len(w) \in Nat
      /\ Len(q) \in DOMAIN q
      /\ \A m \in DOMAIN q : FrameLen[q[m]] \in Nat \ {0}
      /\ \A i \in 1 .. Len(w) : w[i].pos \in Nat
      /\ FrameLen[s] \in Nat
  BY ContiguousTypes
<1>1. \A k \in Len(w) + 1 .. Len(v) : v[k] = [frame |-> s, pos |-> t + (k - Len(w))]
  <2> SUFFICES ASSUME NEW k \in Len(w) + 1 .. Len(v)
               PROVE  v[k] = [frame |-> s, pos |-> t + (k - Len(w))]
    OBVIOUS
  <2>1. k - Len(w) \in 1 .. n /\ Len(w) + (k - Len(w)) = k
    BY <1>0, <1>e
  <2> QED BY <1>e, <2>1
<1>2. \A k \in 1 .. Len(v) : k \in 1 .. Len(w) \/ k \in Len(w) + 1 .. Len(v)
  BY <1>0, <1>e
<1>3. ASSUME NEW i \in 1 .. Len(v)
      PROVE  \E m \in DOMAIN q : v[i].frame = q[m] /\ v[i].pos \in 1 .. FrameLen[q[m]]
  <2>1. CASE i \in 1 .. Len(w)
    BY <1>e, <2>1 DEF Contiguous
  <2>2. CASE i \in Len(w) + 1 .. Len(v)
    <3>0. v[i] = [frame |-> s, pos |-> t + (i - Len(w))]
      BY <1>1, <2>2
    <3>1. v[i].frame = q[Len(q)] /\ v[i].pos = t + (i - Len(w))
      BY <3>0
    <3>2. t + (i - Len(w)) \in 1 .. FrameLen[s]
      BY <1>0, <1>e, <2>2
    <3> QED BY <1>0, <3>1, <3>2
  <2> QED BY <1>2, <2>1, <2>2
<1>4. ASSUME NEW i \in 1 .. Len(v), NEW j \in 1 .. Len(v), NEW m \in DOMAIN q,
             i \leq j, v[i].frame = q[m]
      PROVE  InPlace(q, v, m, i, j)
  <2>1. CASE j \in 1 .. Len(w)
    <3>1. i \in 1 .. Len(w)
      BY <1>0, <1>4, <2>1
    <3>2. v[i] = w[i] /\ v[j] = w[j]
      BY <1>e, <2>1, <3>1
    <3>3. InPlace(q, w, m, i, j)
      BY <1>4, <2>1, <3>1, <3>2 DEF Contiguous
    <3> QED BY <3>2, <3>3 DEF InPlace
  <2>2. CASE i \in Len(w) + 1 .. Len(v)
    <3>1. j \in Len(w) + 1 .. Len(v)
      BY <1>0, <1>4, <2>2
    <3>a. /\ v[i] = [frame |-> s, pos |-> t + (i - Len(w))]
          /\ v[j] = [frame |-> s, pos |-> t + (j - Len(w))]
      BY <1>1, <2>2, <3>1
    <3>2. /\ v[i].frame = s /\ v[i].pos = t + (i - Len(w))
          /\ v[j] = [frame |-> s, pos |-> t + (j - Len(w))]
      BY <3>a
    <3>3. m = Len(q)
      BY <1>0, <1>4, <3>2
    <3>4. v[i].pos + (j - i) = t + (j - Len(w)) /\ t + (j - Len(w)) \leq FrameLen[s]
      BY <1>0, <1>e, <2>2, <3>1, <3>2
    <3> QED BY <1>0, <3>2, <3>3, <3>4 DEF InPlace
  <2>3. CASE i \in 1 .. Len(w) /\ j \in Len(w) + 1 .. Len(v)
    <3> DEFINE p == w[i].pos
               L == Len(w)
               F == FrameLen[q[m]]
    <3>a. v[i] = w[i] /\ w[i].frame = q[m]
      BY <1>4, <1>e, <2>3
    <3>b. v[j] = [frame |-> s, pos |-> t + (j - L)]
      BY <1>1, <2>3
    <3>c. /\ p \in Nat /\ L \in Nat \ {0} /\ F \in Nat /\ w # <<>>
          /\ L \in 1 .. L /\ i \leq L /\ i \in Nat /\ j \in Nat /\ L < j /\ j - L \leq n
      BY <1>0, <1>e, <2>3, SMTT(60)
    <3>0. /\ v[i] = w[i] /\ w[i].frame = q[m] /\ p \in Nat /\ L \in Nat \ {0} /\ F \in Nat
          /\ L \in 1 .. L /\ i \leq L /\ w # <<>> /\ i \in Nat /\ j \in Nat
          /\ v[j] = [frame |-> s, pos |-> t + (j - L)] /\ L < j /\ j - L \leq n
      BY <3>a, <3>b, <3>c
    <3>1. p + (L - i) \leq F => w[L] = [frame |-> q[m], pos |-> p + (L - i)]
      <4>1. InPlace(q, w, m, i, L)
        BY <2>3, <3>0 DEF Contiguous
      <4> QED BY <4>1 DEF InPlace
    <3>2. \A k \in DOMAIN q : w[L].frame = q[k] =>
            IF w[L].pos < FrameLen[q[k]] THEN Len(q) = k /\ t + 1 = w[L].pos + 1
                                         ELSE Len(q) = k + 1 /\ t + 1 = 1
      BY <3>0 DEF EndsAt
    <3>3. p + (L - i) < F => Len(q) = m /\ t = p + (L - i)
      <4> SUFFICES ASSUME p + (L - i) < F PROVE Len(q) = m /\ t = p + (L - i)
        OBVIOUS
      <4> HIDE DEF p, L, F
      <4>a. p + (L - i) \leq F
        BY <3>c
      <4>0. w[L] = [frame |-> q[m], pos |-> p + (L - i)]
        BY <3>1, <4>a
      <4>1. w[L].frame = q[m] /\ w[L].pos = p + (L - i)
        BY <4>0
      <4>2. Len(q) = m /\ t + 1 = (p + (L - i)) + 1
        BY <3>2, <4>1 DEF L, F
      <4>3. p + (L - i) \in Int
        BY <3>c
      <4> QED BY <4>2, <4>3
    <3>4. p + (L - i) = F => Len(q) = m + 1 /\ t = 0
      <4> SUFFICES ASSUME p + (L - i) = F PROVE Len(q) = m + 1 /\ t = 0
        OBVIOUS
      <4>1. w[L].frame = q[m] /\ ~ (w[L].pos < F)
        BY <3>0, <3>1, SMTT(60)
      <4> QED BY <3>2, <4>1
    <3> HIDE DEF p, L, F
    <3>5. ASSUME p + (j - i) \leq F
          PROVE  v[j] = [frame |-> q[m], pos |-> p + (j - i)]
      <4>1. p + (L - i) < F
        BY <3>0, <3>5
      <4>2. Len(q) = m /\ t + (j - L) = p + (j - i)
        BY <3>0, <3>3, <4>1
      <4> QED BY <3>0, <4>2
    <3>6. ASSUME p + (j - i) = F + 1
          PROVE  m + 1 \in DOMAIN q /\ v[j] = [frame |-> q[m + 1], pos |-> 1]
      <4>1. p + (L - i) \leq F
        BY <3>0, <3>6
      <4>2. ~ (p + (L - i) < F)
        <5> SUFFICES ASSUME p + (L - i) < F PROVE FALSE
          OBVIOUS
        <5>1. Len(q) = m /\ t = p + (L - i)
          BY <3>3
        <5>2. t + (j - L) = F + 1 /\ FrameLen[s] = F
          BY <3>0, <3>6, <5>1 DEF F
        <5> QED BY <1>0, <3>0, <5>2
      <4>3. Len(q) = m + 1 /\ t = 0 /\ j - L = 1
        BY <3>0, <3>4, <3>6, <4>1, <4>2
      <4> QED BY <1>0, <3>0, <4>3
    <3> QED BY <3>0, <3>5, <3>6 DEF p, F, InPlace
  <2> QED BY <1>2, <2>1, <2>2, <2>3
<1> QED BY <1>3, <1>4 DEF Contiguous

-----------------------------------------------------------------------------
(* Both sides keep step as long as nothing times out.                      *)

\* A prefix that is one decodes to the length of its frame.
LEMMA DecodesToLength ==
  ASSUME NEW b \in Seq(Byte), NEW c \in Senders, Len(b) \geq PrefixLen,
         \A k \in 1 .. Len(b) : b[k] = [frame |-> c, pos |-> k]
  PROVE  Decoded(b) = {FrameLen[c]}
<1> DEFINE u == SubSeq(b, 1, PrefixLen)
           v == Bytes(c, 1, PrefixLen)
<1>0. PrefixLen \in Nat \ {0} /\ Len(b) \in Nat
  BY LengthAssumption
<1>1. u \in Seq(Byte) /\ Len(u) = PrefixLen /\ \A k \in 1 .. PrefixLen : u[k] = b[k]
  <2>1. \A i \in 1 .. PrefixLen : b[i] \in Byte
    BY <1>0
  <2>2. /\ u \in Seq(Byte) /\ Len(u) = IF 1 <= PrefixLen THEN PrefixLen - 1 + 1 ELSE 0
        /\ \A i \in 1 .. PrefixLen - 1 + 1 : u[i] = b[1 + i - 1]
    BY <1>0, <2>1, SubSeqProperties
  <2> HIDE DEF u
  <2> QED BY <1>0, <2>2
<1>2. /\ v \in Seq(Byte) /\ Len(v) = PrefixLen
      /\ \A k \in 1 .. PrefixLen : v[k] = [frame |-> c, pos |-> k]
  <2>1. /\ Bytes(c, 0 + 1, 0 + PrefixLen) \in Seq(Byte)
        /\ Len(Bytes(c, 0 + 1, 0 + PrefixLen)) = PrefixLen
        /\ \A k \in 1 .. PrefixLen :
             Bytes(c, 0 + 1, 0 + PrefixLen)[k] = [frame |-> c, pos |-> 0 + k]
    BY <1>0, BytesFacts
  <2>2. 0 + 1 = 1 /\ 0 + PrefixLen = PrefixLen /\ \A k \in 1 .. PrefixLen : 0 + k = k
    BY <1>0
  <2> QED BY <2>1, <2>2
<1> HIDE DEF u, v
<1>3. \A k \in 1 .. Len(u) : u[k] = v[k]
  BY <1>0, <1>1, <1>2
<1>4. u = v
  BY <1>1, <1>2, <1>3, SeqEqual
<1>5. b[1].frame = c
  <2>1. b[1] = [frame |-> c, pos |-> 1]
    BY <1>0
  <2> QED BY <2>1
<1> QED BY <1>4, <1>5 DEF Decoded, u, v

\* A frame without its prefix is the payload.
LEMMA PayloadIsThere ==
  ASSUME NEW b \in Seq(Byte), NEW c \in Senders, Len(b) = FrameLen[c],
         \A k \in 1 .. Len(b) : b[k] = [frame |-> c, pos |-> k]
  PROVE  SubSeq(b, PrefixLen + 1, Len(b)) = Payload(c)
<1> DEFINE P == PrefixLen
           N == Len(b) - P
           u == SubSeq(b, P + 1, Len(b))
           v == Bytes(c, P + 1, FrameLen[c])
<1>0. P \in Nat \ {0} /\ Len(b) \in Nat /\ N \in Nat
  <2>1. P \in Nat \ {0} /\ Len(b) \in Nat
    BY LengthAssumption
  <2>2. Len(b) \geq 2 * P - 1
    BY LengthAssumption
  <2> QED BY <2>1, <2>2
<1>1. u \in Seq(Byte) /\ Len(u) = N /\ \A k \in 1 .. N : u[k] = b[P + k]
  <2>1. \A i \in P + 1 .. Len(b) : b[i] \in Byte
    BY <1>0
  <2>2. P + 1 \in Int /\ Len(b) \in Int
    BY <1>0
  <2>3. /\ u \in Seq(Byte)
        /\ Len(u) = IF P + 1 <= Len(b) THEN Len(b) - (P + 1) + 1 ELSE 0
        /\ \A i \in 1 .. Len(b) - (P + 1) + 1 : u[i] = b[(P + 1) + i - 1]
    BY <2>1, <2>2, SubSeqProperties
  <2> HIDE DEF u, P
  <2> QED BY <1>0, <2>3
<1>2. /\ v \in Seq(Byte) /\ Len(v) = N
      /\ \A k \in 1 .. N : v[k] = [frame |-> c, pos |-> P + k]
  <2>1. P + N = FrameLen[c]
    BY <1>0
  <2> HIDE DEF N
  <2>2. /\ Bytes(c, P + 1, P + N) \in Seq(Byte) /\ Len(Bytes(c, P + 1, P + N)) = N
        /\ \A k \in 1 .. N : Bytes(c, P + 1, P + N)[k] = [frame |-> c, pos |-> P + k]
    BY <1>0, BytesFacts
  <2> QED BY <2>1, <2>2
<1> HIDE DEF u, v
<1>3. \A k \in 1 .. Len(u) : u[k] = v[k]
  <2> SUFFICES ASSUME NEW k \in 1 .. N PROVE u[k] = v[k]
    BY <1>1
  <2>1. P + k \in 1 .. Len(b)
    BY <1>0
  <2> QED BY <1>1, <1>2, <2>1
<1>4. u = v
  BY <1>1, <1>2, <1>3, SeqEqual
<1> QED BY <1>4 DEF Payload, u, v, P

\* The types that the steps below rely on.
LEMMA InStepTypes ==
  ASSUME TypeOK
  PROVE  /\ order \in Seq(Senders) /\ DOMAIN order = 1 .. Len(order) /\ Len(order) \in Nat
         /\ \A n \in DOMAIN order : order[n] \in Senders
         /\ \A s \in Senders : /\ FrameLen[s] \in Nat \ {0} /\ FrameLen[s] \geq 2 * PrefixLen - 1
                               /\ totalSent[s] \in Nat /\ totalSent[s] \leq FrameLen[s]
         /\ PrefixLen \in Nat \ {0}
         /\ stream \in Seq(Byte) /\ Len(stream) \in Nat /\ (stream = <<>> <=> Len(stream) = 0)
         /\ buf \in Seq(Byte) /\ Len(buf) \in Nat /\ (buf = <<>> <=> Len(buf) = 0)
         /\ Len(delivered) \in Nat /\ DOMAIN delivered = 1 .. Len(delivered)
         /\ totalLen \in Int /\ NoSender \notin Senders
<1>1. \A s \in Senders : /\ FrameLen[s] \in Nat \ {0} /\ FrameLen[s] \geq 2 * PrefixLen - 1
                          /\ totalSent[s] \in Nat /\ totalSent[s] \leq FrameLen[s]
  BY FramesAreLong DEF TypeOK
<1>2. PrefixLen \in Nat \ {0} /\ NoSender \notin Senders
  BY LengthAssumption, SenderAssumption
<1>3. /\ order \in Seq(Senders) /\ stream \in Seq(Byte) /\ buf \in Seq(Byte)
      /\ delivered \in Seq(Seq(Byte)) /\ totalLen \in Int
  BY DEF TypeOK
<1> QED BY <1>1, <1>2, <1>3

\* A thread gets its turn: its first byte is the next one to be written.
LEMMA StartKeepsStep ==
  ASSUME TypeOK, SendersTakeTurns, NEW s \in Senders, StartSend(s),
         OnTime, BufferIsPrefix, StreamIsBetween, FramesIntact, LastByteIsThere
  PROVE  (OnTime /\ BufferIsPrefix /\ StreamIsBetween /\ FramesIntact /\ LastByteIsThere)'
<1>0. /\ order \in Seq(Senders) /\ DOMAIN order = 1 .. Len(order) /\ Len(order) \in Nat
      /\ stream \in Seq(Byte) /\ Len(stream) \in Nat /\ Len(buf) \in Nat
      /\ Len(delivered) \in Nat /\ DOMAIN delivered = 1 .. Len(delivered)
      /\ FrameLen[s] \in Nat \ {0} /\ PrefixLen \in Nat \ {0} /\ NoSender \notin Senders
      /\ (buf = <<>> <=> Len(buf) = 0) /\ (stream = <<>> <=> Len(stream) = 0)
  BY InStepTypes
<1>1. /\ order' = Append(order, s) /\ sm = NoSender /\ sender[s] = "idle"
      /\ sender' = [sender EXCEPT ![s] = "writing"]
      /\ UNCHANGED <<totalSent, stream, receiver, buf, totalLen, delivered>>
  BY DEF StartSend, recvVars
<1>2. /\ DOMAIN order' = 1 .. Len(order) + 1 /\ Len(order') = Len(order) + 1
      /\ \A n \in DOMAIN order : order'[n] = order[n]
      /\ order'[Len(order) + 1] = s
  BY <1>0, <1>1, NewTurn
<1>3. (\A n \in DOMAIN order : order[n] # s) /\ totalSent[s] = 0
  BY <1>1 DEF SendersTakeTurns
<1>4. OnTime'
  BY <1>1 DEF OnTime, TypeOK
<1>5. buf # <<>> => Len(delivered) + 1 \in DOMAIN order /\ Current' = Current
  BY <1>0, <1>1, <1>2 DEF BufferIsPrefix, Current
<1>6. FrameRead' = FrameRead
  BY <1>1, <1>5 DEF FrameRead
<1>7. BufferIsPrefix'
  <2>1. CASE buf = <<>>
    BY <1>0, <1>1, <1>6, <2>1 DEF BufferIsPrefix
  <2>2. CASE buf # <<>>
    BY <1>0, <1>1, <1>2, <1>5, <1>6, <2>2 DEF BufferIsPrefix
  <2> QED BY <2>1, <2>2
<1>8. FrameWritten
  <2> SUFFICES ASSUME order # <<>> PROVE totalSent[Last] = FrameLen[Last]
    BY DEF FrameWritten
  <2>1. Len(order) \in DOMAIN order /\ Last \in Senders /\ order[Len(order)] = Last
    BY <1>0 DEF Last
  <2>2. sender[Last] # "idle" /\ sender[Last] \notin {"writing", "late", "spinning"}
    BY <1>0, <1>1, <2>1 DEF SendersTakeTurns
  <2> QED BY <2>1, <2>2 DEF SendersTakeTurns, TypeOK
<1>9. WriteTurn' = WriteTurn /\ WritePos' = WritePos
  <2>1. Last' = s /\ order' # <<>>
    BY <1>0, <1>2 DEF Last
  <2>2. totalSent'[s] = 0
    BY <1>1, <1>3
  <2>3. ~ FrameWritten'
    BY <1>0, <2>1, <2>2 DEF FrameWritten
  <2> QED BY <1>0, <1>2, <1>8, <2>1, <2>2, <2>3 DEF WriteTurn, WritePos
<1>10. ReadTurn' = ReadTurn /\ ReadPos' = ReadPos
  BY <1>1, <1>6 DEF ReadTurn, ReadPos
<1>11. StreamIsBetween'
  <2>1. Contiguous(order', stream')
    BY <1>0, <1>1, <1>3, ContiguousNewTurn DEF StreamIsBetween
  <2>2. CASE stream = <<>>
    BY <1>1, <1>9, <1>10, <2>1, <2>2 DEF StreamIsBetween
  <2>3. CASE stream # <<>>
    <3>1. StartsAt(order', stream, ReadTurn, ReadPos)
      BY <1>0, <1>2, <2>3 DEF StreamIsBetween, StartsAt
    <3>2. EndsAt(order', stream, WriteTurn, WritePos)
      <4>1. Len(stream) \in 1 .. Len(stream)
        BY <1>0, <2>3
      <4>2. \E m \in DOMAIN order : stream[Len(stream)].frame = order[m]
        BY <4>1 DEF StreamIsBetween, Contiguous
      <4>3. stream[Len(stream)].frame # s
        BY <1>3, <4>2
      <4>4. \A m \in DOMAIN order' : stream[Len(stream)].frame = order'[m]
              => m \in DOMAIN order /\ order'[m] = order[m]
        BY <1>0, <1>2, <4>3
      <4> QED BY <2>3, <4>4 DEF StreamIsBetween, EndsAt
    <3> QED BY <1>1, <1>9, <1>10, <2>1, <2>3, <3>1, <3>2 DEF StreamIsBetween
  <2> QED BY <2>2, <2>3
<1>12. FramesIntact'
  BY <1>0, <1>1, <1>2 DEF FramesIntact
<1>13. LastByteIsThere'
  <2> SUFFICES ASSUME NEW n \in DOMAIN order', n > Len(delivered), totalSent[order'[n]] > 0
               PROVE  LET byte == [frame |-> order'[n], pos |-> totalSent[order'[n]]] IN
                        \/ \E k \in 1 .. Len(stream) : stream[k] = byte
                        \/ \E k \in 1 .. Len(buf) : buf[k] = byte
    BY <1>1 DEF LastByteIsThere
  <2>1. n \in DOMAIN order /\ order'[n] = order[n]
    BY <1>0, <1>2, <1>3
  <2> QED BY <2>1 DEF LastByteIsThere
<1> QED BY <1>4, <1>7, <1>11, <1>12, <1>13

\* A write in time moves the end of the stream.
LEMMA WriteKeepsStep ==
  ASSUME TypeOK, SendersTakeTurns, NEW s \in Senders, WriteSome(s),
         OnTime, BufferIsPrefix, StreamIsBetween, FramesIntact, LastByteIsThere
  PROVE  (OnTime /\ BufferIsPrefix /\ StreamIsBetween /\ FramesIntact /\ LastByteIsThere)'
<1> DEFINE t == totalSent[s]
           L == Len(stream)
<1>0. /\ order \in Seq(Senders) /\ DOMAIN order = 1 .. Len(order) /\ Len(order) \in Nat
      /\ stream \in Seq(Byte) /\ L \in Nat
      /\ t \in Nat /\ FrameLen[s] \in Nat
      /\ (stream = <<>> <=> L = 0)
  BY InStepTypes
<1>1. PICK n : Write(s, n) /\ totalSent' = [totalSent EXCEPT ![s] = @ + n]
  BY DEF WriteSome
<1>2. /\ sender[s] = "writing"
      /\ UNCHANGED <<sender, order, receiver, buf, totalLen, delivered>>
  BY DEF WriteSome, recvVars
<1>3. /\ n \in Nat \ {0} /\ t + n \leq FrameLen[s]
      /\ stream' \in Seq(Byte) /\ Len(stream') = L + n
      /\ \A k \in 1 .. L : stream'[k] = stream[k]
      /\ \A k \in 1 .. n : stream'[L + k] = [frame |-> s, pos |-> t + k]
  BY <1>1, WriteFacts
<1>4. totalSent'[s] = t + n /\ \A r \in Senders \ {s} : totalSent'[r] = totalSent[r]
  BY <1>1 DEF TypeOK
<1>5. /\ order # <<>> /\ order[Len(order)] = s /\ Len(order) \in DOMAIN order
      /\ \A k, m \in DOMAIN order : order[k] = order[m] => k = m
  BY <1>0, <1>2 DEF SendersTakeTurns
<1> HIDE DEF t, L
<1>6. OnTime' /\ BufferIsPrefix' /\ FramesIntact'
  BY <1>2 DEF OnTime, BufferIsPrefix, FramesIntact, Current, FrameRead
<1>7. ReadTurn' = ReadTurn /\ ReadPos' = ReadPos
  BY <1>2 DEF ReadTurn, ReadPos, FrameRead, Current
<1>8. WriteTurn = Len(order) /\ WritePos = t + 1
  <2>1. Last = s /\ totalSent[Last] = t
    BY <1>5 DEF Last, t
  <2>2. t # FrameLen[s]
    BY <1>0, <1>3
  <2> QED BY <1>5, <2>1, <2>2 DEF WriteTurn, WritePos, FrameWritten
<1>9. IF t + n < FrameLen[s] THEN WriteTurn' = Len(order) /\ WritePos' = t + n + 1
                             ELSE WriteTurn' = Len(order) + 1 /\ WritePos' = 1
  <2>0. /\ t \in Nat /\ n \in Nat /\ t + n \in Nat /\ FrameLen[s] \in Nat
        /\ t + n \leq FrameLen[s]
    BY <1>0, <1>3, SMTT(60)
  <2>1. Last' = s /\ order' = order
    BY <1>2, <1>5 DEF Last
  <2>2. FrameWritten' <=> t + n = FrameLen[s]
    BY <1>4, <1>5, <2>1 DEF FrameWritten
  <2>3. CASE t + n < FrameLen[s]
    <3>1. t + n # FrameLen[s]
      BY <1>0, <2>0, <2>3
    <3> QED BY <1>4, <2>1, <2>2, <2>3, <3>1 DEF WriteTurn, WritePos
  <2>4. CASE ~ (t + n < FrameLen[s])
    <3>1. t + n = FrameLen[s]
      BY <2>0, <2>4
    <3> QED BY <2>1, <2>2, <2>4, <3>1 DEF WriteTurn, WritePos
  <2> QED BY <2>3, <2>4
<1>10. StreamIsBetween'
  <2>1. stream # <<>> => EndsAt(order, stream, Len(order), t + 1)
    BY <1>8 DEF StreamIsBetween
  <2>2. Contiguous(order, stream')
    <3>1. Contiguous(order, stream) /\ s = order[Len(order)]
      BY <1>5 DEF StreamIsBetween
    <3>2. Extended(stream, stream', s, t, n)
      BY <1>3 DEF L, Extended
    <3>3. /\ order \in Seq(Senders) /\ stream \in Seq(Byte) /\ stream' \in Seq(Byte)
          /\ t \in Nat /\ n \in Nat \ {0} /\ order # <<>> /\ t + n \leq FrameLen[s]
          /\ \A k, m \in DOMAIN order : order[k] = order[m] => k = m
      BY <1>0, <1>3, <1>5
    <3> QED BY <2>1, <3>1, <3>2, <3>3, ContiguousWrite
  <2>3. stream' # <<>> /\ Len(stream') = L + n /\ L + n \in Nat \ {0}
    BY <1>0, <1>3
  <2>4. StartsAt(order, stream', ReadTurn, ReadPos)
    <3>1. CASE stream = <<>>
      <4>1. ReadTurn = Len(order) /\ ReadPos = t + 1
        BY <1>8, <3>1 DEF StreamIsBetween
      <4>2. 1 \in 1 .. n /\ L + 1 = 1
        BY <1>0, <1>3, <3>1
      <4>3. stream'[1] = [frame |-> s, pos |-> t + 1]
        BY <1>3, <4>2
      <4> QED BY <1>5, <4>1, <4>3 DEF StartsAt
    <3>2. CASE stream # <<>>
      <4>1. stream'[1] = stream[1]
        BY <1>0, <1>3, <3>2
      <4> QED BY <3>2, <4>1 DEF StreamIsBetween, StartsAt
    <3> QED BY <3>1, <3>2
  <2>5. EndsAt(order, stream', WriteTurn', WritePos')
    <3>1. stream'[Len(stream')] = [frame |-> s, pos |-> t + n]
      BY <1>3, <2>3
    <3>2. ASSUME NEW m \in DOMAIN order, stream'[Len(stream')].frame = order[m]
          PROVE  m = Len(order)
      BY <1>5, <3>1, <3>2
    <3>3. stream'[Len(stream')].pos = t + n
      BY <3>1
    <3> QED BY <1>5, <1>9, <3>2, <3>3 DEF EndsAt
  <2> QED BY <1>2, <1>7, <2>2, <2>3, <2>4, <2>5 DEF StreamIsBetween
<1>11. LastByteIsThere'
  <2> SUFFICES ASSUME NEW m \in DOMAIN order, m > Len(delivered), totalSent'[order[m]] > 0
               PROVE  LET byte == [frame |-> order[m], pos |-> totalSent'[order[m]]] IN
                        \/ \E k \in 1 .. Len(stream') : stream'[k] = byte
                        \/ \E k \in 1 .. Len(buf) : buf[k] = byte
    BY <1>2 DEF LastByteIsThere
  <2>1. CASE order[m] = s
    <3>1. L + n \in 1 .. Len(stream') /\ stream'[L + n] = [frame |-> s, pos |-> t + n]
      BY <1>0, <1>3
    <3> QED BY <1>4, <2>1, <3>1
  <2>2. CASE order[m] # s
    <3>1. totalSent'[order[m]] = totalSent[order[m]]
      BY <1>0, <1>4, <2>2
    <3> DEFINE byte == [frame |-> order[m], pos |-> totalSent[order[m]]]
    <3>2. (\E k \in 1 .. L : stream[k] = byte) \/ \E k \in 1 .. Len(buf) : buf[k] = byte
      BY <3>1 DEF LastByteIsThere, L
    <3>3. \A k \in 1 .. L : k \in 1 .. Len(stream') /\ stream'[k] = stream[k]
      BY <1>0, <1>3
    <3> HIDE DEF byte
    <3>4. \/ \E k \in 1 .. Len(stream') : stream'[k] = byte
          \/ \E k \in 1 .. Len(buf) : buf[k] = byte
      BY <3>2, <3>3
    <3> QED BY <3>1, <3>4 DEF byte
  <2> QED BY <2>1, <2>2
<1> QED BY <1>6, <1>10, <1>11

\* A read in time moves the beginning of the stream, and does not leave the frame.
LEMMA ReadKeepsStep ==
  ASSUME TypeOK, ReadSome,
         OnTime, BufferIsPrefix, StreamIsBetween, FramesIntact, LastByteIsThere
  PROVE  (OnTime /\ BufferIsPrefix /\ StreamIsBetween /\ FramesIntact /\ LastByteIsThere)'
<1> DEFINE d == Len(delivered)
           c == Current
           F == FrameLen[Current]
           B == Len(buf)
           L == Len(stream)
           P == PrefixLen
<1>1. PICK n : Take(n) /\ buf' = buf \o SubSeq(stream, 1, n)
  BY DEF ReadSome
<1>2. /\ receiver = "reading"
      /\ totalLen' \in IF totalLen < 0 /\ Len(buf') \geq P THEN Decoded(buf') ELSE {totalLen}
      /\ receiver' = IF totalLen' \geq 0 /\ Len(buf') \geq totalLen'
                     THEN "complete" ELSE "reading"
      /\ UNCHANGED <<sender, totalSent, order, delivered>>
  BY DEF ReadSome, sendVars
<1>3. /\ n \in 1 .. L /\ n \leq ReadLength
      /\ stream' \in Seq(Byte) /\ Len(stream') = L - n
      /\ \A k \in 1 .. L - n : stream'[k] = stream[n + k]
  BY <1>1, TakeFacts
<1>4. /\ buf' \in Seq(Byte) /\ Len(buf') = B + n
      /\ \A k \in 1 .. B : buf'[k] = buf[k]
      /\ \A k \in 1 .. n : buf'[B + k] = stream[k]
  BY <1>1, ReadFacts
<1>5. stream # <<>> /\ ~ FrameRead
  <2>1. stream \in Seq(Byte) /\ L \in Nat /\ (stream = <<>> <=> L = 0)
    BY InStepTypes
  <2> QED BY <1>2, <1>3, <2>1 DEF BufferIsPrefix
<1>6. /\ ReadTurn = d + 1 /\ ReadPos = B + 1
      /\ d + 1 \in DOMAIN order /\ stream[1] = [frame |-> c, pos |-> B + 1]
  <2>1. ReadTurn = d + 1 /\ ReadPos = B + 1
    BY <1>5 DEF ReadTurn, ReadPos
  <2> QED BY <1>5, <2>1 DEF StreamIsBetween, StartsAt, Current
<1>7. /\ order \in Seq(Senders) /\ DOMAIN order = 1 .. Len(order) /\ Len(order) \in Nat
      /\ stream \in Seq(Byte) /\ L \in Nat /\ B \in Nat /\ d \in Nat /\ P \in Nat \ {0}
      /\ c \in Senders /\ F \in Nat \ {0} /\ F \geq 2 * P - 1 /\ n \in Nat \ {0}
      /\ (buf = <<>> <=> B = 0) /\ totalLen \in Int
  <2>1. c \in Senders /\ n \in Nat \ {0}
    BY <1>3, <1>6, InStepTypes DEF Current
  <2> QED BY <2>1, InStepTypes
\* "Prevent overshooting".
<1>8. B + n \leq F
  <2>1. CASE B \geq P
    <3>1. totalLen = F
      BY <2>1 DEF BufferIsPrefix
    <3> QED BY <1>3, <1>7, <3>1 DEF ReadLength
  <2>2. CASE ~ (B \geq P)
    <3>1. totalLen = -1
      BY <2>2 DEF BufferIsPrefix
    <3>2. n \leq P
      BY <1>3, <3>1 DEF ReadLength
    <3> QED BY <1>7, <2>2, <3>2
  <2> QED BY <2>1, <2>2
<1>9. \A k \in 1 .. L : InPlace(order, stream, d + 1, 1, k)
  <2> SUFFICES ASSUME NEW k \in 1 .. L PROVE InPlace(order, stream, d + 1, 1, k)
    OBVIOUS
  <2>1. 1 \in 1 .. L /\ 1 \leq k /\ k \in 1 .. L
    BY <1>7
  <2>2. stream[1].frame = order[d + 1]
    BY <1>6 DEF Current
  <2>3. Contiguous(order, stream)
    BY DEF StreamIsBetween
  <2> QED BY <1>6, <2>1, <2>2, <2>3 DEF Contiguous
<1>10. stream[1].pos = B + 1 /\ order[d + 1] = c
  BY <1>6 DEF Current
<1> HIDE DEF d, c, F, B, L, P
<1>11. \A k \in 1 .. L : B + k \leq F => stream[k] = [frame |-> c, pos |-> B + k]
  <2> SUFFICES ASSUME NEW k \in 1 .. L, B + k \leq F
               PROVE  stream[k] = [frame |-> c, pos |-> B + k]
    OBVIOUS
  <2>1. (B + 1) + (k - 1) = B + k
    BY <1>7
  <2>2. (B + 1) + (k - 1) \leq FrameLen[c] =>
          stream[k] = [frame |-> c, pos |-> (B + 1) + (k - 1)]
    BY <1>9, <1>10 DEF InPlace
  <2> QED BY <2>1, <2>2 DEF F, c
<1>12. \A k \in 1 .. Len(buf') : buf'[k] = [frame |-> c, pos |-> k]
  <2> SUFFICES ASSUME NEW k \in 1 .. Len(buf') PROVE buf'[k] = [frame |-> c, pos |-> k]
    OBVIOUS
  <2>1. CASE k \in 1 .. B
    BY <1>4, <2>1 DEF BufferIsPrefix, c, B
  <2>2. CASE k \notin 1 .. B
    <3>1. k - B \in 1 .. n /\ k - B \in 1 .. L /\ B + (k - B) = k /\ B + (k - B) \leq F
      BY <1>3, <1>4, <1>7, <1>8, <2>2
    <3>2. buf'[B + (k - B)] = stream[k - B]
      BY <1>4, <3>1
    <3>3. stream[k - B] = [frame |-> c, pos |-> B + (k - B)]
      BY <1>11, <3>1
    <3> QED BY <3>1, <3>2, <3>3
  <2> QED BY <2>1, <2>2
<1>13. /\ Current' = c /\ Len(buf') = B + n /\ buf' # <<>>
       /\ FrameRead' <=> B + n = F
  <2>1. Current' = c
    BY <1>2 DEF Current, c
  <2>2. buf' # <<>>
    BY <1>4, <1>7
  <2> QED BY <1>4, <2>1, <2>2 DEF FrameRead, F, c
<1>14. totalLen' = IF B + n \geq P THEN F ELSE -1
  <2>1. totalLen = IF B \geq P THEN F ELSE -1
    BY DEF BufferIsPrefix, F, B, P
  <2>2. B + n \geq P => Decoded(buf') = {F}
    BY <1>4, <1>7, <1>12, DecodesToLength DEF F, c, P
  <2>3. CASE B \geq P
    BY <1>2, <1>4, <1>7, <2>1, <2>3
  <2>4. CASE ~ (B \geq P)
    BY <1>2, <1>4, <1>7, <2>1, <2>2, <2>4
  <2> QED BY <2>3, <2>4
<1>15. receiver' = IF B + n = F THEN "complete" ELSE "reading"
  <2>1. CASE B + n \geq P
    BY <1>2, <1>4, <1>7, <1>8, <1>14, <2>1
  <2>2. CASE ~ (B + n \geq P)
    BY <1>2, <1>4, <1>7, <1>8, <1>14, <2>2
  <2> QED BY <2>1, <2>2
<1>16. BufferIsPrefix'
  <2>1. Len(delivered') < Len(order') /\ Len(buf') \leq FrameLen[Current']
    BY <1>2, <1>6, <1>7, <1>8, <1>13 DEF F, c, d
  <2>2. \A k \in 1 .. Len(buf') : buf'[k] = [frame |-> Current', pos |-> k]
    BY <1>12, <1>13
  <2>3. totalLen' = IF Len(buf') \geq PrefixLen THEN FrameLen[Current'] ELSE -1
    BY <1>13, <1>14 DEF F, c, P
  <2>4. (receiver' = "reading" => ~ FrameRead') /\ (receiver' = "complete" => FrameRead')
    BY <1>13, <1>15
  <2> QED BY <2>1, <2>2, <2>3, <2>4 DEF BufferIsPrefix
<1>17. /\ ReadTurn' = IF B + n = F THEN d + 2 ELSE d + 1
       /\ ReadPos' = IF B + n = F THEN 1 ELSE B + n + 1
  BY <1>2, <1>4, <1>13 DEF ReadTurn, ReadPos, d
<1>18. WriteTurn' = WriteTurn /\ WritePos' = WritePos
  BY <1>2 DEF WriteTurn, WritePos, FrameWritten, Last
<1>19. StreamIsBetween'
  <2>1. Contiguous(order, stream')
    <3>1. Contiguous(order, stream) /\ n \in Nat
      BY <1>7 DEF StreamIsBetween
    <3>2. Len(stream') = Len(stream) - n /\ \A k \in 1 .. Len(stream) - n : stream'[k] = stream[n + k]
      BY <1>3 DEF L
    <3> QED BY <1>3, <1>7, <3>1, <3>2, ContiguousDrop
  <2>2. EndsAt(order, stream, WriteTurn, WritePos)
    BY <1>5 DEF StreamIsBetween
  <2>3. CASE n = L
    <3>1. stream' = <<>>
      BY <1>3, <1>7, <2>3
    <3>2. stream[L] = [frame |-> c, pos |-> B + n]
      BY <1>3, <1>8, <1>11, <2>3
    <3>3. stream[L].frame = order[d + 1] /\ stream[L].pos = B + n
      BY <1>10, <3>2
    <3>4. IF B + n < F THEN WriteTurn = d + 1 /\ WritePos = (B + n) + 1
                       ELSE WriteTurn = (d + 1) + 1 /\ WritePos = 1
      BY <1>6, <1>10, <2>2, <3>3 DEF EndsAt, L, F, c
    <3>5. WriteTurn = ReadTurn' /\ WritePos = ReadPos'
      BY <1>7, <1>8, <1>17, <3>4
    <3> QED BY <1>2, <1>18, <2>1, <3>1, <3>5 DEF StreamIsBetween
  <2>4. CASE n # L
    <3>1. /\ stream' # <<>> /\ n + 1 \in 1 .. L /\ 1 \in 1 .. L - n
          /\ L - n \in 1 .. L - n /\ n + (L - n) = L
      BY <1>3, <1>7, <2>4
    <3>2. stream'[1] = stream[n + 1] /\ stream'[L - n] = stream[L]
      BY <1>3, <3>1
    <3>3. StartsAt(order, stream', ReadTurn', ReadPos')
      <4>1. CASE B + n = F
        <5>1. (B + 1) + ((n + 1) - 1) = F + 1
          BY <1>7, <4>1
        <5>2. (B + 1) + ((n + 1) - 1) = FrameLen[c] + 1 =>
                (d + 1) + 1 \in DOMAIN order
                  /\ stream[n + 1] = [frame |-> order[(d + 1) + 1], pos |-> 1]
          BY <1>9, <1>10, <3>1 DEF InPlace
        <5>3. (d + 1) + 1 = d + 2 /\ F = FrameLen[c]
          BY <1>7 DEF F, c
        <5> QED BY <1>17, <3>2, <4>1, <5>1, <5>2, <5>3 DEF StartsAt
      <4>2. CASE B + n # F
        <5>1. B + (n + 1) \leq F /\ B + (n + 1) = B + n + 1
          BY <1>7, <1>8, <4>2
        <5>2. stream[n + 1] = [frame |-> c, pos |-> B + (n + 1)]
          BY <1>11, <3>1, <5>1
        <5> QED BY <1>6, <1>10, <1>17, <3>2, <4>2, <5>1, <5>2 DEF StartsAt
      <4> QED BY <4>1, <4>2
    <3>4. EndsAt(order, stream', WriteTurn, WritePos)
      BY <1>3, <2>2, <3>2 DEF EndsAt, L
    <3> QED BY <1>2, <1>18, <2>1, <3>1, <3>3, <3>4 DEF StreamIsBetween
  <2> QED BY <2>3, <2>4
<1>20. LastByteIsThere'
  <2> SUFFICES ASSUME NEW m \in DOMAIN order, m > Len(delivered), totalSent[order[m]] > 0
               PROVE  LET byte == [frame |-> order[m], pos |-> totalSent[order[m]]] IN
                        \/ \E k \in 1 .. Len(stream') : stream'[k] = byte
                        \/ \E k \in 1 .. Len(buf') : buf'[k] = byte
    BY <1>2 DEF LastByteIsThere
  <2> DEFINE byte == [frame |-> order[m], pos |-> totalSent[order[m]]]
  <2>1. (\E k \in 1 .. L : stream[k] = byte) \/ \E k \in 1 .. B : buf[k] = byte
    BY DEF LastByteIsThere, L, B
  <2> HIDE DEF byte
  <2>2. ASSUME NEW k \in 1 .. L, stream[k] = byte
        PROVE  \/ \E j \in 1 .. Len(stream') : stream'[j] = byte
               \/ \E j \in 1 .. Len(buf') : buf'[j] = byte
    <3>1. CASE k \in 1 .. n
      <4>1. B + k \in 1 .. Len(buf') /\ buf'[B + k] = stream[k]
        BY <1>4, <1>7, <3>1
      <4> QED BY <2>2, <4>1
    <3>2. CASE k \notin 1 .. n
      <4>1. k - n \in 1 .. L - n /\ k - n \in 1 .. Len(stream') /\ n + (k - n) = k
        BY <1>3, <1>7, <3>2
      <4>2. stream'[k - n] = stream[n + (k - n)]
        BY <1>3, <4>1
      <4> QED BY <2>2, <4>1, <4>2
    <3> QED BY <3>1, <3>2
  <2>3. ASSUME NEW k \in 1 .. B, buf[k] = byte
        PROVE  \E j \in 1 .. Len(buf') : buf'[j] = byte
    <3>1. k \in 1 .. Len(buf') /\ buf'[k] = buf[k]
      BY <1>4, <1>7
    <3> QED BY <2>3, <3>1
  <2> QED BY <2>1, <2>2, <2>3 DEF byte
<1>21. OnTime' /\ FramesIntact'
  BY <1>2, <1>15 DEF OnTime, FramesIntact
<1> QED BY <1>16, <1>19, <1>20, <1>21

\* What is delivered is the payload of the frame whose turn it was.
LEMMA DeliverKeepsStep ==
  ASSUME TypeOK, SendersTakeTurns, Deliver,
         OnTime, BufferIsPrefix, StreamIsBetween, FramesIntact, LastByteIsThere
  PROVE  (OnTime /\ BufferIsPrefix /\ StreamIsBetween /\ FramesIntact /\ LastByteIsThere)'
<1> DEFINE d == Len(delivered)
           x == SubSeq(buf, PrefixLen + 1, Len(buf))
<1>0. /\ DOMAIN order = 1 .. Len(order) /\ Len(order) \in Nat
      /\ buf \in Seq(Byte) /\ Len(buf) \in Nat /\ d \in Nat /\ DOMAIN delivered = 1 .. d
      /\ PrefixLen \in Nat \ {0} /\ Len(<<>>) = 0
  BY InStepTypes
<1>1. /\ receiver = "complete" /\ delivered' = Append(delivered, x)
      /\ buf' = <<>> /\ totalLen' = -1 /\ receiver' = "reading"
      /\ UNCHANGED <<sender, totalSent, order, stream>>
  BY DEF Deliver, sendVars
<1>2. /\ FrameRead /\ buf # <<>> /\ Len(buf) = FrameLen[Current] /\ d + 1 \in DOMAIN order
      /\ \A k \in 1 .. Len(buf) : buf[k] = [frame |-> Current, pos |-> k]
  BY <1>0, <1>1 DEF BufferIsPrefix, FrameRead
<1>3. x = Payload(order[d + 1])
  <2>1. Current \in Senders
    BY <1>2, InStepTypes DEF Current
  <2> QED BY <1>0, <1>2, <2>1, PayloadIsThere DEF Current
<1>4. /\ DOMAIN delivered' = 1 .. d + 1 /\ Len(delivered') = d + 1
      /\ delivered'[d + 1] = x /\ \A k \in 1 .. d : delivered'[k] = delivered[k]
  <2>1. delivered \in Seq(Seq(Byte)) /\ x \in Seq(Byte)
    <3>1. \A k \in PrefixLen + 1 .. Len(buf) : buf[k] \in Byte
      BY <1>0
    <3> QED BY <1>0, <3>1, SubSeqProperties DEF TypeOK
  <2> HIDE DEF x
  <2> QED BY <1>1, <2>1
<1> HIDE DEF d, x
<1>5. OnTime'
  BY <1>1 DEF OnTime
<1>6. BufferIsPrefix' /\ ~ FrameRead'
  BY <1>0, <1>1 DEF BufferIsPrefix, FrameRead
<1>7. ReadTurn' = ReadTurn /\ ReadPos' = ReadPos
  <2>1. ReadTurn = d + 2 /\ ReadPos = 1
    BY <1>2 DEF ReadTurn, ReadPos, d
  <2>2. ReadTurn' = Len(delivered') + 1 /\ ReadPos' = Len(buf') + 1
    BY <1>6 DEF ReadTurn, ReadPos
  <2> QED BY <1>0, <1>1, <1>4, <2>1, <2>2
<1>8. WriteTurn' = WriteTurn /\ WritePos' = WritePos
  BY <1>1 DEF WriteTurn, WritePos, FrameWritten, Last
<1>9. StreamIsBetween'
  BY <1>1, <1>7, <1>8 DEF StreamIsBetween
<1>10. FramesIntact'
  <2>1. \A k \in 1 .. d : delivered[k] = Payload(order[k])
    BY <1>0 DEF FramesIntact
  <2>2. \A k \in 1 .. d + 1 : k \in 1 .. d \/ k = d + 1
    BY <1>0
  <2>3. \A k \in DOMAIN delivered' : delivered'[k] = Payload(order[k])
    BY <1>3, <1>4, <2>1, <2>2
  <2>4. Len(delivered') \leq Len(order)
    BY <1>0, <1>2, <1>4
  <2> QED BY <1>1, <2>3, <2>4 DEF FramesIntact, Payload
<1>11. LastByteIsThere'
  <2> SUFFICES ASSUME NEW n \in DOMAIN order, n > d + 1, totalSent[order[n]] > 0
               PROVE  \E k \in 1 .. Len(stream) :
                        stream[k] = [frame |-> order[n], pos |-> totalSent[order[n]]]
    BY <1>1, <1>4 DEF LastByteIsThere
  <2> DEFINE byte == [frame |-> order[n], pos |-> totalSent[order[n]]]
  <2>1. n > d /\ n # d + 1
    BY <1>0
  <2>2. \/ \E k \in 1 .. Len(stream) : stream[k] = byte
        \/ \E k \in 1 .. Len(buf) : buf[k] = byte
    BY <2>1 DEF LastByteIsThere, d
  <2>3. ASSUME NEW k \in 1 .. Len(buf), buf[k] = byte PROVE FALSE
    <3>1. byte = [frame |-> order[d + 1], pos |-> k]
      BY <1>2, <2>3 DEF Current, d
    <3>2. order[n] = order[d + 1]
      BY <3>1
    <3> QED BY <1>2, <2>1, <3>2 DEF SendersTakeTurns
  <2> QED BY <2>2, <2>3
<1> QED BY <1>5, <1>6, <1>9, <1>10, <1>11

\* Errors and exits leave the bytes where they are.
LEMMA QuietKeepsStep ==
  ASSUME OnTime, BufferIsPrefix, StreamIsBetween, FramesIntact, LastByteIsThere,
         UNCHANGED <<totalSent, order, stream, buf, totalLen, delivered>>,
         \A s \in Senders : sender'[s] # "late",
         receiver' \in {receiver, "spinning"}
  PROVE  (OnTime /\ BufferIsPrefix /\ StreamIsBetween /\ FramesIntact /\ LastByteIsThere)'
<1>1. OnTime'
  BY DEF OnTime
<1>2. Current' = Current /\ FrameRead' = FrameRead
  BY DEF Current, FrameRead
<1>3. BufferIsPrefix'
  BY <1>2 DEF BufferIsPrefix
<1>4. /\ ReadTurn' = ReadTurn /\ ReadPos' = ReadPos
      /\ WriteTurn' = WriteTurn /\ WritePos' = WritePos
  BY <1>2 DEF ReadTurn, ReadPos, WriteTurn, WritePos, FrameWritten, Last
<1>5. StreamIsBetween'
  BY <1>4 DEF StreamIsBetween
<1>6. FramesIntact' /\ LastByteIsThere'
  BY DEF FramesIntact, LastByteIsThere
<1> QED BY <1>1, <1>3, <1>5, <1>6

LEMMA InStepStep ==
  ASSUME TypeOK, SendersTakeTurns, InStep, [Next]_vars
  PROVE  InStep'
<1> DEFINE Inv == OnTime /\ BufferIsPrefix /\ StreamIsBetween /\ FramesIntact
                    /\ LastByteIsThere
<1>0. /\ timeouts \in Nat
      /\ sender \in [Senders -> {"idle", "writing", "late", "spinning", "sent"}]
  BY FaultAssumption DEF TypeOK
<1> SUFFICES ASSUME timeouts' = 0 PROVE Inv'
  BY DEF InStep
<1>1. CASE \E s \in Senders : WriteTimeout(s)
  BY <1>0, <1>1 DEF WriteTimeout
<1>2. CASE ReadTimeout
  BY <1>0, <1>2 DEF ReadTimeout
<1>3. CASE ~ ((\E s \in Senders : WriteTimeout(s)) \/ ReadTimeout)
  <2>1. timeouts' = timeouts
    BY <1>3 DEF Next, SendStep, ReceiveStep, StartSend, WriteSome, EndSend, LateWrite,
                WriteError, ReadSome, Deliver, LateRead, ReadError, LateError, Exit, vars
  <2>2. OnTime /\ BufferIsPrefix /\ StreamIsBetween /\ FramesIntact /\ LastByteIsThere
    BY <2>1 DEF InStep
  <2>3. ASSUME NEW s \in Senders, StartSend(s) PROVE Inv'
    BY <2>2, <2>3, StartKeepsStep
  <2>4. ASSUME NEW s \in Senders, WriteSome(s) PROVE Inv'
    BY <2>2, <2>4, WriteKeepsStep
  <2>5. ASSUME NEW s \in Senders, EndSend(s) \/ WriteError(s) PROVE Inv'
    <3>1. /\ UNCHANGED <<totalSent, order, stream, buf, totalLen, delivered, receiver>>
          /\ \E v \in {"sent", "spinning"} : sender' = [sender EXCEPT ![s] = v]
      BY <2>5 DEF EndSend, WriteError, recvVars
    <3>2. \A r \in Senders : sender'[r] # "late"
      BY <1>0, <2>2, <3>1 DEF OnTime
    <3> QED BY <2>2, <3>1, <3>2, QuietKeepsStep
  <2>6. ASSUME NEW s \in Senders, LateWrite(s) PROVE FALSE
    BY <2>2, <2>6 DEF LateWrite, OnTime
  <2>7. CASE ReadSome
    BY <2>2, <2>7, ReadKeepsStep
  <2>8. CASE Deliver
    BY <2>2, <2>8, DeliverKeepsStep
  <2>9. CASE LateRead \/ LateError
    BY <2>2, <2>9 DEF LateRead, LateError, OnTime
  <2>10. CASE ReadError \/ UNCHANGED vars \/ \E p \in {"sender", "receiver"} : Exit(p)
    <3>1. /\ UNCHANGED <<totalSent, order, stream, buf, totalLen, delivered, sender>>
          /\ receiver' \in {receiver, "spinning"}
      BY <2>10 DEF ReadError, Exit, vars, sendVars, recvVars
    <3>2. \A r \in Senders : sender'[r] # "late"
      BY <2>2, <3>1 DEF OnTime
    <3> QED BY <2>2, <3>1, <3>2, QuietKeepsStep
  <2> HIDE DEF Inv
  <2> QED BY <1>3, <2>3, <2>4, <2>5, <2>6, <2>7, <2>8, <2>9, <2>10
          DEF Next, SendStep, ReceiveStep
<1> QED BY <1>1, <1>2, <1>3

LEMMA InStepInductive == Spec => [](TypeOK /\ SendersTakeTurns /\ InStep)
<1>1. Init => SendersTakeTurns /\ InStep
  <2> SUFFICES ASSUME Init PROVE SendersTakeTurns /\ InStep
    OBVIOUS
  <2>1. SendersTakeTurns
    BY DEF Init, SendersTakeTurns
  <2>2. /\ order = <<>> /\ stream = <<>> /\ buf = <<>> /\ delivered = <<>>
        /\ Len(<<>>) = 0 /\ DOMAIN <<>> = {} /\ 1 .. Len(<<>>) = {}
        /\ receiver = "reading" /\ totalLen = -1 /\ \A s \in Senders : sender[s] = "idle"
    BY DEF Init
  <2>3. OnTime
    BY <2>2 DEF OnTime
  <2>4. BufferIsPrefix
    BY <2>2, LengthAssumption DEF BufferIsPrefix, FrameRead
  <2>5. StreamIsBetween
    <3>1. ReadTurn = 1 /\ ReadPos = 1 /\ WriteTurn = 1 /\ WritePos = 1
      BY <2>2 DEF ReadTurn, ReadPos, WriteTurn, WritePos, FrameRead, FrameWritten
    <3>2. Contiguous(order, stream)
      BY <2>2 DEF Contiguous
    <3> QED BY <2>2, <3>1, <3>2 DEF StreamIsBetween
  <2>6. FramesIntact /\ LastByteIsThere
    BY <2>2 DEF FramesIntact, LastByteIsThere
  <2> QED BY <2>1, <2>3, <2>4, <2>5, <2>6 DEF InStep
<1>2. TypeOK /\ SendersTakeTurns /\ InStep /\ [Next]_vars => SendersTakeTurns' /\ InStep'
  BY TurnsStep, InStepStep
<1> QED BY <1>1, <1>2, SocketTypeCorrect, PTL DEF Spec

\* As long as no wait has timed out, the payloads delivered are those of the frames
\* sent, whole and in the order in which their threads got the mutex.
THEOREM FramesArriveIntact == Spec => []IntactUntilTimeout
<1>1. InStep => IntactUntilTimeout
  BY DEF InStep, IntactUntilTimeout
<1> QED BY <1>1, InStepInductive, PTL

\* And what has been read for a frame is the beginning of that frame: a read that
\* does not know the length yet never takes a byte of the next one.
THEOREM ReadsStayInTheFrame == Spec => []NoOvershoot
<1>1. TypeOK /\ InStep => NoOvershoot
  <2> SUFFICES ASSUME TypeOK, InStep, timeouts = 0
               PROVE  \E s \in Senders : \E n \in 0 .. FrameLen[s] : buf = Bytes(s, 1, n)
    BY DEF NoOvershoot
  <2>0. buf \in Seq(Byte) /\ Len(buf) \in Nat /\ (buf = <<>> <=> Len(buf) = 0)
        /\ Len(delivered) \in Nat /\ DOMAIN order = 1 .. Len(order) /\ Len(order) \in Nat
    BY InStepTypes
  <2>1. \E s \in Senders : /\ Len(buf) \in 0 .. FrameLen[s]
                           /\ \A k \in 1 .. Len(buf) : buf[k] = [frame |-> s, pos |-> k]
    <3>1. CASE buf = <<>>
      <4>1. PICK s \in Senders : TRUE
        BY SenderAssumption
      <4>2. FrameLen[s] \in Nat
        BY InStepTypes
      <4> QED BY <2>0, <3>1, <4>2
    <3>2. CASE buf # <<>>
      <4>1. Len(delivered) + 1 \in DOMAIN order /\ Len(buf) \leq FrameLen[Current]
            /\ \A k \in 1 .. Len(buf) : buf[k] = [frame |-> Current, pos |-> k]
        BY <2>0, <3>2 DEF InStep, BufferIsPrefix
      <4>2. Current \in Senders /\ FrameLen[Current] \in Nat
        BY <4>1, InStepTypes DEF Current
      <4> QED BY <2>0, <4>1, <4>2
    <3> QED BY <3>1, <3>2
  <2>2. PICK s \in Senders : /\ Len(buf) \in 0 .. FrameLen[s]
                             /\ \A k \in 1 .. Len(buf) : buf[k] = [frame |-> s, pos |-> k]
    BY <2>1
  <2> DEFINE b == Bytes(s, 1, Len(buf))
  <2>3. /\ b \in Seq(Byte) /\ Len(b) = Len(buf)
        /\ \A k \in 1 .. Len(buf) : b[k] = [frame |-> s, pos |-> k]
    <3>1. /\ Bytes(s, 0 + 1, 0 + Len(buf)) \in Seq(Byte)
          /\ Len(Bytes(s, 0 + 1, 0 + Len(buf))) = Len(buf)
          /\ \A k \in 1 .. Len(buf) :
               Bytes(s, 0 + 1, 0 + Len(buf))[k] = [frame |-> s, pos |-> 0 + k]
      BY <2>0, BytesFacts
    <3>2. 0 + 1 = 1 /\ 0 + Len(buf) = Len(buf) /\ \A k \in 1 .. Len(buf) : 0 + k = k
      BY <2>0
    <3> QED BY <3>1, <3>2
  <2> HIDE DEF b
  <2>4. \A k \in 1 .. Len(buf) : buf[k] = b[k]
    BY <2>2, <2>3
  <2>5. buf = b
    BY <2>0, <2>3, <2>4, SeqEqual
  <2> QED BY <2>2, <2>5 DEF b
<1> QED BY <1>1, InStepInductive, SocketTypeCorrect, PTL

\* No byte is counted before it is written, or forgotten on the way: the last byte
\* that a thread has counted is in the stream, in the buffer or delivered.
THEOREM NoByteIsForgotten == Spec => []AllBytesAccounted
<1>1. TypeOK /\ SendersTakeTurns /\ InStep => AllBytesAccounted
  <2> SUFFICES ASSUME TypeOK, SendersTakeTurns, InStep, timeouts = 0, NEW s \in Senders,
                      totalSent[s] > 0, \A k \in DOMAIN delivered : delivered[k] # Payload(s)
               PROVE  \/ \E k \in DOMAIN stream : stream[k] = [frame |-> s, pos |-> totalSent[s]]
                      \/ \E k \in DOMAIN buf : buf[k] = [frame |-> s, pos |-> totalSent[s]]
    BY DEF AllBytesAccounted
  <2>0. /\ DOMAIN order = 1 .. Len(order) /\ Len(order) \in Nat /\ totalSent[s] \in Nat
        /\ Len(delivered) \in Nat /\ DOMAIN delivered = 1 .. Len(delivered)
        /\ DOMAIN stream = 1 .. Len(stream) /\ DOMAIN buf = 1 .. Len(buf)
    BY InStepTypes
  <2>1. PICK n \in DOMAIN order : order[n] = s
    BY <2>0 DEF SendersTakeTurns
  <2>2. n > Len(delivered)
    <3>1. \A k \in DOMAIN delivered : delivered[k] = Payload(order[k])
      BY DEF InStep, FramesIntact
    <3>2. n \notin DOMAIN delivered
      BY <2>1, <3>1
    <3> QED BY <2>0, <3>2
  <2>3. LET byte == [frame |-> order[n], pos |-> totalSent[order[n]]] IN
          \/ \E k \in 1 .. Len(stream) : stream[k] = byte
          \/ \E k \in 1 .. Len(buf) : buf[k] = byte
    BY <2>1, <2>2 DEF InStep, LastByteIsThere
  <2> QED BY <2>0, <2>1, <2>3
<1> QED BY <1>1, InStepInductive, PTL
=============================================================================
