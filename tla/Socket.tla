------------------------------- MODULE Socket -------------------------------
(***************************************************************************)
(* One direction of a connection: Socket::Send / SocketSend on one machine *)
(* and Socket::Recieve / SocketRecieve on the other (Common/socket_impl.hpp)*)
(* with the TCP stream between them.                                       *)
(*                                                                         *)
(* A message travels as a frame: a prefix of PrefixLen bytes that holds the*)
(* length of the frame, then the payload.  Both loops move "some" bytes at *)
(* a time in a std::async task and wait 5 seconds for it.  If it is not    *)
(* ready, cancel() stops nothing (the task is in a synchronous call): the   *)
(* future's destructor waits for the task, whose bytes are not counted.    *)
(*                                                                         *)
(* Send and Recieve try five times, but SocketSend and SocketRecieve end    *)
(* with an error only if a task fails while its timeout is being handled;   *)
(* the retry then meets the same broken connection (WriteError).           *)
(*                                                                         *)
(* A byte is recorded as the frame and the position it was written for;     *)
(* the program sees only the length a prefix decodes to.                   *)
(***************************************************************************)
EXTENDS Integers, Sequences

CONSTANTS
  Senders,         \* threads of the sending machine, one frame each
  PrefixLen,       \* sizeof(int64_t)
  FrameLen,        \* total length of the frame of each sender
  Capacity,        \* bytes the connection can hold
  Slow,            \* operations that may take longer than the timeout:
                   \* a subset of {"read", "write"}
  Exits,           \* processes that may exit: subset of {"sender", "receiver"}
  GarbageLengths,  \* what bytes that are not a prefix may decode to
  MaxTimeouts,     \* bound on the waits that time out
  NoSender

ASSUME SenderAssumption == Senders # {} /\ NoSender \notin Senders

\* No frame ends before a read of PrefixLen bytes that starts inside its
\* prefix: with an 8-byte prefix and a 20-byte header, 28 >= 15.
ASSUME LengthAssumption ==
  /\ PrefixLen \in Nat \ {0} /\ Capacity \in Nat \ {0}
  /\ FrameLen \in [Senders -> Nat]
  /\ \A s \in Senders : FrameLen[s] \geq 2 * PrefixLen - 1
  /\ GarbageLengths \subseteq Int

ASSUME FaultAssumption ==
  /\ Slow \subseteq {"read", "write"} /\ Exits \subseteq {"sender", "receiver"}
  /\ MaxTimeouts \in Nat

VARIABLES
  sm,         \* holder of the send mutex
  sender,     \* per thread: "idle", "writing", "late", "spinning", "sent"
  totalSent,  \* per thread, bytes of its frame it has counted as written
  order,      \* frames in the order their threads got the mutex
  stream,     \* bytes in the connection
  receiver,   \* "reading", "late", "spinning", "complete", "crashed"
  buf,        \* bytes read into the buffer and counted
  totalLen,   \* length of the frame, -1 until it is known
  delivered,  \* payloads handed to StartRecieve
  timeouts,   \* waits that have timed out
  gone        \* processes that have exited

sendVars == <<sm, sender, totalSent, order>>
recvVars == <<receiver, buf, totalLen, delivered>>
vars == <<sm, sender, totalSent, order, stream, receiver, buf, totalLen,
          delivered, timeouts, gone>>

Byte == [frame : Senders, pos : Nat]
Bytes(s, from, to) == [k \in 1 .. (to - from + 1) |-> [frame |-> s, pos |-> from + k - 1]]
Payload(s) == Bytes(s, PrefixLen + 1, FrameLen[s])
Least(a, b) == IF a < b THEN a ELSE b

TypeOK ==
  /\ sm \in Senders \cup {NoSender}
  /\ sender \in [Senders -> {"idle", "writing", "late", "spinning", "sent"}]
  /\ totalSent \in [Senders -> Nat]
  /\ \A s \in Senders : totalSent[s] \leq FrameLen[s]
  /\ order \in Seq(Senders)
  /\ stream \in Seq(Byte) /\ Len(stream) \leq Capacity
  /\ receiver \in {"reading", "late", "spinning", "complete", "crashed"}
  /\ buf \in Seq(Byte)
  /\ totalLen \in Int
  /\ delivered \in Seq(Seq(Byte))
  /\ timeouts \in 0..MaxTimeouts
  /\ gone \subseteq {"sender", "receiver"}

Init ==
  /\ sm = NoSender
  /\ sender = [s \in Senders |-> "idle"]
  /\ totalSent = [s \in Senders |-> 0]
  /\ order = <<>>
  /\ stream = <<>>
  /\ receiver = "reading"
  /\ buf = <<>>
  /\ totalLen = -1
  /\ delivered = <<>>
  /\ timeouts = 0
  /\ gone = {}

-----------------------------------------------------------------------------
(* Sending.                                                                *)

SenderRuns == "sender" \notin gone

\* Mutant: the mutex is not taken.
StartSend_NoLock(s) ==
  /\ SenderRuns
  /\ sender[s] = "idle"
  /\ sm' = s
  /\ sender' = [sender EXCEPT ![s] = "writing"]
  /\ order' = Append(order, s)
  /\ UNCHANGED <<totalSent, stream, recvVars, timeouts, gone>>

\* Socket::Send: lock sm, prefix the buffer.
StartSend(s) ==
  /\ SenderRuns
  /\ sender[s] = "idle"
  /\ sm = NoSender
  /\ sm' = s
  /\ sender' = [sender EXCEPT ![s] = "writing"]
  /\ order' = Append(order, s)
  /\ UNCHANGED <<totalSent, stream, recvVars, timeouts, gone>>

\* The next n bytes of the frame enter the connection.
Write(s, n) ==
  /\ n \in 1 .. Least(FrameLen[s] - totalSent[s], Capacity - Len(stream))
  /\ stream' = stream \o Bytes(s, totalSent[s] + 1, totalSent[s] + n)

\* Mutants: what is written is counted twice; the bytes that were offered are
\* counted, not those that were written.
WriteSome_CountsTwice(s) ==
  /\ SenderRuns /\ "receiver" \notin gone
  /\ sender[s] = "writing"
  /\ \E n \in 1 .. FrameLen[s] :
       /\ Write(s, n)
       /\ totalSent' = [totalSent EXCEPT ![s] = @ + 2 * n]
  /\ UNCHANGED <<sm, sender, order, recvVars, timeouts, gone>>

WriteSome_CountsOffered(s) ==
  /\ SenderRuns /\ "receiver" \notin gone
  /\ sender[s] = "writing"
  /\ \E n \in 1 .. FrameLen[s] :
       /\ Write(s, n)
       /\ totalSent' = [totalSent EXCEPT ![s] = FrameLen[s]]
  /\ UNCHANGED <<sm, sender, order, recvVars, timeouts, gone>>

\* write_some returns in time.
WriteSome(s) ==
  /\ SenderRuns /\ "receiver" \notin gone
  /\ sender[s] = "writing"
  /\ \E n \in 1 .. FrameLen[s] :
       /\ Write(s, n)
       /\ totalSent' = [totalSent EXCEPT ![s] = @ + n]
  /\ UNCHANGED <<sm, sender, order, recvVars, timeouts, gone>>

\* The frame is out: SocketSend and Send return, sm is released.
EndSend(s) ==
  /\ SenderRuns
  /\ sender[s] = "writing"
  /\ totalSent[s] = FrameLen[s]
  /\ sender' = [sender EXCEPT ![s] = "sent"]
  /\ sm' = NoSender
  /\ UNCHANGED <<totalSent, order, stream, recvVars, timeouts, gone>>

\* The connection takes no byte for 5 seconds.
WriteTimeout(s) ==
  /\ SenderRuns /\ "write" \in Slow
  /\ sender[s] = "writing"
  /\ totalSent[s] < FrameLen[s]
  /\ Len(stream) = Capacity
  /\ sender' = [sender EXCEPT ![s] = "late"]
  /\ timeouts < MaxTimeouts /\ timeouts' = timeouts + 1
  /\ UNCHANGED <<sm, totalSent, order, stream, recvVars, gone>>

\* The task completes while its future is destroyed: totalSent stays.
LateWrite(s) ==
  /\ SenderRuns /\ "receiver" \notin gone
  /\ sender[s] = "late"
  /\ \E n \in 1 .. FrameLen[s] : Write(s, n)
  /\ sender' = [sender EXCEPT ![s] = "writing"]
  /\ UNCHANGED <<sm, totalSent, order, recvVars, timeouts, gone>>

\* write_some fails: cancel(ec) overwrites the error with success and the loop
\* writes again, for ever.  If a late task's error is seen instead, Send starts
\* the frame again and gets here, without a byte being written.
WriteError(s) ==
  /\ SenderRuns /\ "receiver" \in gone
  /\ sender[s] \in {"writing", "late"}
  /\ totalSent[s] < FrameLen[s]
  /\ sender' = [sender EXCEPT ![s] = "spinning"]
  /\ UNCHANGED <<sm, totalSent, order, stream, recvVars, timeouts, gone>>

-----------------------------------------------------------------------------
(* Receiving.                                                              *)

ReceiverRuns == "receiver" \notin gone

\* Mutant: the whole length instead of what is missing.
ReadLength_Whole == IF totalLen > 0 THEN totalLen ELSE PrefixLen

\* Bytes the next read asks for ("Prevent overshooting").
ReadLength == IF totalLen > 0 THEN totalLen - Len(buf) ELSE PrefixLen

\* The read takes the first n bytes of the stream.
Take(n) ==
  /\ n \in 1 .. Least(ReadLength, Len(stream))
  /\ stream' = SubSeq(stream, n + 1, Len(stream))

\* The lengths that the first PrefixLen bytes of b decode to.
Decoded(b) ==
  LET f == b[1].frame IN
    IF SubSeq(b, 1, PrefixLen) = Bytes(f, 1, PrefixLen)
    THEN {FrameLen[f]} ELSE GarbageLengths

\* Mutant: the length is looked at only if the prefix came in one piece.
ReadSome_WholePrefix ==
  /\ ReceiverRuns
  /\ receiver = "reading"
  /\ \E n \in 1 .. Capacity :
       /\ Take(n)
       /\ buf' = buf \o SubSeq(stream, 1, n)
  /\ totalLen' \in IF totalLen < 0 /\ buf = <<>> /\ Len(buf') = PrefixLen
                   THEN Decoded(buf') ELSE {totalLen}
  /\ receiver' = IF totalLen' \geq 0 /\ Len(buf') \geq totalLen'
                 THEN "complete" ELSE "reading"
  /\ UNCHANGED <<sendVars, delivered, timeouts, gone>>

\* read_some returns in time: count the bytes, get the length if it is not
\* known yet, leave the loop when the frame is there.
ReadSome ==
  /\ ReceiverRuns
  /\ receiver = "reading"
  /\ \E n \in 1 .. Capacity :
       /\ Take(n)
       /\ buf' = buf \o SubSeq(stream, 1, n)
  /\ totalLen' \in IF totalLen < 0 /\ Len(buf') \geq PrefixLen THEN Decoded(buf')
                                                               ELSE {totalLen}
  /\ receiver' = IF totalLen' \geq 0 /\ Len(buf') \geq totalLen'
                 THEN "complete" ELSE "reading"
  /\ UNCHANGED <<sendVars, delivered, timeouts, gone>>

\* Mutant: the prefix is left in front of the payload.
Deliver_WithPrefix ==
  /\ ReceiverRuns
  /\ receiver = "complete"
  /\ delivered' = Append(delivered, buf)
  /\ buf' = <<>>
  /\ totalLen' = -1
  /\ receiver' = "reading"
  /\ UNCHANGED <<sendVars, stream, timeouts, gone>>

\* Recieve returns the payload, StartRecieve handles it and calls Recieve again.
Deliver ==
  /\ ReceiverRuns
  /\ receiver = "complete"
  /\ delivered' = Append(delivered, SubSeq(buf, PrefixLen + 1, Len(buf)))
  /\ buf' = <<>>
  /\ totalLen' = -1
  /\ receiver' = "reading"
  /\ UNCHANGED <<sendVars, stream, timeouts, gone>>

\* Nothing arrives for 5 seconds.
ReadTimeout ==
  /\ ReceiverRuns /\ "read" \in Slow
  /\ receiver = "reading"
  /\ stream = <<>> /\ "sender" \notin gone
  /\ receiver' = "late"
  /\ timeouts < MaxTimeouts /\ timeouts' = timeouts + 1
  /\ UNCHANGED <<sendVars, stream, buf, totalLen, delivered, gone>>

\* The task completes while its future is destroyed: its bytes are taken off
\* the stream, totalRead stays, and the next read overwrites them.
LateRead ==
  /\ ReceiverRuns
  /\ receiver = "late"
  /\ \E n \in 1 .. Capacity : Take(n)
  /\ receiver' = "reading"
  /\ UNCHANGED <<sendVars, buf, totalLen, delivered, timeouts, gone>>

AtEof == stream = <<>> /\ "sender" \in gone

\* read_some reports end of file: cancel(ec) clears it and the loop goes on.
ReadError ==
  /\ ReceiverRuns
  /\ receiver = "reading"
  /\ AtEof
  /\ receiver' = "spinning"
  /\ UNCHANGED <<sendVars, stream, buf, totalLen, delivered, timeouts, gone>>

\* The task fails after the timeout.  It writes ec while the loop clears and
\* tests it (a data race).  If the error is lost the loop goes on; if it is
\* seen the loop is left, eof is cleared, and what was read is the message:
\* erasing a prefix that is not there is undefined.
LateError ==
  /\ ReceiverRuns
  /\ receiver = "late"
  /\ AtEof
  /\ receiver' \in {"reading", IF Len(buf) < PrefixLen THEN "crashed" ELSE "complete"}
  /\ UNCHANGED <<sendVars, stream, buf, totalLen, delivered, timeouts, gone>>

-----------------------------------------------------------------------------
\* A process exits; what it wrote stays readable.
Exit(p) ==
  /\ p \in Exits \ gone
  /\ gone' = gone \cup {p}
  /\ UNCHANGED <<sendVars, stream, recvVars, timeouts>>

SendStep(s) == StartSend(s) \/ WriteSome(s) \/ EndSend(s) \/ WriteTimeout(s)
                 \/ LateWrite(s) \/ WriteError(s)
ReceiveStep == ReadSome \/ Deliver \/ ReadTimeout \/ LateRead \/ ReadError \/ LateError

Next ==
  \/ \E s \in Senders : SendStep(s)
  \/ ReceiveStep
  \/ \E p \in {"sender", "receiver"} : Exit(p)

Spec == Init /\ [][Next]_vars

\* The threads of both machines run and the kernel moves bytes.  Nothing makes a
\* wait time out or a process exit.  (Whether a mutex is handed to a thread that
\* waits for it again and again is not an issue: each thread sends once.)
SendProgress(s) == StartSend(s) \/ WriteSome(s) \/ EndSend(s) \/ LateWrite(s)
                     \/ WriteError(s)
ReceiveProgress == ReadSome \/ Deliver \/ LateRead \/ ReadError \/ LateError

FairSpec == Spec /\ (\A s \in Senders : WF_vars(SendProgress(s)))
                 /\ WF_vars(ReceiveProgress)

-----------------------------------------------------------------------------
(* Properties.                                                             *)

\* local_network_test.cpp:2-3: "all data is trasmitted correctly through a
\* network without loss of data or corruption".  The payloads delivered are
\* those of the frames sent, in order.
FramesIntact ==
  /\ Len(delivered) \leq Len(order)
  /\ \A k \in DOMAIN delivered : delivered[k] = Payload(order[k])

\* As long as no wait has timed out that is so.
IntactUntilTimeout == timeouts = 0 => FramesIntact

\* "Prevent overshooting": what is read for a frame is the beginning of that
\* frame, even if its prefix comes in pieces.
NoOvershoot ==
  timeouts = 0 => \E s \in Senders : \E n \in 0 .. FrameLen[s] : buf = Bytes(s, 1, n)

\* socket.hpp:34: "Only one message is sent at a time".  Whatever times out or
\* exits, the bytes on their way to the receiver are grouped by frame, in the
\* order in which the senders got the mutex.
FramesNotInterleaved ==
  LET onTheWay == buf \o stream
      turn(k) == CHOOSE n \in DOMAIN order : order[n] = onTheWay[k].frame
  IN \A k \in 1 .. (Len(onTheWay) - 1) : turn(k) \leq turn(k + 1)

\* No byte is counted before it is written or forgotten on the way: every frame
\* that has been sent is in the stream, in the buffer or delivered.
AllBytesAccounted ==
  timeouts = 0 =>
  \A s \in Senders :
    totalSent[s] > 0 /\ (\A k \in DOMAIN delivered : delivered[k] # Payload(s)) =>
      \/ \E k \in DOMAIN stream : stream[k] = [frame |-> s, pos |-> totalSent[s]]
      \/ \E k \in DOMAIN buf : buf[k] = [frame |-> s, pos |-> totalSent[s]]

\* Every message whose sending has begun is delivered, unless a process exits
\* or a wait times out.
FramesArrive == \A s \in Senders : sender[s] # "idle" ~>
  \/ \E k \in DOMAIN delivered : delivered[k] = Payload(s)
  \/ gone # {} \/ timeouts > 0
=============================================================================
