--------------------------- MODULE NetworkProofs ---------------------------
(***************************************************************************)
(* Theorems about Network.tla, for any number of threads and peers and any *)
(* bound on the ids.  The id a call puts on the wire is the one it drew,    *)
(* provided that the threads do not share an unguarded message and that no *)
(* id reaches 2^32; from there on an answer can only wake its own call.    *)
(***************************************************************************)
EXTENDS Network, TLAPS

\* The id in the 32-bit header is the id.
IdsFit == MaxId \leq IdModulus

-----------------------------------------------------------------------------
(* The inductive invariant.                                                *)

\* A waiter exists exactly while its thread is in a call, and has registered
\* its callback before the thread writes the header.
WaiterFollowsCaller ==
  \A t \in Threads : caller[t] = "idle" <=> waiter[t] = "none"

\* An open call's id has been drawn below the bound.
IdsBounded == \A t \in Threads : InCall(t) => messageId[t] < MaxId

\* The SafeRef's mutex belongs to the only thread in a call.
LockHeld == \A t \in Threads : InCall(t) /\ sharing = "saferef" => msgLock = t

\* Nobody overwrites the header between its write and its serialization.
HeaderKept == \A t \in Threads : caller[t] = "send" => headerId[t] = messageId[t]

\* What travels to a peer and back names its own call.
OwnRequest == {r \in Request : r.id = r.call}
OwnResponse == {r \in Response : r.responseTo = r.call}

StreamsNameCalls ==
  /\ toPeer \in [Machines -> Seq(OwnRequest)]
  /\ fromPeer \in [Machines -> Seq(OwnResponse)]

IInv ==
  /\ TypeOK
  /\ WaiterFollowsCaller
  /\ IdsBounded
  /\ LockHeld
  /\ HeaderKept
  /\ StreamsNameCalls
  /\ AnswerIntegrity

-----------------------------------------------------------------------------
(* Type correctness.                                                       *)

LEMMA WireIdType ==
  ASSUME NEW h \in Nat
  PROVE  h % IdModulus \in Nat
BY BoundsAssumption

\* The copies of a frame are frames.
LEMMA CopiesType ==
  ASSUME NEW S, NEW frame \in S, NEW k \in 1..MaxCopies
  PROVE  Copies(frame, k) \in Seq(S)
<1>1. k \in Nat
  BY SocketAssumption
<1> QED BY <1>1 DEF Copies

\* A registration adds its own callback at most.
LEMMA RegistrationLeaves ==
  ASSUME NEW t \in Threads, RegisterEvent(t)
  PROVE  \E left \in SUBSET (allCallbacks[Target[t]] \cup {messageId[t]}) :
           allCallbacks' = [allCallbacks EXCEPT ![Target[t]] = left]
BY DEF RegisterEvent

\* Every variable keeps its type: ids are naturals, streams carry requests and
\* responses, the program counters stay in their ranges.
THEOREM TypeCorrect == Spec => []TypeOK
<1>1. Init => TypeOK
  BY NoThreadAssumption DEF Init, TypeOK
<1>2. TypeOK /\ [Next]_vars => TypeOK'
  <2> SUFFICES ASSUME TypeOK, [Next]_vars PROVE TypeOK'
    OBVIOUS
  <2> USE TargetAssumption DEF TypeOK, callbackVars, peerVars
  <2>1. ASSUME NEW t \in Threads, Refused(t) PROVE TypeOK'
    BY <2>1 DEF Refused
  <2>2. ASSUME NEW t \in Threads, Begin(t) PROVE TypeOK'
    BY <2>2 DEF Begin
  <2>3. ASSUME NEW t \in Threads, WriteHeader(t) PROVE TypeOK'
    <3>1. headerId' \in [Threads -> Nat]
      BY <2>3 DEF WriteHeader, HeaderWritten
    <3> QED BY <2>3, <3>1 DEF WriteHeader
  <2>4. ASSUME NEW t \in Threads, Send(t) PROVE TypeOK'
    <3>1. [id |-> WireId(t), call |-> messageId[t]] \in Request
      BY WireIdType DEF WireId, Request
    <3>2. toPeer' \in [Machines -> Seq(Request)]
      BY <2>4, <3>1, CopiesType DEF Send
    <3> QED BY <2>4, <3>2 DEF Send
  <2>5. ASSUME NEW t \in Threads, TimeOut(t) PROVE TypeOK'
    BY <2>5 DEF TimeOut
  <2>6. ASSUME NEW t \in Threads, Return(t) PROVE TypeOK'
    BY <2>6 DEF Return
  <2>7. ASSUME NEW t \in Threads, RegisterEvent(t) PROVE TypeOK'
    <3>1. PICK left \in SUBSET (allCallbacks[Target[t]] \cup {messageId[t]}) :
            allCallbacks' = [allCallbacks EXCEPT ![Target[t]] = left]
      BY <2>7, RegistrationLeaves
    <3>2. allCallbacks[Target[t]] \subseteq Nat /\ messageId[t] \in Nat
      OBVIOUS
    <3>3. left \in SUBSET Nat
      BY <3>2, Zenon
    <3>4. allCallbacks' \in [Machines -> SUBSET Nat]
      BY <3>1, <3>3, Zenon
    <3>5. /\ keys' = keys \cup {Target[t]}
          /\ waiter' = [waiter EXCEPT ![t] = "waiting"]
          /\ UNCHANGED <<idCounter, connected, caller, messageId, headerId, msgLock, sharing,
                         receiver, fired, peerVars, response, result>>
      BY <2>7 DEF RegisterEvent
    <3> QED BY <3>4, <3>5
  <2>8. ASSUME NEW m \in Machines, Connect(m) PROVE TypeOK'
    BY <2>8 DEF Connect
  <2>9. ASSUME NEW m \in Machines, PropagateMessage(m) PROVE TypeOK'
    <3>1. Head(fromPeer[m]) \in Response /\ Tail(fromPeer[m]) \in Seq(Response)
      BY <2>9 DEF PropagateMessage
    <3>2. Head(fromPeer[m]).call \in Nat
      BY <3>1 DEF Response
    <3>3. waiter' \in [Threads -> {"none", "register", "waiting", "done"}]
      BY <2>9 DEF PropagateMessage
    <3>4. response' \in [Threads -> Nat]
      BY <2>9, <3>2 DEF PropagateMessage
    <3>5. fired' \in [Machines -> SUBSET Nat]
      BY <2>9 DEF PropagateMessage, Matches
    <3>6. fromPeer' \in [Machines -> Seq(Response)]
      BY <2>9, <3>1 DEF PropagateMessage
    <3> QED BY <2>9, <3>3, <3>4, <3>5, <3>6 DEF PropagateMessage
  <2>10. ASSUME NEW m \in Machines, EraseCallbacks(m) PROVE TypeOK'
    BY <2>10 DEF EraseCallbacks, ErasedTo, ErasedTo
  <2>11. ASSUME NEW m \in Machines, PeerAnswer(m) PROVE TypeOK'
    <3>1. Head(toPeer[m]) \in Request /\ Tail(toPeer[m]) \in Seq(Request)
      BY <2>11 DEF PeerAnswer
    <3>2. [responseTo |-> Head(toPeer[m]).id, call |-> Head(toPeer[m]).call] \in Response
      BY <3>1 DEF Request, Response
    <3>3. fromPeer' \in [Machines -> Seq(Response)]
      BY <2>11, <3>2, CopiesType DEF PeerAnswer
    <3>4. Head(toPeer[m]).call \in Nat
      BY <3>1 DEF Request
    <3>5. handled' \in SUBSET Nat
      BY <2>11, <3>4 DEF PeerAnswer
    <3> QED BY <2>11, <3>1, <3>3, <3>5 DEF PeerAnswer
  <2>12. ASSUME NEW t \in Threads, RaceCrashes(t) PROVE TypeOK'
    BY <2>12 DEF RaceCrashes
  <2>13. ASSUME NEW e \in Ends, LoseStep(e) PROVE TypeOK'
    BY <2>13 DEF LoseStep
  <2>14. CASE UNCHANGED vars
    BY <2>14 DEF vars
  <2> QED
    BY <2>1, <2>2, <2>3, <2>4, <2>5, <2>6, <2>7, <2>8, <2>9, <2>10, <2>11, <2>12, <2>13, <2>14
       DEF Next, Caller, Receiver
<1> QED BY <1>1, <1>2, PTL DEF Spec

-----------------------------------------------------------------------------
(* The wire carries the caller's id, and an answer wakes its own call.      *)

\* An id below the bound survives the conversion to 32 bits.
LEMMA IdSurvives ==
  ASSUME IdsFit, NEW n \in Nat, n < MaxId
  PROVE  n % IdModulus = n
BY BoundsAssumption DEF IdsFit

\* The type invariant and the rest are inductive together, under the two
\* assumptions that the code does not enforce.
LEMMA InductiveInvariant ==
  ASSUME "shared" \notin Sharings, IdsFit
  PROVE  Spec => []IInv
<1> DEFINE Rest == /\ WaiterFollowsCaller
                   /\ IdsBounded
                   /\ LockHeld
                   /\ HeaderKept
                   /\ StreamsNameCalls
                   /\ AnswerIntegrity
<1>1. Init => Rest
  BY DEF Init, WaiterFollowsCaller, IdsBounded, LockHeld, HeaderKept,
         StreamsNameCalls, AnswerIntegrity, InCall
<1>2. TypeOK /\ TypeOK' /\ Rest /\ [Next]_vars => Rest'
  <2> SUFFICES ASSUME TypeOK, TypeOK', Rest, [Next]_vars PROVE Rest'
    OBVIOUS
  <2> USE TargetAssumption, SharingAssumption
  <2> USE DEF TypeOK, callbackVars, peerVars, InCall
  <2>1. ASSUME NEW t \in Threads, Refused(t) PROVE Rest'
    BY <2>1 DEF Refused, WaiterFollowsCaller, IdsBounded, LockHeld, HeaderKept,
         StreamsNameCalls, AnswerIntegrity
  <2>2. ASSUME NEW t \in Threads, Begin(t) PROVE Rest'
    <3>1. WaiterFollowsCaller'
      BY <2>2 DEF Begin, WaiterFollowsCaller
    <3>2. IdsBounded'
      BY <2>2 DEF Begin, IdsBounded
    <3>3. LockHeld'
      BY <2>2, NoThreadAssumption DEF Begin, LockHeld, CanEnter
    <3>4. HeaderKept' /\ AnswerIntegrity'
      BY <2>2 DEF Begin, HeaderKept, AnswerIntegrity, WaiterFollowsCaller
    <3>5. StreamsNameCalls'
      BY <2>2 DEF Begin, StreamsNameCalls
    <3> QED BY <3>1, <3>2, <3>3, <3>4, <3>5
  <2>3. ASSUME NEW t \in Threads, WriteHeader(t) PROVE Rest'
    <3>1. WaiterFollowsCaller' /\ IdsBounded' /\ LockHeld' /\ AnswerIntegrity'
      BY <2>3 DEF WriteHeader, WaiterFollowsCaller, IdsBounded, LockHeld, AnswerIntegrity
    <3>2. HeaderKept'
      <4> SUFFICES ASSUME NEW u \in Threads, caller'[u] = "send"
                   PROVE  headerId'[u] = messageId'[u]
        BY DEF HeaderKept
      <4>1. CASE u = t
        BY <4>1, <2>3 DEF WriteHeader, HeaderWritten
      <4>2. CASE u # t
        \* The other thread is in a call too, so the message is not locked.
        <5>1. caller[u] = "send"
          BY <4>2, <2>3 DEF WriteHeader
        <5>2. sharing = "own"
          BY <4>2, <5>1, <2>3 DEF LockHeld, WriteHeader
        <5> QED BY <4>2, <5>1, <5>2, <2>3 DEF WriteHeader, HeaderWritten, HeaderKept
      <4> QED BY <4>1, <4>2
    <3>3. StreamsNameCalls'
      BY <2>3 DEF WriteHeader, StreamsNameCalls
    <3> QED BY <3>1, <3>2, <3>3
  <2>4. ASSUME NEW t \in Threads, Send(t) PROVE Rest'
    <3> DEFINE msg == [id |-> WireId(t), call |-> messageId[t]]
    <3>1. WaiterFollowsCaller' /\ IdsBounded' /\ LockHeld' /\ HeaderKept' /\ AnswerIntegrity'
      BY <2>4 DEF Send, WaiterFollowsCaller, IdsBounded, LockHeld, HeaderKept, AnswerIntegrity
    <3>2. msg.id = msg.call
      BY <2>4, IdSurvives DEF Send, WireId, HeaderKept, IdsBounded
    <3>3. msg \in OwnRequest
      BY <3>2, WireIdType DEF WireId, Request, OwnRequest
    <3>4. PICK k \in 1..MaxCopies :
            toPeer' = [toPeer EXCEPT ![Target[t]] = @ \o Copies(msg, k)]
      BY <2>4 DEF Send
    <3>5. Copies(msg, k) \in Seq(OwnRequest)
      BY <3>3, CopiesType
    <3> HIDE DEF msg
    <3>6. toPeer[Target[t]] \o Copies(msg, k) \in Seq(OwnRequest)
      BY <3>5 DEF StreamsNameCalls
    <3>7. toPeer' \in [Machines -> Seq(OwnRequest)]
      BY <3>4, <3>6 DEF StreamsNameCalls
    <3>8. StreamsNameCalls'
      BY <2>4, <3>7 DEF Send, StreamsNameCalls
    <3> QED BY <3>1, <3>8
  <2>5. ASSUME NEW t \in Threads, TimeOut(t) PROVE Rest'
    BY <2>5 DEF TimeOut, WaiterFollowsCaller, IdsBounded, LockHeld, HeaderKept,
         StreamsNameCalls, AnswerIntegrity
  <2>6. ASSUME NEW t \in Threads, Return(t) PROVE Rest'
    <3>1. WaiterFollowsCaller' /\ IdsBounded' /\ HeaderKept' /\ AnswerIntegrity'
      BY <2>6 DEF Return, WaiterFollowsCaller, IdsBounded, HeaderKept, AnswerIntegrity
    <3>2. LockHeld'
      BY <2>6 DEF Return, LockHeld
    <3>3. StreamsNameCalls'
      BY <2>6 DEF Return, StreamsNameCalls
    <3> QED BY <3>1, <3>2, <3>3
  <2>7. ASSUME NEW t \in Threads, RegisterEvent(t) PROVE Rest'
    BY <2>7 DEF RegisterEvent, WaiterFollowsCaller, IdsBounded, LockHeld, HeaderKept,
         StreamsNameCalls, AnswerIntegrity
  <2>8. ASSUME NEW m \in Machines, Connect(m) PROVE Rest'
    BY <2>8 DEF Connect, WaiterFollowsCaller, IdsBounded, LockHeld, HeaderKept,
         StreamsNameCalls, AnswerIntegrity
  \* The receiver wakes a caller whose id the response names.
  <2>9. ASSUME NEW m \in Machines, PropagateMessage(m) PROVE Rest'
    <3> DEFINE msg == Head(fromPeer[m])
    <3>1. msg \in OwnResponse /\ Tail(fromPeer[m]) \in Seq(OwnResponse)
      BY <2>9 DEF PropagateMessage, StreamsNameCalls
    <3>2. msg.responseTo = msg.call
      BY <3>1 DEF OwnResponse
    <3>3. WaiterFollowsCaller'
      BY <2>9 DEF PropagateMessage, WaiterFollowsCaller, Matches
    <3>4. IdsBounded' /\ LockHeld' /\ HeaderKept'
      BY <2>9 DEF PropagateMessage, IdsBounded, LockHeld, HeaderKept
    <3>5. StreamsNameCalls'
      BY <2>9, <3>1 DEF PropagateMessage, StreamsNameCalls
    <3>6. AnswerIntegrity'
      BY <2>9, <3>2 DEF PropagateMessage, Matches, AnswerIntegrity
    <3> QED BY <3>3, <3>4, <3>5, <3>6
  <2>10. ASSUME NEW m \in Machines, EraseCallbacks(m) PROVE Rest'
    BY <2>10 DEF EraseCallbacks, ErasedTo, WaiterFollowsCaller, IdsBounded, LockHeld, HeaderKept,
         StreamsNameCalls, AnswerIntegrity
  \* The peer copies the id of the request into the response.
  <2>11. ASSUME NEW m \in Machines, PeerAnswer(m) PROVE Rest'
    <3> DEFINE req == Head(toPeer[m])
               msg == [responseTo |-> req.id, call |-> req.call]
    <3>1. WaiterFollowsCaller' /\ IdsBounded' /\ LockHeld' /\ HeaderKept' /\ AnswerIntegrity'
      BY <2>11 DEF PeerAnswer, WaiterFollowsCaller, IdsBounded, LockHeld, HeaderKept,
           AnswerIntegrity
    <3>2. req \in OwnRequest /\ Tail(toPeer[m]) \in Seq(OwnRequest)
      BY <2>11 DEF PeerAnswer, StreamsNameCalls
    <3>3. msg \in OwnResponse
      BY <3>2 DEF OwnRequest, OwnResponse, Request, Response
    <3>4. toPeer' \in [Machines -> Seq(OwnRequest)]
      BY <2>11, <3>2 DEF PeerAnswer, StreamsNameCalls
    <3>5. fromPeer' \in [Machines -> Seq(OwnResponse)]
      BY <2>11, <3>3, CopiesType DEF PeerAnswer, StreamsNameCalls
    <3> QED BY <3>1, <3>4, <3>5 DEF StreamsNameCalls
  <2>12. ASSUME NEW t \in Threads, RaceCrashes(t) PROVE Rest'
    BY <2>12 DEF RaceCrashes, WaiterFollowsCaller, IdsBounded, LockHeld, HeaderKept,
         StreamsNameCalls, AnswerIntegrity
  <2>13. ASSUME NEW e \in Ends, LoseStep(e) PROVE Rest'
    BY <2>13 DEF LoseStep, WaiterFollowsCaller, IdsBounded, LockHeld, HeaderKept,
         StreamsNameCalls, AnswerIntegrity
  <2>14. CASE UNCHANGED vars
    BY <2>14 DEF vars, WaiterFollowsCaller, IdsBounded, LockHeld, HeaderKept,
         StreamsNameCalls, AnswerIntegrity
  <2> QED
    BY <2>1, <2>2, <2>3, <2>4, <2>5, <2>6, <2>7, <2>8, <2>9, <2>10, <2>11, <2>12, <2>13, <2>14
       DEF Next, Caller, Receiver
<1> HIDE DEF Rest
<1>3. Spec => []TypeOK
  BY TypeCorrect
<1>4. TypeOK /\ Rest => IInv
  BY DEF IInv, Rest
<1> QED BY <1>1, <1>2, <1>3, <1>4, PTL DEF Spec

\* A caller is never woken by the answer to another call, however the threads,
\* the receivers and the peers interleave and whatever the race on the
\* callbacks does.
THEOREM AnswersReachTheirCallers ==
  ASSUME "shared" \notin Sharings, IdsFit
  PROVE  Spec => []AnswerIntegrity
<1>1. IInv => AnswerIntegrity
  BY DEF IInv
<1> QED BY <1>1, InductiveInvariant, PTL

\* Every response names the call it answers by the id its caller drew.
THEOREM ResponsesNameTheirRequests ==
  ASSUME "shared" \notin Sharings, IdsFit
  PROVE  Spec => []ResponseNamesRequest
<1>1. IInv => ResponseNamesRequest
  <2> SUFFICES ASSUME StreamsNameCalls, NEW m \in Machines, NEW i \in DOMAIN fromPeer[m]
               PROVE  fromPeer[m][i].responseTo = fromPeer[m][i].call
    BY DEF IInv, ResponseNamesRequest
  <2>1. fromPeer[m] \in Seq(OwnResponse)
    BY DEF StreamsNameCalls
  <2>2. fromPeer[m][i] \in OwnResponse
    BY <2>1
  <2> QED BY <2>2 DEF OwnResponse
<1> QED BY <1>1, InductiveInvariant, PTL

\* The SafeRef keeps the shared message to one call at a time, and a header is
\* serialized with the id written into it.
THEOREM SharedMessagesAreStable ==
  ASSUME "shared" \notin Sharings, IdsFit
  PROVE  Spec => []SharedMessageIsStable
<1>1. IInv => SharedMessageIsStable
  BY DEF IInv, LockHeld, HeaderKept, SharedMessageIsStable
<1> QED BY <1>1, InductiveInvariant, PTL
=============================================================================
