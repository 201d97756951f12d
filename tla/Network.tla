------------------------------ MODULE Network ------------------------------
(***************************************************************************)
(* The request/response layer of mons: Network::SendAwaitable,             *)
(* RegisterEvent, StartRecieve/PropagateMessage (Common/network_impl.hpp)   *)
(* and RemoteClient::SendOpWait (Common/remote_client_impl.hpp), as the    *)
(* server's threads use them.                                              *)
(*                                                                         *)
(* A thread that calls SendOpWait takes a fresh id, starts a waiter thread *)
(* (std::async), lets it register a callback, writes the id into the       *)
(* message's header, sends it and waits for the waiter's future.  One      *)
(* receiver thread per connection takes responses off the socket and runs  *)
(* the callbacks; the waiter whose id the response names is notified.      *)
(*                                                                         *)
(* A call is named by the 64-bit id it drew from idCounter, which no other *)
(* call has; the field "call" of a message records it and is not read by   *)
(* any guard: it is there to state the properties.  The field "id" is what *)
(* the wire carries.                                                       *)
(*                                                                         *)
(* The connection is not perfect (Socket.tla): a frame may be written more *)
(* than once, and a direction may fall out of step and carry nothing from  *)
(* then on.  The vectors of callbacks are not protected: a registration    *)
(* that races may cost callbacks, or end the program.                      *)
(***************************************************************************)
EXTENDS Naturals, Sequences

CONSTANTS
  Threads,       \* server threads that may be inside SendOpWait
  Machines,      \* the peers, one connection and one receiver thread each
  Target,        \* the peer each thread calls: Iterate gives each its own
  Sharings,      \* how the threads may share the message they send, see below
  Timed,         \* threads that pass a timeout > 0
  RaceOutcomes,  \* how an unsynchronised RegisterEvent may go wrong
  MaxCopies,     \* how often a frame may be written, for model checking
  LateReads,     \* may a read or write outlast its 5 seconds?
  IdModulus,     \* 2^32: BaseDataStruct keeps ids in a uint32_t
  MaxId,         \* bound on idCounter, for model checking
  NoThread

\* "own":     each thread builds its message (EvaluateWithGradient)
\* "shared":  the threads use one message, unguarded (StepTaken)
\* "saferef": one message, locked for the whole of SendOpWait (Train, SendData)
ASSUME SharingAssumption == Sharings \subseteq {"own", "shared", "saferef"}

ASSUME TargetAssumption == Target \in [Threads -> Machines]

ASSUME NoThreadAssumption == NoThread \notin Threads

ASSUME BoundsAssumption == IdModulus \in Nat \ {0} /\ MaxId \in Nat

ASSUME RaceAssumption == Timed \subseteq Threads
                           /\ RaceOutcomes \subseteq {"lost", "crash"}

ASSUME SocketAssumption == MaxCopies \in Nat \ {0} /\ LateReads \in BOOLEAN

VARIABLES
  idCounter,     \* Network::idCounter
  connected,     \* peers p with sockets[p]->IsConnected()
  caller,        \* where each thread is in SendOpWait / SendAwaitable
  waiter,        \* where the thread it launched is
  messageId,     \* the id the current or last call of a thread drew
  headerId,      \* BaseData.id of the message the thread sends
  msgLock,       \* holder of the SafeRef's mutex
  sharing,       \* which of Sharings the threads' calls are, from the start
  allCallbacks,  \* per peer, the ids the registered callbacks wait for
  keys,          \* peers that have an entry in the allCallbacks map
  receiver,      \* per peer: "recv", or "erase" inside PropagateMessage
  fired,         \* per peer, callbacks that returned true, not erased yet
  toPeer,        \* per peer, requests in the TCP stream
  fromPeer,      \* per peer, responses in the TCP stream
  handled,       \* calls a peer's handler has executed
  deaf,          \* ends <<end, machine>> that have lost their place in the stream
  running,       \* FALSE once the race on the callbacks has ended the program
  response,      \* per thread, the call its waiter got an answer to
  result         \* per thread, how its last SendOpWait returned

peerVars == <<toPeer, fromPeer, handled, deaf, running>>
callbackVars == <<allCallbacks, keys, receiver, fired>>
vars == <<idCounter, connected, caller, waiter, messageId, headerId, msgLock,
          sharing, allCallbacks, keys, receiver, fired, toPeer, fromPeer, handled,
          deaf, running, response, result>>

-----------------------------------------------------------------------------
Request == [id : Nat, call : Nat]
Response == [responseTo : Nat, call : Nat]

Ends == {"server", "peer"} \X Machines

TypeOK ==
  /\ idCounter \in Nat
  /\ connected \in SUBSET Machines
  /\ caller \in [Threads -> {"idle", "launched", "send", "wait", "expired"}]
  /\ waiter \in [Threads -> {"none", "register", "waiting", "done"}]
  /\ messageId \in [Threads -> Nat]
  /\ headerId \in [Threads -> Nat]
  /\ msgLock \in Threads \cup {NoThread}
  /\ sharing \in Sharings
  /\ allCallbacks \in [Machines -> SUBSET Nat]
  /\ keys \in SUBSET Machines
  /\ receiver \in [Machines -> {"recv", "erase"}]
  /\ fired \in [Machines -> SUBSET Nat]
  /\ toPeer \in [Machines -> Seq(Request)]
  /\ fromPeer \in [Machines -> Seq(Response)]
  /\ handled \in SUBSET Nat
  /\ deaf \in SUBSET Ends
  /\ running \in BOOLEAN
  /\ response \in [Threads -> Nat]
  /\ result \in [Threads -> {"none", "status", "notConnected", "timedOut"}]

Init ==
  /\ idCounter = 1
  /\ connected = {}
  /\ caller = [t \in Threads |-> "idle"]
  /\ waiter = [t \in Threads |-> "none"]
  /\ messageId = [t \in Threads |-> 0]
  /\ headerId = [t \in Threads |-> 0]
  /\ msgLock = NoThread
  /\ sharing \in Sharings
  /\ allCallbacks = [m \in Machines |-> {}]
  /\ keys = {}
  /\ receiver = [m \in Machines |-> "recv"]
  /\ fired = [m \in Machines |-> {}]
  /\ toPeer = [m \in Machines |-> <<>>]
  /\ fromPeer = [m \in Machines |-> <<>>]
  /\ handled = {}
  /\ deaf = {}
  /\ running = TRUE
  /\ response = [t \in Threads |-> 0]
  /\ result = [t \in Threads |-> "none"]

-----------------------------------------------------------------------------
(* Connections.  IsConnected tests that _socket is not null, and nothing   *)
(* that runs to its end makes it null again: it only ever becomes true.    *)

Connect(m) ==
  /\ running
  /\ m \notin connected
  /\ connected' = connected \cup {m}
  /\ UNCHANGED <<idCounter, caller, waiter, messageId, headerId, msgLock, sharing,
                 callbackVars, peerVars, response, result>>

-----------------------------------------------------------------------------
(* The calling thread.                                                     *)

\* Mutant: the message is not locked.
CanEnter_Unlocked == TRUE

\* SafeRef::Lock, held until SendOpWait has returned.
CanEnter == sharing = "saferef" => msgLock = NoThread

\* SendAwaitable returns nullopt, SendOpWait returns 1.
Refused(t) ==
  /\ running
  /\ caller[t] = "idle"
  /\ CanEnter
  /\ Target[t] \notin connected
  /\ result' = [result EXCEPT ![t] = "notConnected"]
  /\ UNCHANGED <<idCounter, connected, caller, waiter, messageId, headerId,
                 msgLock, sharing, callbackVars, peerVars, response>>

\* The id is drawn under Network::mutex, then the waiter is launched.
Begin(t) ==
  /\ running
  /\ caller[t] = "idle"
  /\ CanEnter
  /\ Target[t] \in connected
  /\ idCounter < MaxId
  /\ messageId' = [messageId EXCEPT ![t] = idCounter]
  /\ idCounter' = idCounter + 1
  /\ msgLock' = IF sharing = "saferef" THEN t ELSE msgLock
  /\ caller' = [caller EXCEPT ![t] = "launched"]
  /\ waiter' = [waiter EXCEPT ![t] = "register"]
  /\ UNCHANGED <<connected, headerId, sharing, callbackVars, peerVars, response, result>>

\* Mutant: the header gets the counter, which is another call's id by now.
HeaderWritten_Counter(t) ==
  [u \in Threads |-> IF u = t \/ sharing # "own" THEN idCounter ELSE headerId[u]]

\* The message cells a write by t is seen in.
HeaderWritten(t) ==
  [u \in Threads |-> IF u = t \/ sharing # "own" THEN messageId[t]
                                                 ELSE headerId[u]]

\* Mutant: the caller does not wait for the registration.
WriteHeader_Unregistered(t) ==
  /\ running
  /\ caller[t] = "launched"
  /\ headerId' = HeaderWritten(t)
  /\ caller' = [caller EXCEPT ![t] = "send"]
  /\ UNCHANGED <<idCounter, connected, waiter, messageId, msgLock, sharing,
                 callbackVars, peerVars, response, result>>

\* Once outerCv says the callback is registered: message.BaseData.id = messageId.
WriteHeader(t) ==
  /\ running
  /\ caller[t] = "launched"
  /\ waiter[t] # "register"
  /\ headerId' = HeaderWritten(t)
  /\ caller' = [caller EXCEPT ![t] = "send"]
  /\ UNCHANGED <<idCounter, connected, waiter, messageId, msgLock, sharing,
                 callbackVars, peerVars, response, result>>

\* The header's id field is a uint32_t.
WireId(t) == headerId[t] % IdModulus

Copies(frame, k) == [i \in 1..k |-> frame]

\* Network::Send serializes the message as it is now, and Socket::Send writes
\* the bytes: once, or again when a write completes after its timeout, uncounted
\* (SocketSend), or when the whole frame is retried (Send).  The send mutex keeps
\* the copies together; none is read differently for being written later.
Send(t) ==
  /\ running
  /\ caller[t] = "send"
  /\ LET frame == [id |-> WireId(t), call |-> messageId[t]] IN
       \E k \in 1..MaxCopies :
         toPeer' = [toPeer EXCEPT ![Target[t]] = @ \o Copies(frame, k)]
  /\ caller' = [caller EXCEPT ![t] = "wait"]
  /\ UNCHANGED <<idCounter, connected, waiter, messageId, headerId, msgLock, sharing,
                 callbackVars, fromPeer, handled, deaf, running, response, result>>

\* wait_for is not ready in time: SendOpWait is about to return 2, but the
\* future it destroys on the way out blocks until the waiter has finished.
TimeOut(t) ==
  /\ running
  /\ caller[t] = "wait"
  /\ t \in Timed
  /\ waiter[t] = "waiting"
  /\ caller' = [caller EXCEPT ![t] = "expired"]
  /\ UNCHANGED <<idCounter, connected, waiter, messageId, headerId, msgLock, sharing,
                 callbackVars, peerVars, response, result>>

\* Mutant: a call that has timed out leaves its waiter behind.
Return_Detached(t) ==
  /\ running
  /\ caller[t] \in {"wait", "expired"}
  /\ caller[t] = "expired" \/ waiter[t] = "done"
  /\ result' = [result EXCEPT ![t] =
                  IF caller[t] = "wait" THEN "status" ELSE "timedOut"]
  /\ caller' = [caller EXCEPT ![t] = "idle"]
  /\ waiter' = [waiter EXCEPT ![t] = "none"]
  /\ msgLock' = IF sharing = "saferef" THEN NoThread ELSE msgLock
  /\ UNCHANGED <<idCounter, connected, messageId, headerId, sharing, callbackVars,
                 peerVars, response>>

\* SendOpWait returns: the waiter's future is ready.
Return(t) ==
  /\ running
  /\ caller[t] \in {"wait", "expired"}
  /\ waiter[t] = "done"
  /\ result' = [result EXCEPT ![t] =
                  IF caller[t] = "wait" THEN "status" ELSE "timedOut"]
  /\ caller' = [caller EXCEPT ![t] = "idle"]
  /\ waiter' = [waiter EXCEPT ![t] = "none"]
  /\ msgLock' = IF sharing = "saferef" THEN NoThread ELSE msgLock
  /\ UNCHANGED <<idCounter, connected, messageId, headerId, sharing, callbackVars,
                 peerVars, response>>

-----------------------------------------------------------------------------
(* The waiter thread.                                                      *)

\* allCallbacks is a map of vectors that no lock protects.  push_back races
\* with the receiver's remove_if and erase on the same vector, with another
\* push_back on it, and with another thread's insertion of a map entry.
Racing(t) ==
  \/ receiver[Target[t]] = "erase"
  \/ \E u \in Threads \ {t} :
       /\ waiter[u] = "register"
       /\ Target[u] = Target[t] \/ ~ {Target[t], Target[u]} \subseteq keys

\* RegisterEvent, and the notification of outerCv.  When erase moves the end of
\* the vector, or push_back its storage, under the other's hands, any of the
\* callbacks may be gone afterwards.
RegisterEvent(t) ==
  /\ running
  /\ waiter[t] = "register"
  /\ LET all == allCallbacks[Target[t]] \cup {messageId[t]} IN
       \E left \in IF Racing(t) /\ "lost" \in RaceOutcomes THEN SUBSET all
                                                           ELSE {all} :
         allCallbacks' = [allCallbacks EXCEPT ![Target[t]] = left]
  /\ keys' = keys \cup {Target[t]}
  /\ waiter' = [waiter EXCEPT ![t] = "waiting"]
  /\ UNCHANGED <<idCounter, connected, caller, messageId, headerId, msgLock, sharing,
                 receiver, fired, peerVars, response, result>>

\* The same race can leave freed storage, or a function that has been moved from
\* or destroyed, for the next loop over the vector to call: the program ends.
RaceCrashes(t) ==
  /\ running
  /\ waiter[t] = "register"
  /\ Racing(t)
  /\ "crash" \in RaceOutcomes
  /\ running' = FALSE
  /\ UNCHANGED <<idCounter, connected, caller, waiter, messageId, headerId,
                 msgLock, sharing, callbackVars, toPeer, fromPeer, handled, deaf,
                 response, result>>

-----------------------------------------------------------------------------
(* The receiver thread of the connection to m.                             *)

\* Mutant: only the oldest callback is tried.
Matches_Oldest(m, msg) ==
  {t \in Threads : /\ Target[t] = m
                   /\ waiter[t] = "waiting"
                   /\ messageId[t] \in allCallbacks[m]
                   /\ \A id \in allCallbacks[m] : messageId[t] \leq id
                   /\ msg.responseTo = messageId[t]}

\* Mutant: any response satisfies a callback.
Matches_Any(m, msg) ==
  {t \in Threads : /\ Target[t] = m
                   /\ waiter[t] = "waiting"
                   /\ messageId[t] \in allCallbacks[m]}

\* The threads whose callback says the response is for them.
Matches(m, msg) ==
  {t \in Threads : /\ Target[t] = m
                   /\ waiter[t] = "waiting"
                   /\ messageId[t] \in allCallbacks[m]
                   /\ msg.responseTo = messageId[t]}

\* PropagateMessage runs the callbacks: a matching one copies the response and
\* wakes its waiter, at once and before it is erased from the vector.
PropagateMessage(m) ==
  /\ running
  /\ receiver[m] = "recv"
  /\ <<"server", m>> \notin deaf
  /\ fromPeer[m] # <<>>
  /\ LET msg == Head(fromPeer[m]) IN
       /\ waiter' = [t \in Threads |-> IF t \in Matches(m, msg) THEN "done"
                                                                ELSE waiter[t]]
       /\ response' = [t \in Threads |-> IF t \in Matches(m, msg) THEN msg.call
                                                                  ELSE response[t]]
       /\ fired' = [fired EXCEPT ![m] = {messageId[t] : t \in Matches(m, msg)}]
  /\ fromPeer' = [fromPeer EXCEPT ![m] = Tail(@)]
  /\ receiver' = [receiver EXCEPT ![m] = "erase"]
  /\ keys' = keys \cup {m}
  /\ UNCHANGED <<idCounter, connected, caller, messageId, headerId, msgLock, sharing,
                 allCallbacks, toPeer, handled, deaf, running, result>>

ErasedTo(m, callbacks) ==
  /\ running
  /\ receiver[m] = "erase"
  /\ allCallbacks' = callbacks
  /\ fired' = [fired EXCEPT ![m] = {}]
  /\ receiver' = [receiver EXCEPT ![m] = "recv"]
  /\ UNCHANGED <<idCounter, connected, caller, waiter, messageId, headerId,
                 msgLock, sharing, keys, peerVars, response, result>>

\* Mutants: a callback never says that it is done; the vector is cleared; the
\* map's entry is erased.
EraseCallbacks_Kept(m) == ErasedTo(m, allCallbacks)
EraseCallbacks_All(m) == ErasedTo(m, [allCallbacks EXCEPT ![m] = {}])
EraseCallbacks_Key(m) == ErasedTo(m, [k \in Machines \ {m} |-> allCallbacks[k]])

\* cb.erase(remove_if(...), cb.end())
EraseCallbacks(m) == ErasedTo(m, [allCallbacks EXCEPT ![m] = @ \ fired[m]])

-----------------------------------------------------------------------------
(* The peer: a handler of DistFunctionClient executes the call and answers  *)
(* with BaseData.responseTo = message.BaseData.id, in the order it reads.   *)

\* The answer is written like the request, once or more.
PeerAnswer(m) ==
  /\ running
  /\ toPeer[m] # <<>>
  /\ <<"peer", m>> \notin deaf
  /\ LET msg == Head(toPeer[m])
         answer == [responseTo |-> msg.id, call |-> msg.call]
     IN
       /\ handled' = handled \cup {msg.call}
       /\ \E k \in 1..MaxCopies :
            fromPeer' = [fromPeer EXCEPT ![m] = @ \o Copies(answer, k)]
  /\ toPeer' = [toPeer EXCEPT ![m] = Tail(@)]
  /\ UNCHANGED <<idCounter, connected, caller, waiter, messageId, headerId,
                 msgLock, sharing, callbackVars, deaf, running, response, result>>

-----------------------------------------------------------------------------
(* The connection.                                                         *)

\* A read that outlasts its 5 seconds completes uncounted, or a late write puts
\* a part of a frame in front of the frame: from then on the reader takes other
\* bytes for lengths, waits for gigabytes, and never comes back to a frame.
LoseStep(e) ==
  /\ running
  /\ LateReads
  /\ e[2] \in connected
  /\ e \notin deaf
  /\ deaf' = deaf \cup {e}
  /\ UNCHANGED <<idCounter, connected, caller, waiter, messageId, headerId,
                 msgLock, sharing, callbackVars, toPeer, fromPeer, handled, running,
                 response, result>>

-----------------------------------------------------------------------------
Caller(t) == Refused(t) \/ Begin(t) \/ WriteHeader(t) \/ Send(t)
               \/ TimeOut(t) \/ Return(t)
Receiver(m) == PropagateMessage(m) \/ EraseCallbacks(m)

Next ==
  \/ \E t \in Threads : Caller(t) \/ RegisterEvent(t) \/ RaceCrashes(t)
  \/ \E m \in Machines : Connect(m) \/ Receiver(m) \/ PeerAnswer(m)
  \/ \E e \in Ends : LoseStep(e)

Spec == Init /\ [][Next]_vars

\* The threads of the server are scheduled: a step a thread can take inside a
\* call is taken, as long as the program runs.  Nothing forces a thread to start
\* a call.
ProgramFairness ==
  /\ \A t \in Threads :
       /\ WF_vars(WriteHeader(t) \/ Send(t) \/ Return(t))
       /\ WF_vars(RegisterEvent(t) \/ RaceCrashes(t))
  /\ \A m \in Machines : WF_vars(Receiver(m))

\* Peers that go on reading and answering.
PeerFairness == \A m \in Machines : WF_vars(PeerAnswer(m))

FairSpec == Spec /\ ProgramFairness /\ PeerFairness

-----------------------------------------------------------------------------
(* Properties.                                                             *)

InCall(t) == caller[t] # "idle"

CallsIn(stream) == {stream[i].call : i \in DOMAIN stream}

\* A caller is woken only by the peer's answer to its own call
\* (`if (recieved.BaseData.responseTo == messageId)`).
AnswerIntegrity ==
  \A t \in Threads : waiter[t] = "done" => response[t] = messageId[t]

\* base.hpp:49-51: a response carries the id of the message it answers, as the
\* caller drew it; a response that names another id reaches the wrong caller or
\* nobody.
ResponseNamesRequest ==
  \A m \in Machines : \A i \in DOMAIN fromPeer[m] :
    fromPeer[m][i].responseTo = fromPeer[m][i].call

HasCallback(t) == messageId[t] \in allCallbacks[Target[t]]

\* network.hpp:48-49: "Return true from the callback if it should be deleted or
\* false if it should remain".  A waiter loses its callback to the race of an
\* unlocked registration and to nothing else: the erasure takes callbacks that
\* have returned true, and with them no callback registered since.
OnlyRacesLoseCallbacks ==
  [][\A t \in Threads :
       HasCallback(t) /\ (waiter[t] = "waiting" /\ ~ HasCallback(t))' =>
         \E u \in Threads : RegisterEvent(u) /\ Racing(u)]_vars

\* SafeRef: while a call is open on the shared message no other thread is
\* between its own lock and return, and the header keeps the caller's id.
SharedMessageIsStable ==
  \A t \in Threads :
    /\ InCall(t) /\ sharing = "saferef" => msgLock = t
    /\ caller[t] = "send" => headerId[t] = messageId[t]

\* No wakeup is lost: as long as a waiter has its callback, its request or an
\* answer to it is still to be read; no answer came before the registration, and
\* none passed it by, whatever races, times out or is written twice.
RegisteredCallIsInFlight ==
  \A t \in Threads :
    /\ caller[t] \in {"wait", "expired"}
    /\ waiter[t] = "waiting"
    /\ HasCallback(t)
    => messageId[t] \in CallsIn(toPeer[Target[t]]) \cup CallsIn(fromPeer[Target[t]])

\* No callback outlives its call: what stays in allCallbacks belongs to a waiter
\* or is about to be erased (the callback refers to the waiter's stack).
NoDanglingCallback ==
  \A m \in Machines : \A id \in allCallbacks[m] :
    \/ id \in fired[m]
    \/ \E t \in Threads : waiter[t] = "waiting" /\ messageId[t] = id

\* A call whose callback is in the vector returns when the peer answers, unless
\* the callback is lost to a race, the program ends in one, or a direction of the
\* connection loses its step.
RegisteredCallReturns ==
  \A t \in Threads :
    (waiter[t] = "waiting" /\ HasCallback(t))
      ~> \/ ~ InCall(t)
         \/ waiter[t] = "waiting" /\ ~ HasCallback(t)
         \/ ~ running
         \/ <<"server", Target[t]>> \in deaf \/ <<"peer", Target[t]>> \in deaf

\* remote_client.hpp:50: "If `timeout` is > 0, the function will time out after
\* that many seconds".
TimedCallReturns == \A t \in Timed : caller[t] = "expired" ~> ~ InCall(t)

\* The contract of SendOpWait (RemoteCall.tla).
Contract == INSTANCE RemoteCall
  WITH Callers <- Threads, next <- idCounter, number <- messageId,
       pending <- [t \in Threads |-> InCall(t)],
       served <- handled, outcome <- result

ImplementsRemoteCall == Contract!Spec
=============================================================================
