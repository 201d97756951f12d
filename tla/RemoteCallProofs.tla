-------------------------- MODULE RemoteCallProofs --------------------------
(***************************************************************************)
(* Theorems about the calls of Network.tla: no callback outlives its call,  *)
(* only the unlocked registration takes a waiter's callback, a call that    *)
(* has its callback is on its way, and SendOpWait keeps the contract of     *)
(* RemoteCall.tla.  They hold with every outcome of the race, frames that   *)
(* are written twice and connections that lose their step.                  *)
(*                                                                         *)
(* The first two need no assumption, the others those of NetworkProofs.     *)
(***************************************************************************)
EXTENDS NetworkProofs

-----------------------------------------------------------------------------
(* The inductive invariants.                                               *)

\* What is in allCallbacks is about to be erased, or belongs to a waiter that
\* calls this peer.
CallbacksOwned ==
  \A m \in Machines : \A id \in allCallbacks[m] :
    \/ id \in fired[m]
    \/ \E t \in Threads : /\ Target[t] = m
                          /\ waiter[t] = "waiting"
                          /\ messageId[t] = id

\* Fired callbacks are only left over while the receiver is erasing them.
FiredWhileErasing == \A m \in Machines : receiver[m] = "recv" => fired[m] = {}

\* Ids of calls, of their requests and of their executions have been drawn.
IdsDrawn ==
  /\ \A t \in Threads : messageId[t] < idCounter
  /\ \A id \in handled : id < idCounter
  /\ \A m \in Machines : \A id \in CallsIn(toPeer[m]) : id < idCounter

\* No two open calls have the same id.
CallsDistinct ==
  \A t, u \in Threads : InCall(t) /\ InCall(u) /\ messageId[t] = messageId[u] => t = u

\* The caller has not sent its request.
Unsent(t) == caller[t] \in {"launched", "send"}

\* A request that has not been sent is in no stream, and nobody has executed it.
UnsentIsNowhere ==
  \A t \in Threads : Unsent(t) =>
    /\ messageId[t] \notin handled
    /\ \A m \in Machines : messageId[t] \notin CallsIn(toPeer[m])

CallInv ==
  /\ IdsDrawn
  /\ CallsDistinct
  /\ UnsentIsNowhere

\* An answer on its way is the answer to an executed call, and so is the one
\* that a woken waiter holds.
AnswersWereHandled ==
  /\ \A m \in Machines : \A id \in CallsIn(fromPeer[m]) : id \in handled
  /\ \A t \in Threads : waiter[t] = "done" => messageId[t] \in handled

\* A request in a stream that has not been executed belongs to a caller that
\* waits for this peer; one that has may be a copy that nobody waits for.
RequestsAreAwaited ==
  \A m \in Machines : \A id \in CallsIn(toPeer[m]) \ handled :
    \E t \in Threads : /\ Target[t] = m
                       /\ messageId[t] = id
                       /\ caller[t] \in {"wait", "expired"}
                       /\ waiter[t] = "waiting"

\* A request is sent after its callback was registered; only a caller with a
\* timeout gives up.
RegisteredFirst ==
  \A t \in Threads :
    /\ caller[t] \in {"send", "wait", "expired"} => waiter[t] # "register"
    /\ caller[t] = "expired" => t \in Timed

RefinementInv == AnswersWereHandled /\ RequestsAreAwaited /\ RegisteredFirst

\* The callbacks being erased are of other calls than those that still wait.
FiredAreOld ==
  \A m \in Machines : \A id \in fired[m] :
    /\ id < idCounter
    /\ \A t \in Threads : waiter[t] \in {"register", "waiting"} => messageId[t] # id

-----------------------------------------------------------------------------
(* The calls named in a stream.                                            *)

LEMMA CallsInNat ==
  ASSUME NEW s \in Seq(Request) \cup Seq(Response)
  PROVE  CallsIn(s) \subseteq Nat
<1>1. \A i \in DOMAIN s : s[i] \in Request \cup Response
  OBVIOUS
<1> QED BY <1>1 DEF CallsIn, Request, Response

LEMMA CallsInCopies ==
  ASSUME NEW S, NEW s \in Seq(S), NEW e \in S, NEW k \in 1..MaxCopies
  PROVE  CallsIn(s \o Copies(e, k)) = CallsIn(s) \cup {e.call}
<1> DEFINE c == Copies(e, k)
           r == s \o c
<1>1. k \in Nat /\ k # 0
  BY SocketAssumption
<1>2. c \in Seq(S) /\ Len(c) = k /\ \A i \in 1..k : c[i] = e
  BY <1>1 DEF Copies
<1> HIDE DEF c
<1>3. /\ DOMAIN r = 1..(Len(s) + k)
      /\ \A i \in DOMAIN r : r[i] = IF i \leq Len(s) THEN s[i] ELSE c[i - Len(s)]
      /\ DOMAIN s = 1..Len(s) /\ Len(s) \in Nat
  BY <1>1, <1>2
<1> HIDE DEF r
<1>4. \A i \in DOMAIN r : r[i] = e \/ (i \in DOMAIN s /\ r[i] = s[i])
  BY <1>1, <1>2, <1>3
<1>5. \A i \in DOMAIN s : i \in DOMAIN r /\ r[i] = s[i]
  BY <1>1, <1>3
<1>6. Len(s) + 1 \in DOMAIN r /\ r[Len(s) + 1] = e
  BY <1>1, <1>2, <1>3
<1>7. CallsIn(r) = CallsIn(s) \cup {e.call}
  BY <1>4, <1>5, <1>6 DEF CallsIn
<1> QED BY <1>7 DEF r, c

LEMMA CallsInTail ==
  ASSUME NEW S, NEW s \in Seq(S), s # <<>>
  PROVE  CallsIn(s) = {Head(s).call} \cup CallsIn(Tail(s))
<1>1. \A i \in DOMAIN Tail(s) : i + 1 \in DOMAIN s /\ Tail(s)[i] = s[i + 1]
  OBVIOUS
<1>2. 1 \in DOMAIN s /\ Head(s) = s[1]
  OBVIOUS
<1>3. \A i \in DOMAIN s : i = 1 \/ (i - 1 \in DOMAIN Tail(s) /\ Tail(s)[i - 1] = s[i])
  OBVIOUS
<1>4. CallsIn(Tail(s)) \subseteq CallsIn(s) /\ Head(s).call \in CallsIn(s)
  BY <1>1, <1>2 DEF CallsIn
<1>5. CallsIn(s) \subseteq {Head(s).call} \cup CallsIn(Tail(s))
  <2> SUFFICES ASSUME NEW i \in DOMAIN s
               PROVE  s[i].call \in {Head(s).call} \cup CallsIn(Tail(s))
    BY DEF CallsIn
  <2>1. CASE i = 1
    BY <1>2, <2>1
  <2>2. CASE i # 1
    <3>1. i - 1 \in DOMAIN Tail(s) /\ Tail(s)[i - 1] = s[i]
      BY <1>3, <2>2
    <3> QED BY <3>1 DEF CallsIn
  <2> QED BY <2>1, <2>2
<1> QED BY <1>4, <1>5

-----------------------------------------------------------------------------
(* No callback outlives its call.                                          *)

\* A waiter thread exists exactly while its caller is in a call; needs no
\* assumption.
LEMMA WaiterInvariant == Spec => []WaiterFollowsCaller
<1>1. Init => WaiterFollowsCaller
  BY DEF Init, WaiterFollowsCaller
<1>2. TypeOK /\ WaiterFollowsCaller /\ [Next]_vars => WaiterFollowsCaller'
  <2> SUFFICES ASSUME TypeOK, WaiterFollowsCaller, [Next]_vars
               PROVE  WaiterFollowsCaller'
    OBVIOUS
  <2> USE DEF TypeOK, WaiterFollowsCaller
  <2>1. ASSUME NEW t \in Threads, Caller(t) PROVE WaiterFollowsCaller'
    <3>1. CASE Refused(t) \/ Begin(t) \/ Return(t)
      BY <3>1, ZenonT(60) DEF Refused, Begin, Return
    <3>2. CASE WriteHeader(t) \/ Send(t) \/ TimeOut(t)
      BY <3>2 DEF WriteHeader, Send, TimeOut
    <3> QED BY <2>1, <3>1, <3>2 DEF Caller
  <2>2. ASSUME NEW t \in Threads, RegisterEvent(t) PROVE WaiterFollowsCaller'
    BY <2>2 DEF RegisterEvent
  <2>3. ASSUME NEW m \in Machines, PropagateMessage(m) PROVE WaiterFollowsCaller'
    BY <2>3 DEF PropagateMessage, Matches
  <2>4. ASSUME NEW m \in Machines, Connect(m) \/ EraseCallbacks(m) \/ PeerAnswer(m)
        PROVE  WaiterFollowsCaller'
    BY <2>4 DEF Connect, EraseCallbacks, ErasedTo, PeerAnswer
  <2>5. ASSUME NEW t \in Threads, RaceCrashes(t) PROVE WaiterFollowsCaller'
    BY <2>5 DEF RaceCrashes
  <2>6. ASSUME NEW e \in Ends, LoseStep(e) PROVE WaiterFollowsCaller'
    BY <2>6 DEF LoseStep
  <2>7. CASE UNCHANGED vars
    BY <2>7 DEF vars
  <2> QED BY <2>1, <2>2, <2>3, <2>4, <2>5, <2>6, <2>7 DEF Next, Receiver
<1> QED BY <1>1, <1>2, TypeCorrect, PTL DEF Spec

\* No callback stays behind when its waiter is gone, on which its references to
\* the waiter's stack depend: whatever is in allCallbacks either belongs to a
\* waiter or has returned true and is about to be erased.  Holds whatever the
\* race loses, and for shared messages and wrapped ids.
THEOREM NoCallbackOutlivesItsCall == Spec => []NoDanglingCallback
<1> DEFINE Inv == CallbacksOwned /\ FiredWhileErasing
<1>1. Init => Inv
  BY DEF Init, CallbacksOwned, FiredWhileErasing
<1>2. TypeOK /\ WaiterFollowsCaller /\ Inv /\ [Next]_vars => Inv'
  <2> SUFFICES ASSUME TypeOK, WaiterFollowsCaller, Inv, [Next]_vars PROVE Inv'
    OBVIOUS
  <2> USE TargetAssumption DEF TypeOK
  <2>1. ASSUME NEW t \in Threads, Refused(t) PROVE Inv'
    BY <2>1 DEF Refused, callbackVars, CallbacksOwned, FiredWhileErasing
  <2>2. ASSUME NEW t \in Threads, Begin(t) PROVE Inv'
    \* t had no waiter: no callback is its own.
    BY <2>2 DEF Begin, callbackVars, CallbacksOwned, FiredWhileErasing, WaiterFollowsCaller
  <2>3. ASSUME NEW t \in Threads, WriteHeader(t) PROVE Inv'
    BY <2>3 DEF WriteHeader, callbackVars, CallbacksOwned, FiredWhileErasing
  <2>4. ASSUME NEW t \in Threads, Send(t) PROVE Inv'
    BY <2>4 DEF Send, callbackVars, CallbacksOwned, FiredWhileErasing
  <2>5. ASSUME NEW t \in Threads, TimeOut(t) PROVE Inv'
    BY <2>5 DEF TimeOut, callbackVars, CallbacksOwned, FiredWhileErasing
  <2>6. ASSUME NEW t \in Threads, Return(t) PROVE Inv'
    \* Its waiter is done and not waiting.
    BY <2>6 DEF Return, callbackVars, CallbacksOwned, FiredWhileErasing
  <2>7. ASSUME NEW t \in Threads, RegisterEvent(t) PROVE Inv'
    <3>1. FiredWhileErasing'
      BY <2>7 DEF RegisterEvent, FiredWhileErasing
    <3>2. \A m \in Machines : \A id \in allCallbacks'[m] :
            id \in allCallbacks[m] \/ (m = Target[t] /\ id = messageId[t])
      <4>1. PICK left \in SUBSET (allCallbacks[Target[t]] \cup {messageId[t]}) :
              allCallbacks' = [allCallbacks EXCEPT ![Target[t]] = left]
        BY <2>7, RegistrationLeaves
      <4>2. \A m \in Machines : allCallbacks'[m] = IF m = Target[t] THEN left
                                                                  ELSE allCallbacks[m]
        BY <4>1
      <4> QED BY <4>2, Zenon
    <3>3. CallbacksOwned'
      BY <2>7, <3>2 DEF RegisterEvent, CallbacksOwned
    <3> QED BY <3>1, <3>3
  <2>8. ASSUME NEW m \in Machines, Connect(m) PROVE Inv'
    BY <2>8 DEF Connect, callbackVars, CallbacksOwned, FiredWhileErasing
  <2>9. ASSUME NEW m \in Machines, PropagateMessage(m) PROVE Inv'
    <3> DEFINE Woken == Matches(m, Head(fromPeer[m]))
    <3>1. FiredWhileErasing'
      BY <2>9 DEF PropagateMessage, FiredWhileErasing
    <3>2. /\ fired' = [fired EXCEPT ![m] = {messageId[t] : t \in Woken}]
          /\ \A t \in Threads : waiter'[t] = IF t \in Woken THEN "done" ELSE waiter[t]
          /\ UNCHANGED <<allCallbacks, messageId>>
          /\ fired[m] = {}
      BY <2>9 DEF PropagateMessage, FiredWhileErasing
    <3>3. \A t \in Woken : Target[t] = m
      BY DEF Matches
    <3>4. CallbacksOwned'
      <4> SUFFICES ASSUME NEW k \in Machines, NEW id \in allCallbacks[k], id \notin fired'[k]
                   PROVE  \E t \in Threads : /\ Target[t] = k
                                             /\ waiter'[t] = "waiting"
                                             /\ messageId[t] = id
        BY <3>2 DEF CallbacksOwned
      <4>1. id \notin fired[k]
        BY <3>2
      <4>2. PICK t \in Threads : Target[t] = k /\ waiter[t] = "waiting" /\ messageId[t] = id
        BY <4>1 DEF CallbacksOwned
      \* The callback that was run for id would be among the fired ones.
      <4>3. t \notin Woken
        BY <3>2, <3>3, <4>2
      <4> QED BY <3>2, <4>2, <4>3
    <3> QED BY <3>1, <3>4
  <2>10. ASSUME NEW m \in Machines, EraseCallbacks(m) PROVE Inv'
    BY <2>10 DEF EraseCallbacks, ErasedTo, CallbacksOwned, FiredWhileErasing
  <2>11. ASSUME NEW m \in Machines, PeerAnswer(m) PROVE Inv'
    BY <2>11 DEF PeerAnswer, callbackVars, CallbacksOwned, FiredWhileErasing
  <2>12. ASSUME NEW t \in Threads, RaceCrashes(t) PROVE Inv'
    BY <2>12 DEF RaceCrashes, callbackVars, CallbacksOwned, FiredWhileErasing
  <2>13. ASSUME NEW e \in Ends, LoseStep(e) PROVE Inv'
    BY <2>13 DEF LoseStep, callbackVars, CallbacksOwned, FiredWhileErasing
  <2>14. CASE UNCHANGED vars
    BY <2>14 DEF vars, CallbacksOwned, FiredWhileErasing
  <2> QED
    BY <2>1, <2>2, <2>3, <2>4, <2>5, <2>6, <2>7, <2>8, <2>9, <2>10, <2>11, <2>12, <2>13, <2>14
       DEF Next, Caller, Receiver
<1>3. Inv => NoDanglingCallback
  BY DEF CallbacksOwned, NoDanglingCallback
<1> HIDE DEF Inv
<1> QED BY <1>1, <1>2, <1>3, TypeCorrect, WaiterInvariant, PTL DEF Spec

-----------------------------------------------------------------------------
(* Ids of calls.                                                           *)

\* The steps that neither draw an id, nor send, nor execute a request.
Quiet ==
  /\ UNCHANGED <<idCounter, messageId, toPeer, handled>>
  /\ \A t \in Threads : /\ InCall(t)' => InCall(t)
                        /\ Unsent(t)' => Unsent(t)

LEMMA QuietKeepsCalls ==
  ASSUME CallInv, Quiet
  PROVE  CallInv'
<1> USE DEF Quiet
<1>1. IdsDrawn'
  BY DEF CallInv, IdsDrawn
<1>2. CallsDistinct'
  BY DEF CallInv, CallsDistinct
<1>3. UnsentIsNowhere'
  BY DEF CallInv, UnsentIsNowhere
<1> QED BY <1>1, <1>2, <1>3 DEF CallInv

\* Ids are drawn once, and nobody reads or executes a request before it is sent;
\* needs no assumption.
LEMMA CallInvariant == Spec => []CallInv
<1>1. Init => CallInv
  BY DEF Init, CallInv, IdsDrawn, CallsDistinct, UnsentIsNowhere, CallsIn, InCall, Unsent
<1>2. TypeOK /\ CallInv /\ [Next]_vars => CallInv'
  <2> SUFFICES ASSUME TypeOK, CallInv, [Next]_vars PROVE CallInv'
    OBVIOUS
  <2> USE TargetAssumption DEF TypeOK
  \* The new id is the counter, which no request or execution has.
  <2>1. ASSUME NEW t \in Threads, Begin(t) PROVE CallInv'
    <3>1. /\ idCounter' = idCounter + 1
          /\ messageId' = [messageId EXCEPT ![t] = idCounter]
          /\ caller' = [caller EXCEPT ![t] = "launched"]
          /\ UNCHANGED <<toPeer, handled>>
      BY <2>1 DEF Begin, peerVars
    <3>2. \A m \in Machines : CallsIn(toPeer[m]) \subseteq Nat
      BY CallsInNat
    <3>3. IdsDrawn'
      BY <3>1, <3>2 DEF CallInv, IdsDrawn
    <3>4. CallsDistinct'
      BY <3>1, SMTT(60) DEF CallInv, IdsDrawn, CallsDistinct, InCall
    <3>5. UnsentIsNowhere'
      BY <3>1, <3>2, SMTT(60) DEF CallInv, IdsDrawn, UnsentIsNowhere, Unsent
    <3> QED BY <3>3, <3>4, <3>5 DEF CallInv
  <2>2. ASSUME NEW t \in Threads, Send(t) PROVE CallInv'
    <3> DEFINE req == [id |-> WireId(t), call |-> messageId[t]]
               m == Target[t]
    <3>1. req \in Request /\ req.call = messageId[t] /\ m \in Machines
      BY WireIdType DEF WireId, Request
    <3>2. /\ caller[t] = "send"
          /\ caller' = [caller EXCEPT ![t] = "wait"]
          /\ \E k \in 1..MaxCopies : toPeer' = [toPeer EXCEPT ![m] = @ \o Copies(req, k)]
          /\ UNCHANGED <<idCounter, messageId, handled>>
      BY <2>2 DEF Send
    <3> HIDE DEF req, m
    <3>3. /\ CallsIn(toPeer'[m]) = CallsIn(toPeer[m]) \cup {messageId[t]}
          /\ \A k \in Machines \ {m} : toPeer'[k] = toPeer[k]
      BY <3>1, <3>2, CallsInCopies
    <3>4. /\ messageId[t] \notin handled
          /\ \A k \in Machines : messageId[t] \notin CallsIn(toPeer[k])
      BY <3>2 DEF CallInv, UnsentIsNowhere, Unsent
    <3>5. IdsDrawn'
      BY <3>2, <3>3 DEF CallInv, IdsDrawn
    <3>6. CallsDistinct'
      BY <3>2 DEF CallInv, CallsDistinct, InCall
    <3>7. UnsentIsNowhere'
      <4> SUFFICES ASSUME NEW u \in Threads, Unsent(u)'
                   PROVE  /\ messageId[u] \notin handled
                          /\ \A k \in Machines : messageId[u] \notin CallsIn(toPeer'[k])
        BY <3>2 DEF UnsentIsNowhere
      <4>1. u # t /\ Unsent(u)
        BY <3>2 DEF Unsent
      <4>2. messageId[u] # messageId[t]
        BY <3>2, <4>1 DEF CallInv, CallsDistinct, Unsent, InCall
      <4>3. /\ messageId[u] \notin handled
            /\ \A k \in Machines : messageId[u] \notin CallsIn(toPeer[k])
        BY <4>1 DEF CallInv, UnsentIsNowhere
      <4> QED BY <3>3, <4>2, <4>3
    <3> QED BY <3>5, <3>6, <3>7 DEF CallInv
  <2>3. ASSUME NEW m \in Machines, PeerAnswer(m) PROVE CallInv'
    <3> DEFINE id == Head(toPeer[m]).call
    <3>1. /\ handled' = handled \cup {id}
          /\ toPeer' = [toPeer EXCEPT ![m] = Tail(@)]
          /\ UNCHANGED <<idCounter, messageId, caller>>
          /\ toPeer[m] # <<>>
      BY <2>3 DEF PeerAnswer
    <3>2. CallsIn(toPeer[m]) = {id} \cup CallsIn(toPeer'[m])
      BY <3>1, CallsInTail
    <3> HIDE DEF id
    <3>3. \A k \in Machines \ {m} : toPeer'[k] = toPeer[k]
      BY <3>1
    <3>4. IdsDrawn'
      BY <3>1, <3>2, <3>3 DEF CallInv, IdsDrawn
    <3>5. CallsDistinct'
      BY <3>1 DEF CallInv, CallsDistinct, InCall
    <3>6. UnsentIsNowhere'
      BY <3>1, <3>2, <3>3 DEF CallInv, UnsentIsNowhere, Unsent
    <3> QED BY <3>4, <3>5, <3>6 DEF CallInv
  <2>4. ASSUME NEW t \in Threads, Refused(t) \/ WriteHeader(t) \/ TimeOut(t)
                                   \/ Return(t) \/ RegisterEvent(t) \/ RaceCrashes(t)
        PROVE  CallInv'
    <3>1. Quiet
      BY <2>4 DEF Quiet, InCall, Unsent, Refused, WriteHeader, TimeOut, Return,
                  RegisterEvent, RaceCrashes, peerVars
    <3> QED BY <3>1, QuietKeepsCalls
  <2>5. ASSUME NEW m \in Machines, Connect(m) \/ Receiver(m)
        PROVE  CallInv'
    <3>1. Quiet
      BY <2>5 DEF Quiet, InCall, Unsent, Connect, Receiver, PropagateMessage,
                  EraseCallbacks, ErasedTo, peerVars
    <3> QED BY <3>1, QuietKeepsCalls
  <2>6. ASSUME NEW e \in Ends, LoseStep(e) PROVE CallInv'
    <3>1. Quiet
      BY <2>6 DEF Quiet, InCall, Unsent, LoseStep
    <3> QED BY <3>1, QuietKeepsCalls
  <2>7. CASE UNCHANGED vars
    <3>1. Quiet
      BY <2>7 DEF Quiet, InCall, Unsent, vars
    <3> QED BY <3>1, QuietKeepsCalls
  <2> QED BY <2>1, <2>2, <2>3, <2>4, <2>5, <2>6, <2>7 DEF Next, Caller
<1> QED BY <1>1, <1>2, TypeCorrect, PTL DEF Spec

-----------------------------------------------------------------------------
(* SendOpWait keeps its contract.                                          *)

\* Steps that touch neither streams nor executions, and leave the callers that
\* wait where they are.
Still ==
  /\ UNCHANGED <<toPeer, fromPeer, handled>>
  /\ \A t \in Threads : caller[t] \in {"wait", "expired"} /\ waiter[t] = "waiting"
        => /\ caller'[t] \in {"wait", "expired"} /\ waiter'[t] = "waiting"
           /\ messageId'[t] = messageId[t]
  /\ \A t \in Threads : waiter'[t] = "done"
        => waiter[t] = "done" /\ messageId'[t] = messageId[t]

LEMMA StillKeepsAnswers ==
  ASSUME RefinementInv, Still
  PROVE  AnswersWereHandled' /\ RequestsAreAwaited'
<1> USE DEF RefinementInv, Still
<1>1. AnswersWereHandled'
  BY DEF AnswersWereHandled
<1>2. RequestsAreAwaited'
  BY DEF RequestsAreAwaited
<1> QED BY <1>1, <1>2

\* What the calls of Network.tla do between their send and their return.
LEMMA RefinementInvariant ==
  ASSUME "shared" \notin Sharings, IdsFit
  PROVE  Spec => []RefinementInv
<1>1. Init => RefinementInv
  BY DEF Init, RefinementInv, AnswersWereHandled, RequestsAreAwaited, RegisteredFirst, CallsIn
<1>2. IInv /\ CallInv /\ RefinementInv /\ [Next]_vars => RefinementInv'
  <2> SUFFICES ASSUME IInv, CallInv, RefinementInv, [Next]_vars PROVE RefinementInv'
    OBVIOUS
  <2>0. TypeOK
    BY DEF IInv
  <2> USE TargetAssumption, <2>0 DEF TypeOK
  <2>1. ASSUME NEW t \in Threads, Refused(t) \/ Begin(t) \/ WriteHeader(t) \/ TimeOut(t)
        PROVE  RefinementInv'
    <3>1. Still
      BY <2>1 DEF Still, Refused, Begin, WriteHeader, TimeOut, peerVars
    <3>2. RegisteredFirst'
      BY <2>1, ZenonT(60) DEF RefinementInv, RegisteredFirst, Refused, Begin, WriteHeader, TimeOut
    <3> QED BY <3>1, <3>2, StillKeepsAnswers DEF RefinementInv
  <2>2. ASSUME NEW t \in Threads, Return(t) PROVE RefinementInv'
    <3>1. Still
      BY <2>2 DEF Still, Return, peerVars
    <3>2. RegisteredFirst'
      BY <2>2 DEF RefinementInv, RegisteredFirst, Return
    <3> QED BY <3>1, <3>2, StillKeepsAnswers DEF RefinementInv
  <2>3. ASSUME NEW t \in Threads, RegisterEvent(t) PROVE RefinementInv'
    <3>1. Still
      BY <2>3 DEF Still, RegisterEvent, peerVars
    <3>2. RegisteredFirst'
      BY <2>3 DEF RefinementInv, RegisteredFirst, RegisterEvent
    <3> QED BY <3>1, <3>2, StillKeepsAnswers DEF RefinementInv
  \* The request gets the caller as its owner.
  <2>4. ASSUME NEW t \in Threads, Send(t) PROVE RefinementInv'
    <3> DEFINE req == [id |-> WireId(t), call |-> messageId[t]]
               m == Target[t]
    <3>1. req \in Request /\ req.call = messageId[t] /\ m \in Machines
      BY WireIdType DEF WireId, Request
    <3>2. /\ caller[t] = "send"
          /\ caller' = [caller EXCEPT ![t] = "wait"]
          /\ \E k \in 1..MaxCopies : toPeer' = [toPeer EXCEPT ![m] = @ \o Copies(req, k)]
          /\ UNCHANGED <<waiter, messageId, fromPeer, handled>>
      BY <2>4 DEF Send
    <3> HIDE DEF req
    <3>3. /\ CallsIn(toPeer'[m]) = CallsIn(toPeer[m]) \cup {messageId[t]}
          /\ \A k \in Machines \ {m} : toPeer'[k] = toPeer[k]
      BY <3>1, <3>2, CallsInCopies
    <3>4. waiter[t] \notin {"none", "register", "done"}
      BY <3>2 DEF IInv, WaiterFollowsCaller, RefinementInv, RegisteredFirst,
                  AnswersWereHandled, CallInv, UnsentIsNowhere, Unsent
    <3>5. waiter[t] = "waiting"
      BY <3>4
    <3>6. AnswersWereHandled'
      BY <3>2 DEF RefinementInv, AnswersWereHandled
    <3>7. RequestsAreAwaited'
      <4> SUFFICES ASSUME NEW k \in Machines, NEW id \in CallsIn(toPeer'[k]) \ handled
                   PROVE  \E u \in Threads : /\ Target[u] = k
                                             /\ messageId'[u] = id
                                             /\ caller'[u] \in {"wait", "expired"}
                                             /\ waiter'[u] = "waiting"
        BY <3>2 DEF RequestsAreAwaited
      <4>1. CASE id \in CallsIn(toPeer[k])
        BY <3>2, <4>1 DEF RefinementInv, RequestsAreAwaited
      <4>2. CASE k = m /\ id = messageId[t]
        BY <3>2, <3>5, <4>2
      <4> QED BY <3>3, <4>1, <4>2
    <3>8. RegisteredFirst'
      BY <3>2, <3>5 DEF RefinementInv, RegisteredFirst
    <3> QED BY <3>6, <3>7, <3>8 DEF RefinementInv
  <2>5. ASSUME NEW m \in Machines, Connect(m) PROVE RefinementInv'
    <3>1. Still
      BY <2>5 DEF Still, Connect, peerVars
    <3>2. RegisteredFirst'
      BY <2>5 DEF RefinementInv, RegisteredFirst, Connect
    <3> QED BY <3>1, <3>2, StillKeepsAnswers DEF RefinementInv
  \* The answer names its own call, which has been executed, so the waiters of
  \* requests still in a stream sleep on.
  <2>6. ASSUME NEW m \in Machines, PropagateMessage(m) PROVE RefinementInv'
    <3> DEFINE msg == Head(fromPeer[m])
               Woken == Matches(m, msg)
    <3>1. fromPeer[m] # <<>> /\ fromPeer[m] \in Seq(OwnResponse)
      BY <2>6 DEF PropagateMessage, IInv, StreamsNameCalls
    <3>2. msg.responseTo = msg.call
      BY <3>1 DEF OwnResponse
    <3>3. CallsIn(fromPeer[m]) = {msg.call} \cup CallsIn(Tail(fromPeer[m]))
      BY <3>1, CallsInTail
    <3>4. \A t \in Woken : messageId[t] \in handled
      BY <3>2, <3>3 DEF Matches, RefinementInv, AnswersWereHandled
    <3>5. /\ waiter' = [t \in Threads |-> IF t \in Woken THEN "done" ELSE waiter[t]]
          /\ fromPeer' = [fromPeer EXCEPT ![m] = Tail(@)]
          /\ UNCHANGED <<caller, messageId, toPeer, handled>>
      BY <2>6 DEF PropagateMessage
    <3> HIDE DEF msg, Woken
    <3>6. AnswersWereHandled'
      BY <3>3, <3>4, <3>5 DEF RefinementInv, AnswersWereHandled
    <3>7. RequestsAreAwaited'
      <4> SUFFICES ASSUME NEW k \in Machines, NEW id \in CallsIn(toPeer[k]) \ handled
                   PROVE  \E t \in Threads : /\ Target[t] = k
                                             /\ messageId[t] = id
                                             /\ caller[t] \in {"wait", "expired"}
                                             /\ waiter'[t] = "waiting"
        BY <3>5 DEF RequestsAreAwaited
      <4>1. PICK t \in Threads : /\ Target[t] = k
                                 /\ messageId[t] = id
                                 /\ caller[t] \in {"wait", "expired"}
                                 /\ waiter[t] = "waiting"
        BY DEF RefinementInv, RequestsAreAwaited
      <4>2. t \notin Woken
        BY <3>4, <4>1
      <4> QED BY <3>5, <4>1, <4>2
    <3>8. RegisteredFirst'
      BY <3>5 DEF RefinementInv, RegisteredFirst
    <3> QED BY <3>6, <3>7, <3>8 DEF RefinementInv
  <2>7. ASSUME NEW m \in Machines, EraseCallbacks(m) PROVE RefinementInv'
    <3>1. Still
      BY <2>7 DEF Still, EraseCallbacks, ErasedTo, peerVars
    <3>2. RegisteredFirst'
      BY <2>7 DEF RefinementInv, RegisteredFirst, EraseCallbacks, ErasedTo
    <3> QED BY <3>1, <3>2, StillKeepsAnswers DEF RefinementInv
  <2>8. ASSUME NEW m \in Machines, PeerAnswer(m) PROVE RefinementInv'
    <3> DEFINE id == Head(toPeer[m]).call
               msg == [responseTo |-> Head(toPeer[m]).id, call |-> id]
    <3>1. /\ toPeer[m] # <<>>
          /\ handled' = handled \cup {id}
          /\ \E k \in 1..MaxCopies : fromPeer' = [fromPeer EXCEPT ![m] = @ \o Copies(msg, k)]
          /\ toPeer' = [toPeer EXCEPT ![m] = Tail(@)]
          /\ UNCHANGED <<caller, waiter, messageId>>
      BY <2>8 DEF PeerAnswer
    <3>2. CallsIn(toPeer[m]) = {id} \cup CallsIn(toPeer'[m])
      BY <3>1, CallsInTail
    <3>3. Head(toPeer[m]) \in Request
      BY <3>1
    <3>4. msg \in Response /\ msg.call = id
      BY <3>3 DEF Request, Response
    <3>5. CallsIn(fromPeer'[m]) = CallsIn(fromPeer[m]) \cup {id}
      BY <3>1, <3>4, CallsInCopies
    <3> HIDE DEF id, msg
    <3>6. AnswersWereHandled'
      BY <3>1, <3>5 DEF RefinementInv, AnswersWereHandled
    <3>7. RequestsAreAwaited'
      BY <3>1, <3>2 DEF RefinementInv, RequestsAreAwaited
    <3>8. RegisteredFirst'
      BY <3>1 DEF RefinementInv, RegisteredFirst
    <3> QED BY <3>6, <3>7, <3>8 DEF RefinementInv
  <2>9. ASSUME NEW t \in Threads, RaceCrashes(t) PROVE RefinementInv'
    <3>1. Still
      BY <2>9 DEF Still, RaceCrashes
    <3>2. RegisteredFirst'
      BY <2>9 DEF RefinementInv, RegisteredFirst, RaceCrashes
    <3> QED BY <3>1, <3>2, StillKeepsAnswers DEF RefinementInv
  <2>10. ASSUME NEW e \in Ends, LoseStep(e) PROVE RefinementInv'
    <3>1. Still
      BY <2>10 DEF Still, LoseStep
    <3>2. RegisteredFirst'
      BY <2>10 DEF RefinementInv, RegisteredFirst, LoseStep
    <3> QED BY <3>1, <3>2, StillKeepsAnswers DEF RefinementInv
  <2>11. CASE UNCHANGED vars
    <3>1. Still
      BY <2>11 DEF Still, vars
    <3>2. RegisteredFirst'
      BY <2>11 DEF RefinementInv, RegisteredFirst, vars
    <3> QED BY <3>1, <3>2, StillKeepsAnswers DEF RefinementInv
  <2> QED BY <2>1, <2>2, <2>3, <2>4, <2>5, <2>6, <2>7, <2>8, <2>9, <2>10, <2>11
          DEF Next, Caller, Receiver
<1> QED BY <1>1, <1>2, InductiveInvariant, CallInvariant, PTL DEF Spec

\* Network.tla implements RemoteCall.tla where the threads own or lock the
\* message they send and no id reaches 2^32: SendOpWait gives a status only to a
\* call that a handler has executed, for the first time while its caller waited
\* for it.  The steps of the waiter, the receiver and the streams are stutters of
\* the contract, and so is the execution of a copy.
THEOREM SendOpWaitKeepsItsContract ==
  ASSUME "shared" \notin Sharings, IdsFit
  PROVE  Spec => ImplementsRemoteCall
<1>1. Init => Contract!Init
  BY ZenonT(60) DEF Init, Contract!Init, InCall
<1>2. IInv /\ CallInv /\ RefinementInv /\ [Next]_vars => [Contract!Next]_(Contract!vars)
  <2> SUFFICES ASSUME IInv, CallInv, RefinementInv, [Next]_vars
               PROVE  Contract!Next \/ UNCHANGED Contract!vars
    OBVIOUS
  <2>0. TypeOK
    BY DEF IInv
  <2> USE TargetAssumption, <2>0 DEF TypeOK, InCall
  <2>1. ASSUME NEW t \in Threads, Refused(t) PROVE Contract!Next
    <3>1. Contract!Refuse(t)
      BY <2>1 DEF Refused, peerVars, Contract!Refuse
    <3> QED BY <3>1 DEF Contract!Next
  <2>2. ASSUME NEW t \in Threads, Begin(t) PROVE Contract!Next
    <3>1. Contract!Start(t)
      BY <2>2 DEF Begin, peerVars, Contract!Start
    <3> QED BY <3>1 DEF Contract!Next
  \* The handler runs.  The first time, the request's owner is waiting.
  <2>3. ASSUME NEW m \in Machines, PeerAnswer(m)
        PROVE  Contract!Next \/ UNCHANGED Contract!vars
    <3> DEFINE id == Head(toPeer[m]).call
    <3>1. id \in CallsIn(toPeer[m])
      BY <2>3, CallsInTail DEF PeerAnswer
    <3>2. CASE id \notin handled
      <4>1. PICK t \in Threads : messageId[t] = id /\ caller[t] \in {"wait", "expired"}
        BY <3>1, <3>2 DEF RefinementInv, RequestsAreAwaited
      <4>2. Contract!Serve(t)
        BY <2>3, <3>2, <4>1 DEF PeerAnswer, Contract!Serve
      <4> QED BY <4>2 DEF Contract!Next
    <3>3. CASE id \in handled
      <4>1. handled' = handled /\ UNCHANGED <<idCounter, caller, messageId, result>>
        BY <2>3, <3>3 DEF PeerAnswer
      <4> QED BY <4>1 DEF Contract!vars
    <3> QED BY <3>2, <3>3
  \* A caller returns when its waiter is done, after its call was served.
  <2>4. ASSUME NEW t \in Threads, Return(t) PROVE Contract!Next
    <3>1. messageId[t] \in handled
      BY <2>4 DEF Return, RefinementInv, AnswersWereHandled
    <3>2. caller[t] = "expired" => t \in Timed
      BY DEF RefinementInv, RegisteredFirst
    <3>3. Contract!Finish(t)
      BY <2>4, <3>1, <3>2 DEF Return, peerVars, Contract!Finish
    <3> QED BY <3>3 DEF Contract!Next
  <2>5. ASSUME NEW t \in Threads,
               WriteHeader(t) \/ Send(t) \/ TimeOut(t) \/ RegisterEvent(t) \/ RaceCrashes(t)
        PROVE  UNCHANGED Contract!vars
    BY <2>5, SMTT(60) DEF WriteHeader, Send, TimeOut, RegisterEvent, RaceCrashes, peerVars,
                          Contract!vars
  <2>6. ASSUME NEW m \in Machines, Connect(m) \/ Receiver(m)
        PROVE  UNCHANGED Contract!vars
    <3>1. UNCHANGED <<idCounter, caller, messageId, handled, result>>
      BY <2>6 DEF Connect, Receiver, PropagateMessage, EraseCallbacks, ErasedTo, peerVars
    <3> QED BY <3>1 DEF Contract!vars
  <2>7. ASSUME NEW e \in Ends, LoseStep(e) PROVE UNCHANGED Contract!vars
    BY <2>7 DEF LoseStep, Contract!vars
  <2>8. CASE UNCHANGED vars
    BY <2>8 DEF vars, Contract!vars
  <2> QED BY <2>1, <2>2, <2>3, <2>4, <2>5, <2>6, <2>7, <2>8 DEF Next, Caller
<1> QED BY <1>1, <1>2, InductiveInvariant, CallInvariant, RefinementInvariant, PTL
        DEF Spec, ImplementsRemoteCall, Contract!Spec

-----------------------------------------------------------------------------
(* A call that has its callback is on its way.                             *)

\* The callbacks that are about to be erased are those of calls that no longer
\* wait; needs no assumption.
LEMMA FiredInvariant == Spec => []FiredAreOld
<1>1. Init => FiredAreOld
  BY DEF Init, FiredAreOld
<1>2. TypeOK /\ WaiterFollowsCaller /\ CallInv /\ FiredAreOld /\ [Next]_vars => FiredAreOld'
  <2> SUFFICES ASSUME TypeOK, WaiterFollowsCaller, CallInv, FiredAreOld, [Next]_vars
               PROVE  FiredAreOld'
    OBVIOUS
  <2> USE TargetAssumption DEF TypeOK
  <2>1. ASSUME NEW t \in Threads, Begin(t) PROVE FiredAreOld'
    BY <2>1 DEF Begin, callbackVars, FiredAreOld
  <2>2. ASSUME NEW t \in Threads, RegisterEvent(t) PROVE FiredAreOld'
    BY <2>2 DEF RegisterEvent, FiredAreOld
  <2>3. ASSUME NEW t \in Threads, Refused(t) \/ WriteHeader(t) \/ Send(t) \/ TimeOut(t)
                                   \/ Return(t) \/ RaceCrashes(t)
        PROVE  FiredAreOld'
    <3>1. /\ UNCHANGED <<fired, messageId, idCounter>>
          /\ \A u \in Threads :
               waiter'[u] \in {"register", "waiting"} => waiter'[u] = waiter[u]
      BY <2>3 DEF Refused, WriteHeader, Send, TimeOut, Return, RaceCrashes, callbackVars
    <3> QED BY <3>1 DEF FiredAreOld
  <2>4. ASSUME NEW m \in Machines, PropagateMessage(m) PROVE FiredAreOld'
    <3> DEFINE Woken == Matches(m, Head(fromPeer[m]))
    <3>1. /\ fired' = [fired EXCEPT ![m] = {messageId[t] : t \in Woken}]
          /\ waiter' = [t \in Threads |-> IF t \in Woken THEN "done" ELSE waiter[t]]
          /\ UNCHANGED <<caller, messageId, idCounter>>
      BY <2>4 DEF PropagateMessage
    <3>2. Woken \subseteq {t \in Threads : waiter[t] = "waiting"}
      BY DEF Matches
    <3> HIDE DEF Woken
    <3> SUFFICES ASSUME NEW k \in Machines, NEW id \in fired'[k]
                 PROVE  /\ id < idCounter
                        /\ \A t \in Threads :
                             waiter'[t] \in {"register", "waiting"} => messageId[t] # id
      BY <3>1 DEF FiredAreOld
    <3>3. CASE k # m
      BY <3>1, <3>3 DEF FiredAreOld
    \* Two open calls never have the same id: the others wait on.
    <3>4. CASE k = m
      <4>1. PICK u \in Woken : id = messageId[u]
        BY <3>1, <3>4
      <4>2. u \in Threads /\ InCall(u)
        BY <3>2 DEF WaiterFollowsCaller, InCall
      <4>3. \A t \in Threads : waiter[t] \in {"register", "waiting"} => InCall(t)
        BY DEF WaiterFollowsCaller, InCall
      <4>4. \A t \in Threads \ Woken :
              waiter[t] \in {"register", "waiting"} => messageId[t] # id
        BY <4>1, <4>2, <4>3 DEF CallInv, CallsDistinct
      <4> QED BY <3>1, <4>1, <4>2, <4>4 DEF CallInv, IdsDrawn
    <3> QED BY <3>3, <3>4
  <2>5. ASSUME NEW m \in Machines, EraseCallbacks(m) PROVE FiredAreOld'
    BY <2>5 DEF EraseCallbacks, ErasedTo, FiredAreOld
  <2>6. ASSUME NEW m \in Machines, Connect(m) \/ PeerAnswer(m) PROVE FiredAreOld'
    BY <2>6 DEF Connect, PeerAnswer, callbackVars, FiredAreOld
  <2>7. ASSUME NEW e \in Ends, LoseStep(e) PROVE FiredAreOld'
    BY <2>7 DEF LoseStep, callbackVars, FiredAreOld
  <2>8. CASE UNCHANGED vars
    BY <2>8 DEF vars, FiredAreOld
  <2> QED BY <2>1, <2>2, <2>3, <2>4, <2>5, <2>6, <2>7, <2>8 DEF Next, Caller, Receiver
<1> QED BY <1>1, <1>2, TypeCorrect, WaiterInvariant, CallInvariant, PTL DEF Spec

\* The receiver's erasure takes no callback of a call that waits, and no other
\* step but a registration that races does, whatever the threads share.
THEOREM ErasureSparesWaiters == Spec => OnlyRacesLoseCallbacks
<1> DEFINE Spared ==
      \A t \in Threads :
        HasCallback(t) /\ (waiter[t] = "waiting" /\ ~ HasCallback(t))' =>
          \E u \in Threads : RegisterEvent(u) /\ Racing(u)
<1>1. TypeOK /\ FiredAreOld /\ [Next]_vars => Spared
  <2> SUFFICES ASSUME TypeOK, FiredAreOld, [Next]_vars, NEW t \in Threads,
                      HasCallback(t), waiter'[t] = "waiting", ~ HasCallback(t)'
               PROVE  \E u \in Threads : RegisterEvent(u) /\ Racing(u)
    OBVIOUS
  <2> USE TargetAssumption DEF TypeOK, HasCallback
  <2>1. ASSUME NEW u \in Threads, Begin(u) PROVE FALSE
    BY <2>1 DEF Begin, callbackVars
  <2>2. ASSUME NEW u \in Threads, RegisterEvent(u), ~ Racing(u) PROVE FALSE
    BY <2>2 DEF RegisterEvent
  <2>3. ASSUME NEW u \in Threads, Refused(u) \/ WriteHeader(u) \/ Send(u) \/ TimeOut(u)
                                   \/ Return(u) \/ RaceCrashes(u)
        PROVE  FALSE
    BY <2>3 DEF Refused, WriteHeader, Send, TimeOut, Return, RaceCrashes, callbackVars
  <2>4. ASSUME NEW m \in Machines, PropagateMessage(m) \/ Connect(m) \/ PeerAnswer(m)
        PROVE  FALSE
    BY <2>4 DEF PropagateMessage, Connect, PeerAnswer, callbackVars
  \* What is erased has been fired for a call that no longer waits.
  <2>5. ASSUME NEW m \in Machines, EraseCallbacks(m) PROVE FALSE
    BY <2>5 DEF EraseCallbacks, ErasedTo, FiredAreOld
  <2>6. ASSUME NEW e \in Ends, LoseStep(e) PROVE FALSE
    BY <2>6 DEF LoseStep, callbackVars
  <2>7. CASE UNCHANGED vars
    BY <2>7 DEF vars
  <2> QED BY <2>1, <2>2, <2>3, <2>4, <2>5, <2>6, <2>7 DEF Next, Caller, Receiver
<1> QED BY <1>1, TypeCorrect, FiredInvariant, PTL DEF Spec, OnlyRacesLoseCallbacks

\* No wakeup is lost: while a waiter has its callback, its request or an answer to
\* it is in the stream.  An answer that is taken off the stream finds the callback
\* or the race has taken it; none comes before the registration.
THEOREM RegisteredCallsAreInFlight ==
  ASSUME "shared" \notin Sharings, IdsFit
  PROVE  Spec => []RegisteredCallIsInFlight
<1>1. Init => RegisteredCallIsInFlight
  BY DEF Init, RegisteredCallIsInFlight
<1>2. IInv /\ CallInv /\ RefinementInv /\ RegisteredCallIsInFlight /\ [Next]_vars
        => RegisteredCallIsInFlight'
  <2> SUFFICES ASSUME IInv, CallInv, RefinementInv, RegisteredCallIsInFlight, [Next]_vars
               PROVE  RegisteredCallIsInFlight'
    OBVIOUS
  <2>0. TypeOK
    BY DEF IInv
  <2> USE TargetAssumption, <2>0 DEF TypeOK, HasCallback
  <2>1. ASSUME NEW t \in Threads, Refused(t) \/ Begin(t) \/ WriteHeader(t) \/ TimeOut(t)
                                   \/ Return(t) \/ RaceCrashes(t)
        PROVE  RegisteredCallIsInFlight'
    <3>1. /\ UNCHANGED <<toPeer, fromPeer, allCallbacks>>
          /\ \A u \in Threads :
               caller'[u] \in {"wait", "expired"} /\ waiter'[u] = "waiting" =>
                 /\ caller[u] \in {"wait", "expired"} /\ waiter[u] = "waiting"
                 /\ messageId'[u] = messageId[u]
      BY <2>1, SMTT(60) DEF Refused, Begin, WriteHeader, TimeOut, Return, RaceCrashes, callbackVars, peerVars
    <3> QED BY <3>1 DEF RegisteredCallIsInFlight
  <2>2. ASSUME NEW t \in Threads, Send(t) PROVE RegisteredCallIsInFlight'
    <3> DEFINE req == [id |-> WireId(t), call |-> messageId[t]]
    <3>1. req \in Request /\ req.call = messageId[t]
      BY WireIdType DEF WireId, Request
    <3>2. /\ caller' = [caller EXCEPT ![t] = "wait"]
          /\ \E k \in 1..MaxCopies :
               toPeer' = [toPeer EXCEPT ![Target[t]] = @ \o Copies(req, k)]
          /\ UNCHANGED <<waiter, messageId, fromPeer, allCallbacks>>
      BY <2>2 DEF Send, callbackVars
    <3> HIDE DEF req
    <3>3. CallsIn(toPeer'[Target[t]]) = CallsIn(toPeer[Target[t]]) \cup {messageId[t]}
      BY <3>1, <3>2, CallsInCopies
    <3>4. \A k \in Machines : CallsIn(toPeer[k]) \subseteq CallsIn(toPeer'[k])
      BY <3>2, <3>3
    <3>5. ASSUME NEW u \in Threads, caller'[u] \in {"wait", "expired"}, waiter[u] = "waiting",
                 messageId[u] \in allCallbacks[Target[u]]
          PROVE  messageId[u] \in CallsIn(toPeer'[Target[u]]) \cup CallsIn(fromPeer[Target[u]])
      <4>1. CASE u = t
        BY <3>3, <4>1
      <4>2. CASE u # t
        BY <3>2, <3>4, <3>5, <4>2 DEF RegisteredCallIsInFlight
      <4> QED BY <4>1, <4>2
    <3> QED BY <3>2, <3>5 DEF RegisteredCallIsInFlight
  \* The caller that registers has not sent yet; nobody else gains a callback.
  <2>3. ASSUME NEW t \in Threads, RegisterEvent(t) PROVE RegisteredCallIsInFlight'
    <3>1. /\ waiter[t] = "register"
          /\ waiter' = [waiter EXCEPT ![t] = "waiting"]
          /\ UNCHANGED <<caller, messageId, toPeer, fromPeer>>
      BY <2>3 DEF RegisterEvent, peerVars
    <3>2. caller[t] \notin {"wait", "expired"}
      BY <3>1 DEF RefinementInv, RegisteredFirst
    <3>3. \A u \in Threads \ {t} :
            messageId[u] \in allCallbacks'[Target[u]] =>
              messageId[u] \in allCallbacks[Target[u]] \/ messageId[u] = messageId[t]
      <4>1. PICK left \in SUBSET (allCallbacks[Target[t]] \cup {messageId[t]}) :
              allCallbacks' = [allCallbacks EXCEPT ![Target[t]] = left]
        BY <2>3, RegistrationLeaves
      <4>2. \A u \in Threads : allCallbacks'[Target[u]] =
              IF Target[u] = Target[t] THEN left ELSE allCallbacks[Target[u]]
        BY <4>1
      <4> QED BY <4>2, Zenon
    <3>4. \A u \in Threads \ {t} : InCall(u) => messageId[u] # messageId[t]
      BY <3>1 DEF CallInv, CallsDistinct, InCall, IInv, WaiterFollowsCaller
    <3> QED BY <3>1, <3>2, <3>3, <3>4 DEF RegisteredCallIsInFlight, InCall
  \* The answer taken off the stream wakes the waiter it names.
  <2>4. ASSUME NEW m \in Machines, PropagateMessage(m) PROVE RegisteredCallIsInFlight'
    <3> DEFINE msg == Head(fromPeer[m])
               Woken == Matches(m, msg)
    <3>1. fromPeer[m] # <<>> /\ fromPeer[m] \in Seq(OwnResponse)
      BY <2>4 DEF PropagateMessage, IInv, StreamsNameCalls
    <3>2. msg.responseTo = msg.call
      BY <3>1 DEF OwnResponse
    <3>3. CallsIn(fromPeer[m]) = {msg.call} \cup CallsIn(Tail(fromPeer[m]))
      BY <3>1, CallsInTail
    <3>4. /\ waiter' = [t \in Threads |-> IF t \in Woken THEN "done" ELSE waiter[t]]
          /\ fromPeer' = [fromPeer EXCEPT ![m] = Tail(@)]
          /\ UNCHANGED <<caller, messageId, toPeer, allCallbacks>>
      BY <2>4 DEF PropagateMessage
    <3>5. \A t \in Threads :
            Target[t] = m /\ waiter[t] = "waiting" /\ messageId[t] = msg.call
              /\ messageId[t] \in allCallbacks[m] => t \in Woken
      BY <3>2 DEF Matches
    <3> HIDE DEF msg, Woken
    <3> QED BY <3>3, <3>4, <3>5 DEF RegisteredCallIsInFlight
  <2>5. ASSUME NEW m \in Machines, Connect(m) \/ EraseCallbacks(m)
        PROVE  RegisteredCallIsInFlight'
    <3>1. /\ UNCHANGED <<caller, waiter, messageId, toPeer, fromPeer>>
          /\ \A k \in Machines : allCallbacks'[k] \subseteq allCallbacks[k]
      BY <2>5 DEF Connect, EraseCallbacks, ErasedTo, peerVars, callbackVars
    <3> QED BY <3>1 DEF RegisteredCallIsInFlight
  \* The request becomes its answer.
  <2>6. ASSUME NEW m \in Machines, PeerAnswer(m) PROVE RegisteredCallIsInFlight'
    <3> DEFINE id == Head(toPeer[m]).call
               msg == [responseTo |-> Head(toPeer[m]).id, call |-> id]
    <3>1. /\ toPeer[m] # <<>>
          /\ \E k \in 1..MaxCopies : fromPeer' = [fromPeer EXCEPT ![m] = @ \o Copies(msg, k)]
          /\ toPeer' = [toPeer EXCEPT ![m] = Tail(@)]
          /\ UNCHANGED <<caller, waiter, messageId, allCallbacks>>
      BY <2>6 DEF PeerAnswer, callbackVars
    <3>2. CallsIn(toPeer[m]) = {id} \cup CallsIn(toPeer'[m])
      BY <3>1, CallsInTail
    <3>3. Head(toPeer[m]) \in Request
      BY <3>1
    <3>4. msg \in Response /\ msg.call = id
      BY <3>3 DEF Request, Response
    <3>5. CallsIn(fromPeer'[m]) = CallsIn(fromPeer[m]) \cup {id}
      BY <3>1, <3>4, CallsInCopies
    <3> HIDE DEF id, msg
    <3> QED BY <3>1, <3>2, <3>5 DEF RegisteredCallIsInFlight
  <2>7. ASSUME NEW e \in Ends, LoseStep(e) PROVE RegisteredCallIsInFlight'
    BY <2>7 DEF LoseStep, callbackVars, RegisteredCallIsInFlight
  <2>8. CASE UNCHANGED vars
    BY <2>8 DEF vars, RegisteredCallIsInFlight
  <2> QED BY <2>1, <2>2, <2>3, <2>4, <2>5, <2>6, <2>7, <2>8 DEF Next, Caller, Receiver
<1> QED BY <1>1, <1>2, InductiveInvariant, CallInvariant, RefinementInvariant, PTL DEF Spec
=============================================================================
