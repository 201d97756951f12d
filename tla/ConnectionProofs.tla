-------------------------- MODULE ConnectionProofs --------------------------
(***************************************************************************)
(* Theorems about the handshake of Handshake.tla, for any number of         *)
(* clients, any configuration file, whatever goes wrong: the sockets that the    *)
(* constructor of Network makes, types, the server's pass over its machines, *)
(* who is at the other end of an exchange, and what the two verdicts say    *)
(* about each other.                                                       *)
(***************************************************************************)
EXTENDS Handshake, FiniteSetTheorems, TLAPS

-----------------------------------------------------------------------------
(* The constructor of Network gives every id a socket to its own endpoint, *)
(* whatever the configuration file names, repeats or leaves out.  It counts *)
(* its way through a map that grows while it looks into it, and stops when  *)
(* it has made as many sockets as the map has keys; the keys 0, 1, ... it   *)
(* looked up are among them, so there are no others.                       *)

\* The sockets made so far are those of the first ids, in order.
SocketsFollowIds ==
  /\ Len(sockets) \leq Cardinality(DOMAIN endpoints)
  /\ \A id \in 0 .. (Len(sockets) - 1) :
       id \in DOMAIN endpoints /\ sockets[id + 1] = endpoints[id]

ConfigInv ==
  /\ ConfigTypeOK
  /\ ctor # "thrown" => SocketsFollowIds
  /\ ctor = "ready" => Len(sockets) = Cardinality(DOMAIN endpoints)
  /\ ctor \in {"parse", "own"} => sockets = <<>>

\* operator[] adds at most its own id, and changes no other endpoint.
LEMMA AssignedType ==
  ASSUME ConfigTypeOK, NEW id \in Nat, NEW e \in Address
  PROVE  /\ DOMAIN Assigned(id, e) = DOMAIN endpoints \cup {id}
         /\ IsFiniteSet(DOMAIN Assigned(id, e))
         /\ DOMAIN Assigned(id, e) \subseteq Nat
         /\ Assigned(id, e) \in [DOMAIN Assigned(id, e) -> Address]
<1>1. DOMAIN Assigned(id, e) = DOMAIN endpoints \cup {id}
  BY DEF Assigned
<1>2. IsFiniteSet(DOMAIN endpoints \cup {id})
  BY FS_AddElement DEF ConfigTypeOK
<1>3. Assigned(id, e) \in [DOMAIN endpoints \cup {id} -> Address]
  BY DEF Assigned, ConfigTypeOK
<1> QED BY <1>1, <1>2, <1>3 DEF ConfigTypeOK

LEMMA LookedType ==
  ASSUME ConfigTypeOK, NEW id \in Nat
  PROVE  /\ DOMAIN Looked(id) = DOMAIN endpoints \cup {id}
         /\ IsFiniteSet(DOMAIN Looked(id))
         /\ DOMAIN Looked(id) \subseteq Nat
         /\ Looked(id) \in [DOMAIN Looked(id) -> Address]
         /\ \A k \in DOMAIN endpoints : Looked(id)[k] = endpoints[k]
         /\ Cardinality(DOMAIN endpoints) \leq Cardinality(DOMAIN Looked(id))
<1>1. CASE id \in DOMAIN endpoints
  <2>1. Looked(id) = endpoints /\ DOMAIN endpoints \cup {id} = DOMAIN endpoints
    BY <1>1 DEF Looked
  <2>2. Cardinality(DOMAIN endpoints) \in Nat
    BY FS_CardinalityType DEF ConfigTypeOK
  <2> QED BY <2>1, <2>2 DEF ConfigTypeOK
<1>2. CASE id \notin DOMAIN endpoints
  <2>1. Looked(id) = Assigned(id, Default) /\ Default \in Address
    BY <1>2 DEF Looked, Address
  <2>2. /\ DOMAIN Looked(id) = DOMAIN endpoints \cup {id}
        /\ IsFiniteSet(DOMAIN Looked(id))
        /\ DOMAIN Looked(id) \subseteq Nat
        /\ Looked(id) \in [DOMAIN Looked(id) -> Address]
    BY <2>1, AssignedType
  <2>3. \A k \in DOMAIN endpoints : Looked(id)[k] = endpoints[k]
    BY <1>2, <2>1 DEF Assigned
  <2>4. Cardinality(DOMAIN endpoints) \leq Cardinality(DOMAIN Looked(id))
    BY <2>2, FS_Subset
  <2> QED BY <2>2, <2>3, <2>4
<1> QED BY <1>1, <1>2

LEMMA MakeSocketStep ==
  ASSUME ConfigInv, MakeSocket
  PROVE  ConfigInv'
<1> DEFINE len == Len(sockets)
<1>1. len \in Nat /\ ctor = "sockets" /\ ctor' = "sockets" /\ lines' = lines
  BY DEF ConfigInv, ConfigTypeOK, MakeSocket
<1>2. /\ endpoints' = Looked(len)
      /\ sockets' = Append(sockets, endpoints'[len])
      /\ len < Cardinality(DOMAIN endpoints)
  BY DEF MakeSocket
<1>3. /\ DOMAIN endpoints' = DOMAIN endpoints \cup {len}
      /\ IsFiniteSet(DOMAIN endpoints')
      /\ DOMAIN endpoints' \subseteq Nat
      /\ endpoints' \in [DOMAIN endpoints' -> Address]
      /\ \A k \in DOMAIN endpoints : endpoints'[k] = endpoints[k]
      /\ Cardinality(DOMAIN endpoints) \leq Cardinality(DOMAIN endpoints')
  BY <1>1, <1>2, LookedType DEF ConfigInv
<1>4. endpoints'[len] \in Address
  BY <1>3
<1>5. /\ Len(sockets') = len + 1
      /\ sockets'[len + 1] = endpoints'[len]
      /\ \A k \in 1 .. len : sockets'[k] = sockets[k]
      /\ sockets' \in Seq(Address)
  BY <1>1, <1>2, <1>4 DEF ConfigInv, ConfigTypeOK
<1>6. ConfigTypeOK'
  BY <1>1, <1>3, <1>5 DEF ConfigInv, ConfigTypeOK
<1>7. Cardinality(DOMAIN endpoints) \in Nat /\ Cardinality(DOMAIN endpoints') \in Nat
  BY <1>3, FS_CardinalityType DEF ConfigInv, ConfigTypeOK
<1>8. Len(sockets') \leq Cardinality(DOMAIN endpoints')
  BY <1>1, <1>2, <1>3, <1>5, <1>7
<1>9. ASSUME NEW id \in 0 .. (Len(sockets') - 1)
      PROVE  id \in DOMAIN endpoints' /\ sockets'[id + 1] = endpoints'[id]
  <2>1. CASE id = len
    BY <1>3, <1>5, <2>1
  <2>2. CASE id # len
    <3>1. id \in 0 .. (len - 1) /\ id + 1 \in 1 .. len
      BY <1>1, <1>5, <2>2
    <3>2. id \in DOMAIN endpoints /\ sockets[id + 1] = endpoints[id]
      BY <1>1, <3>1 DEF ConfigInv, SocketsFollowIds
    <3> QED BY <1>3, <1>5, <3>1, <3>2
  <2> QED BY <2>1, <2>2
<1> QED BY <1>1, <1>6, <1>8, <1>9 DEF ConfigInv, SocketsFollowIds

LEMMA ConfigInductive == ConfigSpec => []ConfigInv
<1>1. ConfigInit => ConfigInv
  <2> SUFFICES ASSUME ConfigInit PROVE ConfigInv
    OBVIOUS
  <2>1. DOMAIN endpoints = {} /\ sockets = <<>> /\ ctor = "parse"
    BY DEF ConfigInit
  <2>2. ConfigTypeOK
    BY <2>1, ConfigAssumption, FS_EmptySet DEF ConfigInit, ConfigTypeOK
  <2>3. SocketsFollowIds
    BY <2>1, FS_EmptySet DEF SocketsFollowIds
  <2> QED BY <2>1, <2>2, <2>3 DEF ConfigInv
<1>2. ConfigInv /\ [ConfigNext]_configVars => ConfigInv'
  <2> SUFFICES ASSUME ConfigInv, [ConfigNext]_configVars PROVE ConfigInv'
    OBVIOUS
  <2>1. CASE SkipLine
    <3>1. lines' \in Seq(Line)
      BY <2>1 DEF SkipLine, ConfigInv, ConfigTypeOK
    <3> QED BY <2>1, <3>1 DEF SkipLine, ConfigInv, ConfigTypeOK, SocketsFollowIds
  <2>2. CASE ParseFails
    BY <2>2 DEF ParseFails, ConfigInv, ConfigTypeOK, SocketsFollowIds
  <2>3. CASE AddEndpoint
    <3>1. lines' \in Seq(Line) /\ sockets' = sockets /\ ctor' = ctor /\ ctor = "parse"
          /\ sockets = <<>>
      BY <2>3 DEF AddEndpoint, ConfigInv, ConfigTypeOK
    <3>2. Head(lines) \in Line /\ Head(lines).kind = "endpoint"
      BY <2>3 DEF AddEndpoint, ConfigInv, ConfigTypeOK
    <3>3. Head(lines).id \in Nat \cup {NoId} /\ Head(lines).machine \in Nat
      BY <3>2 DEF Line
    <3>4. PICK id \in Nat, e \in Address : endpoints' = Assigned(id, e)
      <4>1. PICK k \in Nat :
              endpoints' = Assigned(k % IdSpan,
                                    IF Head(lines).valid THEN Head(lines).machine ELSE Stray)
        BY <2>3, <3>3, ConfigAssumption DEF AddEndpoint
      <4>2. k % IdSpan \in Nat
        BY ConfigAssumption
      <4>3. (IF Head(lines).valid THEN Head(lines).machine ELSE Stray) \in Address
        BY <3>3 DEF Address
      <4> QED BY <4>1, <4>2, <4>3
    <3>5. /\ IsFiniteSet(DOMAIN endpoints') /\ DOMAIN endpoints' \subseteq Nat
          /\ endpoints' \in [DOMAIN endpoints' -> Address]
      BY <3>4, AssignedType DEF ConfigInv
    <3>6. Cardinality(DOMAIN endpoints') \in Nat
      BY <3>5, FS_CardinalityType
    <3> QED BY <3>1, <3>5, <3>6 DEF ConfigInv, ConfigTypeOK, SocketsFollowIds
  <2>4. CASE EndOfFile
    BY <2>4 DEF EndOfFile, ConfigInv, ConfigTypeOK, SocketsFollowIds
  <2>5. CASE OwnEndpoint
    <3>1. endpoints' = Assigned(Self, Own) /\ sockets' = sockets /\ sockets = <<>>
          /\ ctor' = "sockets" /\ lines' = lines
      BY <2>5 DEF OwnEndpoint, ConfigInv
    <3>2. /\ IsFiniteSet(DOMAIN endpoints') /\ DOMAIN endpoints' \subseteq Nat
          /\ endpoints' \in [DOMAIN endpoints' -> Address]
      <4>1. Self \in Nat /\ Own \in Address
        BY ConfigAssumption DEF Address
      <4> QED BY <3>1, <4>1, AssignedType DEF ConfigInv
    <3>3. Cardinality(DOMAIN endpoints') \in Nat
      BY <3>2, FS_CardinalityType
    <3> QED BY <3>1, <3>2, <3>3 DEF ConfigInv, ConfigTypeOK, SocketsFollowIds
  <2>6. CASE MakeSocket
    BY <2>6, MakeSocketStep
  <2>7. CASE Constructed
    BY <2>7 DEF Constructed, ConfigInv, ConfigTypeOK, SocketsFollowIds
  <2>8. CASE UNCHANGED configVars
    BY <2>8 DEF configVars, ConfigInv, ConfigTypeOK, SocketsFollowIds
  <2> QED BY <2>1, <2>2, <2>3, <2>4, <2>5, <2>6, <2>7, <2>8 DEF ConfigNext
<1> QED BY <1>1, <1>2, PTL DEF ConfigSpec

\* As many keys as there are sockets, and 0 .. n - 1 among them: no others.
LEMMA ConfigInvImplies == ConfigInv => IdsHaveSockets
<1> SUFFICES ASSUME ConfigInv, ctor = "ready", NEW id \in DOMAIN endpoints
             PROVE  id < Len(sockets) /\ sockets[id + 1] = endpoints[id]
  BY DEF IdsHaveSockets
<1> DEFINE first == 0 .. (Len(sockets) - 1)
<1>1. Len(sockets) \in Nat /\ SocketsFollowIds
      /\ Len(sockets) = Cardinality(DOMAIN endpoints)
  BY DEF ConfigInv, ConfigTypeOK
<1>2. first \subseteq DOMAIN endpoints
  BY <1>1 DEF SocketsFollowIds
<1>3. Cardinality(first) = Len(sockets)
  BY <1>1, FS_Interval
<1>4. first = DOMAIN endpoints
  BY <1>1, <1>2, <1>3, FS_Subset DEF ConfigInv, ConfigTypeOK
<1> QED BY <1>1, <1>4 DEF SocketsFollowIds

\* Nothing else in the process touches what the constructor has built.
LEMMA HandshakeKeepsConfig == Spec => ConfigSpec
<1>1. Init => ConfigInit
  BY DEF Init
<1>2. [Next]_vars => [ConfigNext]_configVars
  <2> SUFFICES ASSUME [Next]_vars PROVE [ConfigNext]_configVars
    OBVIOUS
  <2>1. CASE ConfigNext /\ UNCHANGED handshakeVars
    BY <2>1
  <2>2. CASE ServerStep
    BY <2>2 DEF ServerStep, NextPeer, NextRound, NoMoreRounds, Knock, KnockRefused,
       GiveUp, ReadPort, ReadPortFails, Dial, DialRefused
  <2>3. ASSUME NEW c \in Clients,
               \/ Start(c) \/ ListenFails(c) \/ Stranger(c) \/ ClientStep(c)
               \/ OpenAcceptor(c) \/ PortTaken(c)
        PROVE  UNCHANGED configVars
    BY <2>3 DEF Start, ListenFails, Stranger, ClientStep, OpenAcceptor, PortTaken,
       AcceptStranger, Reopen, Accept, SendPort, EndListen
  <2>4. ASSUME NEW c \in Clients, NEW s \in Ends,
               CallerStep(c, s) \/ ReceiverStep(c, s) \/ ReadTimeout(c, s) \/ Expire(c, s)
        PROVE  UNCHANGED configVars
    BY <2>4 DEF CallerStep, ReceiverStep, ReadTimeout, Expire, RegisterCallback, SendInfo, Return,
       ReceiveInfo, DropInfo
  <2>5. CASE UNCHANGED vars
    BY <2>5 DEF vars, configVars
  <2> QED BY <2>1, <2>2, <2>3, <2>4, <2>5 DEF Next
<1> QED BY <1>1, <1>2, PTL DEF Spec, ConfigSpec

\* network.hpp:86, "index is equal to endpoint machine's ID": once the constructor
\* is through, sockets can be indexed with every id there is, and leads to the
\* endpoint of that id.
THEOREM EveryIdHasItsSocket == Spec => []IdsHaveSockets
BY HandshakeKeepsConfig, ConfigInductive, ConfigInvImplies, PTL

-----------------------------------------------------------------------------
(* The inductive invariants.                                               *)

\* A client has no second acceptor before it has chosen a port; once the server
\* is queued there it is attached, and then the client is, for good.
EndsMeet ==
  \A c \in Clients :
    /\ acceptor[c] # "none" => client[c] \notin {"off", "listening", "reopening", "failed"}
    /\ acceptor[c] = "queued" \/ "client" \in attached[c] => "server" \in attached[c]
    /\ end[c]["server"].step # "none" => acceptor[c] = "queued" \/ "client" \in attached[c]
    /\ end[c]["client"].step # "none" => "client" \in attached[c]

\* What an end is sent, and has got, is the hash of the process at the other end.
HashesArrive ==
  \A c \in Clients, s \in Ends :
    LET theirs == hash[Process(c, Other(s))] IN
      /\ end[c][s].inbox \in Seq({theirs})
      /\ end[c][s].got \in {<<>>, <<theirs>>}

\* A verdict on the two hashes is right.
VerdictsAreTrue ==
  \A c \in Clients, s \in Ends :
    /\ end[c][s].step = "good" => hash[c] = hash[Server]
    /\ end[c][s].step = "mismatch" => hash[c] # hash[Server]

Machines == Cardinality(DOMAIN endpoints)

\* The server waits for nothing while Network is being constructed, and then has
\* one machine at a time, which it has entered in tried; once it has been answered
\* there, the socket leads to a client.
OneAtATime ==
  /\ ctor # "ready" => pc = "next" /\ peer = 1 /\ round = 1
  /\ pc \notin {"next", "done"} => peer \in tried
  /\ pc \in {"port", "dial", "exchange", "spinning"} => Target \in Clients
  /\ \A c \in Clients : end[c]["server"].step \in {"launch", "wait", "expired"}
                          => pc = "exchange" /\ Target = c

\* The first pass has left nothing out so far, and the later ones start from a
\* complete one.
PassIsComplete ==
  /\ round = 1 => 1 .. (peer - 1) \subseteq tried
  /\ round > 1 \/ pc = "done" => 1 .. (Machines - 1) \subseteq tried

-----------------------------------------------------------------------------
(* Type correctness.                                                       *)

\* One field of an Exchange at a time.
LEMMA ExchangeUpdates ==
  ASSUME NEW e \in Exchange
  PROVE  /\ \A x \in {"none", "launch", "wait", "expired", "good", "mismatch", "late"} :
              [e EXCEPT !.step = x] \in Exchange
         /\ \A b \in BOOLEAN : [e EXCEPT !.callback = b] \in Exchange
         /\ \A q \in Seq(Hash) : [e EXCEPT !.inbox = q] \in Exchange
         /\ [e EXCEPT !.deaf = TRUE] \in Exchange
BY DEF Exchange

\* Only an assignment to step changes step.
LEMMA ExchangeStepField ==
  ASSUME NEW e \in Exchange
  PROVE  /\ \A x : [e EXCEPT !.step = x].step = x
         /\ \A b : [e EXCEPT !.callback = b].step = e.step
         /\ \A q : [e EXCEPT !.inbox = q].step = e.step
         /\ \A q, b, g : [e EXCEPT !.inbox = q, !.callback = b, !.got = g].step = e.step
BY DEF Exchange

LEMMA AttachType ==
  ASSUME TypeOK, NEW c \in Clients, NEW s \in Ends, Attach(c, s)
  PROVE  /\ attached' \in [Clients -> SUBSET Ends]
         /\ end' \in [Clients -> [Ends -> Exchange]]
<1>1. attached' \in [Clients -> SUBSET Ends]
  BY DEF TypeOK, Attach
<1>2. [end[c][s] EXCEPT !.step = "launch"] \in Exchange
  <2>1. end[c][s] \in Exchange
    BY DEF TypeOK
  <2> QED BY <2>1, ExchangeUpdates
<1>3. end' = [end EXCEPT ![c] = [end[c] EXCEPT ![s] = [end[c][s] EXCEPT !.step = "launch"]]]
  BY DEF Attach
<1>4. end' \in [Clients -> [Ends -> Exchange]]
  BY <1>2, <1>3 DEF TypeOK
<1> QED BY <1>1, <1>4

\* The types of the variables of the handshake proper.
HandshakeTypes ==
  /\ pc \in {"next", "knock", "port", "dial", "exchange", "spinning", "done"}
  /\ peer \in Nat /\ tries \in 0 .. Retries /\ round \in 1 .. MaxRounds
  /\ tried \subseteq Nat
  /\ temp \in {"none", "queued", "accepted", "portSent", "reset"}
  /\ hash \in [Clients \cup {Server} -> Hash]

PartyTypes ==
  /\ client \in [Clients -> {"off", "listening", "reopening", "failed", "chosen",
                             "joining", "up", "terminated"}]
  /\ backlog \in [Clients -> Seq({"server", "stranger"})]
  /\ acceptor \in [Clients -> {"none", "starting", "open", "queued", "closed"}]
  /\ attached \in [Clients -> SUBSET Ends]
  /\ end \in [Clients -> [Ends -> Exchange]]
  /\ via \in [Clients -> Nat]

LEMMA TypeParts == TypeOK <=> ConfigTypeOK /\ HandshakeTypes /\ PartyTypes
BY DEF TypeOK, HandshakeTypes, PartyTypes

LEMMA ServerStepTypes ==
  ASSUME TypeOK, OneAtATime, ServerStep
  PROVE  HandshakeTypes' /\ PartyTypes'
<1> USE TypeParts, HandshakeAssumption
<1>1. CASE NextPeer \/ NextRound \/ NoMoreRounds \/ KnockRefused \/ GiveUp \/ ReadPort
            \/ ReadPortFails \/ DialRefused
  <2>1. PartyTypes'
    BY <1>1 DEF PartyTypes, NextPeer, NextRound, NoMoreRounds, KnockRefused, GiveUp,
                ReadPort, ReadPortFails, DialRefused, clientVars
  <2>2. HandshakeTypes'
    BY <1>1 DEF HandshakeTypes, NextPeer, NextRound, NoMoreRounds, KnockRefused, GiveUp,
                ReadPort, ReadPortFails, DialRefused
  <2> QED BY <2>1, <2>2
<1>2. CASE Knock
  <2>1. backlog' \in [Clients -> Seq({"server", "stranger"})]
    BY <1>2 DEF Knock, Listening, PartyTypes
  <2>2. PartyTypes'
    BY <1>2, <2>1 DEF Knock, PartyTypes
  <2>3. HandshakeTypes'
    BY <1>2 DEF Knock, HandshakeTypes
  <2> QED BY <2>2, <2>3
<1>3. CASE Dial
  <2>1. Target \in Clients /\ peer \in Nat
    BY <1>3 DEF Dial, OneAtATime, TypeOK
  <2>2. attached' \in [Clients -> SUBSET Ends] /\ end' \in [Clients -> [Ends -> Exchange]]
    BY <1>3, <2>1, AttachType DEF Dial, Ends
  <2>3. PartyTypes'
    BY <1>3, <2>1, <2>2 DEF Dial, PartyTypes
  <2>4. HandshakeTypes'
    BY <1>3 DEF Dial, HandshakeTypes
  <2> QED BY <2>3, <2>4
<1> QED BY <1>1, <1>2, <1>3 DEF ServerStep

LEMMA ClientStepTypes ==
  ASSUME TypeOK, NEW c \in Clients,
         \/ Start(c) \/ ListenFails(c) \/ Stranger(c) \/ ClientStep(c)
         \/ OpenAcceptor(c) \/ PortTaken(c)
  PROVE  HandshakeTypes' /\ PartyTypes'
<1> USE TypeParts
<1>1. CASE Start(c) \/ ListenFails(c) \/ Reopen(c) \/ OpenAcceptor(c)
  <2>1. PartyTypes'
    BY <1>1 DEF PartyTypes, Start, ListenFails, Reopen, OpenAcceptor
  <2>2. HandshakeTypes'
    BY <1>1 DEF HandshakeTypes, Start, ListenFails, Reopen, OpenAcceptor, serverVars
  <2> QED BY <2>1, <2>2
<1>2. CASE Stranger(c)
  <2>1. backlog' \in [Clients -> Seq({"server", "stranger"})]
    BY <1>2 DEF Stranger, PartyTypes
  <2> QED BY <1>2, <2>1 DEF Stranger, PartyTypes, HandshakeTypes, serverVars
<1>3. CASE AcceptStranger(c)
  <2>1. backlog' \in [Clients -> Seq({"server", "stranger"})]
    BY <1>3 DEF AcceptStranger, PartyTypes
  <2> QED BY <1>3, <2>1 DEF AcceptStranger, PartyTypes, HandshakeTypes
<1>4. CASE Accept(c)
  <2>1. backlog' \in [Clients -> Seq({"server", "stranger"})]
    BY <1>4 DEF Accept, PartyTypes
  <2> QED BY <1>4, <2>1 DEF Accept, PartyTypes, HandshakeTypes
<1>5. CASE SendPort(c)
  BY <1>5 DEF SendPort, PartyTypes, HandshakeTypes
<1>6. CASE PortTaken(c)
  BY <1>6 DEF PortTaken, PartyTypes, HandshakeTypes
<1>7. CASE EndListen(c)
  <2>1. attached' \in [Clients -> SUBSET Ends] /\ end' \in [Clients -> [Ends -> Exchange]]
    BY <1>7, AttachType DEF EndListen, Ends
  <2> QED BY <1>7, <2>1 DEF EndListen, PartyTypes, HandshakeTypes, serverVars
<1> QED BY <1>1, <1>2, <1>3, <1>4, <1>5, <1>6, <1>7 DEF ClientStep

\* The record of one end is replaced.
Replaced(c, s, e) == end' = [end EXCEPT ![c] = [end[c] EXCEPT ![s] = e]]

LEMMA ReplacedType ==
  ASSUME TypeOK, NEW c \in Clients, NEW s \in Ends, NEW e \in Exchange, Replaced(c, s, e)
  PROVE  /\ end' \in [Clients -> [Ends -> Exchange]]
         /\ end'[c][s] = e
         /\ \A d \in Clients, r \in Ends : d # c \/ r # s => end'[d][r] = end[d][r]
BY DEF TypeOK, Replaced

\* Each step of the exchange replaces the record of one end, but for SendInfo,
\* which also appends to the other one's inbox.
LEMMA ExchangeStepEnds ==
  ASSUME TypeOK, NEW c \in Clients, NEW s \in Ends
  PROVE  /\ RegisterCallback(c, s) => Replaced(c, s, [end[c][s] EXCEPT !.callback = TRUE])
         /\ ReceiveInfo(c, s) =>
              Replaced(c, s, [end[c][s] EXCEPT !.inbox = Tail(@), !.callback = FALSE,
                                               !.got = <<Head(end[c][s].inbox)>>])
         /\ DropInfo(c, s) => Replaced(c, s, [end[c][s] EXCEPT !.inbox = Tail(@)])
         /\ ReadTimeout(c, s) => Replaced(c, s, [end[c][s] EXCEPT !.deaf = TRUE])
         /\ Expire(c, s) => Replaced(c, s, [end[c][s] EXCEPT !.step = "expired"])
         /\ Return(c, s) => Replaced(c, s, [end[c][s] EXCEPT !.step = Verdict(c, s)])
<1>0. end \in [Clients -> [Ends -> Exchange]] /\ end[c][s] \in Exchange
  BY DEF TypeOK
<1>1. RegisterCallback(c, s) => Replaced(c, s, [end[c][s] EXCEPT !.callback = TRUE])
  BY <1>0 DEF RegisterCallback, Replaced
<1>2. ReceiveInfo(c, s) =>
        Replaced(c, s, [end[c][s] EXCEPT !.inbox = Tail(@), !.callback = FALSE,
                                         !.got = <<Head(end[c][s].inbox)>>])
  BY <1>0, ZenonT(60) DEF ReceiveInfo, Replaced, Exchange
<1>3. DropInfo(c, s) => Replaced(c, s, [end[c][s] EXCEPT !.inbox = Tail(@)])
  BY <1>0 DEF DropInfo, Replaced
<1>4. Expire(c, s) => Replaced(c, s, [end[c][s] EXCEPT !.step = "expired"])
  BY <1>0 DEF Expire, Replaced
<1>5. Return(c, s) => Replaced(c, s, [end[c][s] EXCEPT !.step = Verdict(c, s)])
  BY <1>0 DEF Return, Replaced
<1>6. ReadTimeout(c, s) => Replaced(c, s, [end[c][s] EXCEPT !.deaf = TRUE])
  BY <1>0 DEF ReadTimeout, Replaced
<1> QED BY <1>1, <1>2, <1>3, <1>4, <1>5, <1>6

LEMMA SendInfoEnds ==
  ASSUME TypeOK, NEW c \in Clients, NEW s \in Ends, SendInfo(c, s)
  PROVE  LET o == Other(s) IN
           /\ o \in Ends /\ o # s
           /\ end' \in [Clients -> [Ends -> Exchange]]
           /\ end'[c][s] = [end[c][s] EXCEPT !.step = "wait"]
           /\ end'[c][o] = [end[c][o] EXCEPT !.inbox = Append(@, hash[Process(c, s)])]
           /\ \A d \in Clients \ {c} : end'[d] = end[d]
<1> DEFINE o == Other(s)
           es == [end[c][s] EXCEPT !.step = "wait"]
           eo == [end[c][o] EXCEPT !.inbox = Append(@, hash[Process(c, s)])]
<1>1. o \in Ends /\ o # s
  BY DEF Ends, Other
<1>2. end[c][s] \in Exchange /\ end[c][o] \in Exchange
  BY <1>1 DEF TypeOK
<1>3. hash[Process(c, s)] \in Hash
  BY DEF TypeOK, Process, Ends
<1>4. Append(end[c][o].inbox, hash[Process(c, s)]) \in Seq(Hash)
  BY <1>2, <1>3 DEF Exchange
<1>5. es \in Exchange
  BY <1>2, ExchangeUpdates
<1>6. eo \in Exchange
  BY <1>2, <1>4, ExchangeUpdates
<1>7. end' = [end EXCEPT ![c] = [[end[c] EXCEPT ![s] = es] EXCEPT ![o] = eo]]
  BY <1>1 DEF TypeOK, SendInfo
<1> HIDE DEF o, es, eo
<1>8. /\ end' \in [Clients -> [Ends -> Exchange]]
      /\ end'[c][s] = es /\ end'[c][o] = eo
      /\ \A d \in Clients \ {c} : end'[d] = end[d]
  BY <1>1, <1>5, <1>6, <1>7 DEF TypeOK
<1> QED BY <1>1, <1>8 DEF o, es, eo

LEMMA ExchangeStepTypes ==
  ASSUME TypeOK, NEW c \in Clients, NEW s \in Ends,
         CallerStep(c, s) \/ ReceiverStep(c, s) \/ ReadTimeout(c, s) \/ Expire(c, s)
  PROVE  HandshakeTypes' /\ PartyTypes'
<1>0. end[c][s] \in Exchange
  BY DEF TypeOK
<1>1. end' \in [Clients -> [Ends -> Exchange]]
  <2>1. CASE RegisterCallback(c, s)
    <3>1. [end[c][s] EXCEPT !.callback = TRUE] \in Exchange
      BY <1>0, ExchangeUpdates
    <3> QED BY <2>1, <3>1, ExchangeStepEnds, ReplacedType
  <2>2. CASE SendInfo(c, s)
    BY <2>2, SendInfoEnds
  <2>3. CASE ReceiveInfo(c, s)
    <3>1. end[c][s].inbox \in Seq(Hash) /\ end[c][s].inbox # <<>>
      BY <1>0, <2>3 DEF Exchange, ReceiveInfo, Incoming
    <3>2. Tail(end[c][s].inbox) \in Seq(Hash) /\ <<Head(end[c][s].inbox)>> \in Seq(Hash)
      BY <3>1
    <3>3. [end[c][s] EXCEPT !.inbox = Tail(@), !.callback = FALSE,
                            !.got = <<Head(end[c][s].inbox)>>] \in Exchange
      BY <1>0, <3>2 DEF Exchange
    <3> QED BY <2>3, <3>3, ExchangeStepEnds, ReplacedType
  <2>4. CASE DropInfo(c, s)
    <3>1. Tail(end[c][s].inbox) \in Seq(Hash)
      BY <1>0, <2>4 DEF Exchange, DropInfo, Incoming
    <3>2. [end[c][s] EXCEPT !.inbox = Tail(@)] \in Exchange
      BY <1>0, <3>1, ExchangeUpdates
    <3> QED BY <2>4, <3>2, ExchangeStepEnds, ReplacedType
  <2>5. CASE Expire(c, s)
    <3>1. [end[c][s] EXCEPT !.step = "expired"] \in Exchange
      BY <1>0, ExchangeUpdates
    <3> QED BY <2>5, <3>1, ExchangeStepEnds, ReplacedType
  <2>6. CASE Return(c, s)
    <3>1. Verdict(c, s) \in {"late", "good", "mismatch"}
      BY DEF Verdict
    <3>2. [end[c][s] EXCEPT !.step = Verdict(c, s)] \in Exchange
      BY <1>0, <3>1, ExchangeUpdates
    <3> QED BY <2>6, <3>2, ExchangeStepEnds, ReplacedType
  <2>7. CASE ReadTimeout(c, s)
    <3>1. [end[c][s] EXCEPT !.deaf = TRUE] \in Exchange
      BY <1>0, ExchangeUpdates
    <3> QED BY <2>7, <3>1, ExchangeStepEnds, ReplacedType
  <2> QED BY <2>1, <2>2, <2>3, <2>4, <2>5, <2>6, <2>7 DEF CallerStep, ReceiverStep
<1>2. /\ UNCHANGED <<client, backlog, acceptor, attached, via, tries, round, tried, temp, hash>>
      /\ pc' \in {pc, "next"} /\ peer' \in {peer, peer + 1}
  BY DEF CallerStep, ReceiverStep, RegisterCallback, SendInfo, ReceiveInfo, DropInfo,
         ReadTimeout, Expire, Return, clientVars, serverVars
<1> QED BY <1>1, <1>2 DEF TypeOK, HandshakeTypes, PartyTypes

\* What a step of the exchange does to the program counters of the ends.
LEMMA ExchangeProgress ==
  ASSUME TypeOK, NEW c \in Clients, NEW s \in Ends,
         CallerStep(c, s) \/ ReceiverStep(c, s) \/ ReadTimeout(c, s) \/ Expire(c, s)
  PROVE  /\ \A d \in Clients, r \in Ends : d # c \/ r # s => end'[d][r].step = end[d][r].step
         /\ \/ end'[c][s].step = end[c][s].step /\ UNCHANGED <<pc, peer>>
            \/ /\ SendInfo(c, s)
               /\ end[c][s].step = "launch" /\ end'[c][s].step = "wait"
            \/ /\ Expire(c, s)
               /\ end[c][s].step = "wait" /\ end'[c][s].step = "expired"
            \/ /\ Return(c, s)
               /\ end[c][s].step \in {"wait", "expired"} /\ end'[c][s].step = Verdict(c, s)
<1>0. end \in [Clients -> [Ends -> Exchange]] /\ \A d \in Clients, r \in Ends : end[d][r] \in Exchange
  BY DEF TypeOK
<1>1. CASE SendInfo(c, s)
  <2>1. end[c][s].step = "launch"
    BY <1>1 DEF SendInfo
  <2>2. end'[c][s].step = "wait"
    <3>1. end'[c][s] = [end[c][s] EXCEPT !.step = "wait"]
      BY <1>1, SendInfoEnds
    <3> QED BY <1>0, <3>1, ExchangeStepField
  <2>3. ASSUME NEW d \in Clients, NEW r \in Ends, d # c \/ r # s
        PROVE  end'[d][r].step = end[d][r].step
    <3>1. CASE d # c
      BY <1>1, <3>1, SendInfoEnds
    <3>2. CASE d = c
      <4>1. r = Other(s)
        BY <2>3, <3>2 DEF Ends, Other
      <4>2. end'[c][r] = [end[c][r] EXCEPT !.inbox = Append(end[c][r].inbox, hash[Process(c, s)])]
        BY <1>1, <4>1, SendInfoEnds
      <4> QED BY <1>0, <3>2, <4>2, ExchangeStepField
    <3> QED BY <3>1, <3>2
  <2> QED BY <1>1, <2>1, <2>2, <2>3
\* The other steps replace the record of one end.
<1>2. ASSUME NEW e, Replaced(c, s, e)
      PROVE  /\ end'[c][s] = e
             /\ \A d \in Clients, r \in Ends : d # c \/ r # s => end'[d][r] = end[d][r]
  BY <1>0, <1>2 DEF Replaced
<1>3. CASE RegisterCallback(c, s)
  <2> DEFINE e == [end[c][s] EXCEPT !.callback = TRUE]
  <2>1. Replaced(c, s, e)
    BY <1>3, ExchangeStepEnds
  <2>2. e.step = end[c][s].step
    BY <1>0 DEF Exchange
  <2> HIDE DEF e
  <2> QED BY <1>2, <1>3, <2>1, <2>2 DEF RegisterCallback, serverVars
<1>4. CASE ReceiveInfo(c, s)
  <2> DEFINE e == [end[c][s] EXCEPT !.inbox = Tail(@), !.callback = FALSE,
                                    !.got = <<Head(end[c][s].inbox)>>]
  <2>1. Replaced(c, s, e)
    BY <1>4, ExchangeStepEnds
  <2>2. e.step = end[c][s].step
    BY <1>0 DEF Exchange
  <2> HIDE DEF e
  <2> QED BY <1>2, <1>4, <2>1, <2>2 DEF ReceiveInfo, serverVars
<1>5. CASE DropInfo(c, s)
  <2> DEFINE e == [end[c][s] EXCEPT !.inbox = Tail(@)]
  <2>1. Replaced(c, s, e)
    BY <1>5, ExchangeStepEnds
  <2>2. e.step = end[c][s].step
    BY <1>0 DEF Exchange
  <2> HIDE DEF e
  <2> QED BY <1>2, <1>5, <2>1, <2>2 DEF DropInfo, serverVars
<1>6. CASE Expire(c, s)
  <2> DEFINE e == [end[c][s] EXCEPT !.step = "expired"]
  <2>1. Replaced(c, s, e)
    BY <1>6, ExchangeStepEnds
  <2>2. e.step = "expired"
    BY <1>0 DEF Exchange
  <2> HIDE DEF e
  <2> QED BY <1>2, <1>6, <2>1, <2>2 DEF Expire
<1>7. CASE Return(c, s)
  <2> DEFINE e == [end[c][s] EXCEPT !.step = Verdict(c, s)]
  <2>1. Replaced(c, s, e)
    BY <1>7, ExchangeStepEnds
  <2>2. e.step = Verdict(c, s)
    BY <1>0 DEF Exchange
  <2> HIDE DEF e
  <2> QED BY <1>2, <1>7, <2>1, <2>2 DEF Return
<1>8. CASE ReadTimeout(c, s)
  <2> DEFINE e == [end[c][s] EXCEPT !.deaf = TRUE]
  <2>1. Replaced(c, s, e)
    BY <1>8, ExchangeStepEnds
  <2>2. e.step = end[c][s].step
    BY <1>0 DEF Exchange
  <2> HIDE DEF e
  <2> QED BY <1>2, <1>8, <2>1, <2>2 DEF ReadTimeout, serverVars
<1> QED BY <1>1, <1>3, <1>4, <1>5, <1>6, <1>7, <1>8 DEF CallerStep, ReceiverStep

LEMMA AttachEnds ==
  ASSUME TypeOK, NEW c \in Clients, NEW s \in Ends, Attach(c, s)
  PROVE  /\ attached'[c] = attached[c] \cup {s}
         /\ \A d \in Clients \ {c} : attached'[d] = attached[d]
         /\ end'[c][s] = [end[c][s] EXCEPT !.step = "launch"]
         /\ \A d \in Clients, r \in Ends : d # c \/ r # s => end'[d][r] = end[d][r]
BY DEF TypeOK, Attach

-----------------------------------------------------------------------------
(* The server has one machine at a time.                                   *)

LEMMA OneAtATimeStep ==
  ASSUME TypeOK, OneAtATime, Next
  PROVE  OneAtATime'
<1>0. peer \in Nat /\ \A c \in Clients, s \in Ends : end[c][s] \in Exchange
  BY DEF TypeOK
<1>1. CASE ConfigNext /\ UNCHANGED handshakeVars
  <2>1. ctor # "ready"
    BY <1>1 DEF ConfigNext, SkipLine, ParseFails, AddEndpoint, EndOfFile, OwnEndpoint,
                MakeSocket, Constructed
  <2> QED BY <1>1, <2>1 DEF OneAtATime, handshakeVars
<1>2. CASE ServerStep
  <2>1. CASE NextPeer
    BY <2>1 DEF NextPeer, OneAtATime, Target, configVars
  <2>2. CASE NextRound \/ NoMoreRounds
    BY <2>2 DEF NextRound, NoMoreRounds, OneAtATime, Target, configVars
  <2>3. CASE Knock
    BY <2>3 DEF Knock, Listening, OneAtATime, Target, configVars
  <2>4. CASE KnockRefused \/ GiveUp \/ ReadPort \/ ReadPortFails \/ DialRefused
    BY <2>4 DEF KnockRefused, GiveUp, ReadPort, ReadPortFails, DialRefused, OneAtATime, Target,
                configVars
  <2>5. CASE Dial
    <3>1. Target \in Clients /\ peer \in tried /\ ctor = "ready" /\ pc = "dial"
      BY <2>5 DEF Dial, OneAtATime
    <3>2. \A d \in Clients \ {Target} : end'[d]["server"] = end[d]["server"]
      BY <2>5, <3>1, AttachEnds DEF Dial, Ends
    <3>3. Target' = Target
      BY <2>5 DEF Dial, Target, configVars
    <3> QED BY <2>5, <3>1, <3>2, <3>3 DEF Dial, OneAtATime, configVars
  <2> QED BY <1>2, <2>1, <2>2, <2>3, <2>4, <2>5 DEF ServerStep
<1>3. ASSUME NEW c \in Clients,
             \/ Start(c) \/ ListenFails(c) \/ Stranger(c) \/ ClientStep(c)
             \/ OpenAcceptor(c) \/ PortTaken(c)
      PROVE  OneAtATime'
  <2>1. UNCHANGED <<ctor, pc, peer, round, tried, Target>>
    BY <1>3 DEF Start, ListenFails, Stranger, ClientStep, AcceptStranger, Reopen, Accept,
                SendPort, EndListen, OpenAcceptor, PortTaken, configVars, serverVars, Target
  <2>2. \A d \in Clients : end'[d]["server"] = end[d]["server"]
    <3>1. CASE EndListen(c)
      BY <3>1, AttachEnds DEF EndListen, Ends
    <3>2. CASE ~ EndListen(c)
      BY <1>3, <3>2 DEF Start, ListenFails, Stranger, ClientStep, AcceptStranger, Reopen,
                        Accept, SendPort, OpenAcceptor, PortTaken
    <3> QED BY <3>1, <3>2
  <2> QED BY <2>1, <2>2 DEF OneAtATime
<1>4. ASSUME NEW c \in Clients, NEW s \in Ends,
             CallerStep(c, s) \/ ReceiverStep(c, s) \/ ReadTimeout(c, s) \/ Expire(c, s)
      PROVE  OneAtATime'
  <2>1. UNCHANGED <<ctor, round, tried>>
    BY <1>4 DEF CallerStep, ReceiverStep, RegisterCallback, SendInfo, ReceiveInfo, DropInfo,
                ReadTimeout, Expire, Return, configVars, serverVars
  <2>2. CASE Return(c, s) /\ s = "server"
    <3>1. pc = "exchange" /\ Target = c /\ pc' = "next" /\ peer' = peer + 1
      BY <2>2 DEF Return, OneAtATime
    <3>2. end[c][s].step \in {"wait", "expired"} /\ end[c][s].got # <<>>
      BY <2>2 DEF Return
    <3>3. end'[c]["server"].step = Verdict(c, s)
      BY <1>0, <1>4, <2>2, <3>1, <3>2, ExchangeProgress DEF Expire
    <3>4. end'[c]["server"].step \notin {"launch", "wait", "expired"}
      BY <3>3 DEF Verdict
    <3>5. \A d \in Clients \ {c} : end'[d]["server"].step = end[d]["server"].step
      BY <1>4, ExchangeProgress DEF Ends
    <3> QED BY <2>1, <3>1, <3>4, <3>5 DEF OneAtATime
  <2>3. CASE ~ (Return(c, s) /\ s = "server")
    <3>1. UNCHANGED <<pc, peer, Target>>
      BY <1>4, <2>3 DEF CallerStep, ReceiverStep, RegisterCallback, SendInfo, ReceiveInfo,
                        DropInfo, ReadTimeout, Expire, Return, configVars, serverVars, Target
    <3>2. \A d \in Clients : end'[d]["server"].step \in {"launch", "wait", "expired"}
            => end[d]["server"].step \in {"launch", "wait", "expired"}
      BY <1>4, <2>3, ExchangeProgress DEF Ends
    <3> QED BY <2>1, <3>1, <3>2 DEF OneAtATime
  <2> QED BY <2>2, <2>3
<1> QED BY <1>1, <1>2, <1>3, <1>4 DEF Next

LEMMA TypeAndServer == Spec => [](TypeOK /\ OneAtATime)
<1> DEFINE Inv == HandshakeTypes /\ PartyTypes /\ OneAtATime
<1>1. Init => Inv
  <2> SUFFICES ASSUME Init PROVE Inv
    OBVIOUS
  <2> USE HandshakeAssumption
  <2>1. HandshakeTypes
    BY DEF Init, HandshakeTypes
  <2>2. [step |-> "none", callback |-> FALSE, inbox |-> <<>>, got |-> <<>>,
         deaf |-> FALSE] \in Exchange
    BY DEF Exchange
  <2>3. PartyTypes
    BY <2>2 DEF Init, PartyTypes, Server
  <2>4. OneAtATime
    BY DEF Init, OneAtATime, Ends
  <2> QED BY <2>1, <2>3, <2>4
<1>2. ConfigTypeOK /\ Inv /\ [Next]_vars => Inv'
  <2> SUFFICES ASSUME ConfigTypeOK, Inv, [Next]_vars PROVE Inv'
    OBVIOUS
  <2>1. TypeOK
    BY TypeParts
  <2>2. CASE Next
    <3>1. OneAtATime'
      BY <2>1, <2>2, OneAtATimeStep
    <3>2. HandshakeTypes' /\ PartyTypes'
      <4>1. CASE ConfigNext /\ UNCHANGED handshakeVars
        BY <4>1 DEF handshakeVars, HandshakeTypes, PartyTypes
      <4> QED BY <2>1, <2>2, <4>1, ServerStepTypes, ClientStepTypes, ExchangeStepTypes DEF Next
    <3> QED BY <3>1, <3>2
  <2>3. CASE UNCHANGED vars
    BY <2>3 DEF vars, HandshakeTypes, PartyTypes, OneAtATime, Target
  <2> QED BY <2>2, <2>3
<1>3. ConfigInv => ConfigTypeOK
  BY DEF ConfigInv
<1>4. ConfigTypeOK /\ Inv => TypeOK /\ OneAtATime
  BY TypeParts
<1> HIDE DEF Inv
<1> QED BY <1>1, <1>2, <1>3, <1>4, HandshakeKeepsConfig, ConfigInductive, PTL DEF Spec

\* Every variable keeps its type; in particular the server never indexes the
\* state of a client that does not exist.
THEOREM HandshakeTypeCorrect == Spec => []TypeOK
BY TypeAndServer, PTL

-----------------------------------------------------------------------------
(* The constructor of DistFunctionServer leaves no machine out.            *)

LEMMA OneMore ==
  ASSUME NEW p \in Nat, NEW q \in {p, p + 1}
  PROVE  1 .. (q - 1) \subseteq 1 .. (p - 1) \cup {p}
OBVIOUS

LEMMA PassIsCompleteStep ==
  ASSUME TypeOK, OneAtATime, ConfigInv, PassIsComplete, Next
  PROVE  PassIsComplete'
<1>0. peer \in Nat /\ round \in Nat \ {0} /\ Machines \in Nat
  BY HandshakeAssumption, FS_CardinalityType DEF TypeOK, ConfigTypeOK, Machines
<1>1. CASE ConfigNext /\ UNCHANGED handshakeVars
  <2>1. ctor # "ready"
    BY <1>1 DEF ConfigNext, SkipLine, ParseFails, AddEndpoint, EndOfFile, OwnEndpoint,
                MakeSocket, Constructed
  <2> QED BY <1>1, <2>1 DEF OneAtATime, PassIsComplete, handshakeVars
<1>2. CASE NextPeer
  <2>1. tried' = tried \cup {peer} /\ peer' \in {peer, peer + 1} /\ pc' # "done"
        /\ UNCHANGED <<round, endpoints>>
    BY <1>2 DEF NextPeer, configVars
  <2>2. 1 .. (peer' - 1) \subseteq 1 .. (peer - 1) \cup {peer}
    BY <1>0, <2>1, OneMore
  <2>3. round = 1 => 1 .. (peer' - 1) \subseteq tried'
    BY <2>1, <2>2 DEF PassIsComplete
  <2> QED BY <2>1, <2>3 DEF PassIsComplete, Machines
<1>3. CASE NextRound
  <2>1. round' = round + 1 /\ UNCHANGED <<pc, tried, endpoints>> /\ ~ peer < Machines
    BY <1>3 DEF NextRound, MorePeers, Machines, configVars
  <2> QED BY <1>0, <2>1 DEF PassIsComplete, Machines
<1>4. CASE NoMoreRounds
  <2>1. UNCHANGED <<peer, round, tried, endpoints>> /\ ~ peer < Machines
    BY <1>4 DEF NoMoreRounds, MorePeers, Machines, configVars
  <2> QED BY <1>0, <2>1 DEF PassIsComplete, Machines
<1>5. CASE GiveUp
  <2>1. peer \in tried /\ peer' = peer + 1 /\ pc' # "done" /\ UNCHANGED <<round, tried, endpoints>>
    BY <1>5 DEF GiveUp, OneAtATime, configVars
  <2> QED BY <1>0, <2>1 DEF PassIsComplete, Machines
<1>6. CASE Knock \/ KnockRefused \/ ReadPort \/ ReadPortFails \/ Dial \/ DialRefused
  <2>1. pc' # "done" /\ UNCHANGED <<peer, round, tried, endpoints>>
    BY <1>6 DEF Knock, KnockRefused, ReadPort, ReadPortFails, Dial, DialRefused, configVars
  <2> QED BY <2>1 DEF PassIsComplete, Machines
<1>7. ASSUME NEW c \in Clients,
             \/ Start(c) \/ ListenFails(c) \/ Stranger(c) \/ ClientStep(c)
             \/ OpenAcceptor(c) \/ PortTaken(c)
      PROVE  PassIsComplete'
  <2>1. UNCHANGED <<pc, peer, round, tried, endpoints>>
    BY <1>7 DEF Start, ListenFails, Stranger, ClientStep, AcceptStranger, Reopen, Accept,
                SendPort, EndListen, OpenAcceptor, PortTaken, configVars, serverVars
  <2> QED BY <2>1 DEF PassIsComplete, Machines
<1>8. ASSUME NEW c \in Clients, NEW s \in Ends,
             CallerStep(c, s) \/ ReceiverStep(c, s) \/ ReadTimeout(c, s) \/ Expire(c, s)
      PROVE  PassIsComplete'
  <2>1. CASE Return(c, s) /\ s = "server"
    \* The end that returns is the one the server is at.
    <3>1. /\ peer \in tried /\ peer' = peer + 1 /\ pc' # "done"
          /\ UNCHANGED <<round, tried, endpoints>>
      BY <2>1 DEF Return, OneAtATime, configVars
    <3> QED BY <1>0, <3>1 DEF PassIsComplete, Machines
  <2>2. CASE ~ (Return(c, s) /\ s = "server")
    <3>1. UNCHANGED <<pc, peer, round, tried, endpoints>>
      BY <1>8, <2>2 DEF CallerStep, ReceiverStep, RegisterCallback, SendInfo, ReceiveInfo,
                        DropInfo, ReadTimeout, Expire, Return, configVars, serverVars
    <3> QED BY <3>1 DEF PassIsComplete, Machines
  <2> QED BY <2>1, <2>2
<1> QED BY <1>1, <1>2, <1>3, <1>4, <1>5, <1>6, <1>7, <1>8 DEF Next, ServerStep

\* Whatever ids the configuration file names, repeats or leaves out, and whoever
\* is up, the constructor tries every machine there is before the first Train:
\* the ids GetEndpoints shows are exactly those the loop counts through.
THEOREM NoMachineIsLeftOut == Spec => []EveryMachineIsTried
<1>1. Init => PassIsComplete
  BY DEF Init, PassIsComplete
<1>2. TypeOK /\ OneAtATime /\ ConfigInv /\ PassIsComplete /\ [Next]_vars => PassIsComplete'
  <2>1. PassIsComplete /\ UNCHANGED vars => PassIsComplete'
    BY DEF vars, PassIsComplete, Machines
  <2> QED BY <2>1, PassIsCompleteStep
<1>3. OneAtATime /\ ConfigInv /\ PassIsComplete /\ TypeOK => EveryMachineIsTried
  <2> SUFFICES ASSUME OneAtATime, ConfigInv, PassIsComplete, TypeOK,
                      round > 1 \/ pc = "done",
                      NEW id \in DOMAIN endpoints \ {Server}
               PROVE  id \in tried
    BY DEF EveryMachineIsTried
  <2>1. ctor = "ready" /\ 1 .. (Machines - 1) \subseteq tried
    BY DEF OneAtATime, PassIsComplete, TypeOK
  <2>2. id \in Nat /\ id # 0
    BY DEF TypeOK, ConfigTypeOK, Server
  <2>3. id < Machines /\ Machines \in Nat
    BY <2>1, ConfigInvImplies, FS_CardinalityType
       DEF IdsHaveSockets, ConfigInv, TypeOK, ConfigTypeOK, Machines
  <2> QED BY <2>1, <2>2, <2>3
<1> QED BY <1>1, <1>2, <1>3, TypeAndServer, HandshakeKeepsConfig, ConfigInductive, PTL
        DEF Spec

-----------------------------------------------------------------------------
(* Who is at the other end, and what the verdicts say.                     *)

LEMMA EndsMeetStep ==
  ASSUME TypeOK, OneAtATime, EndsMeet, Next
  PROVE  EndsMeet'
<1>0. /\ client \in [Clients -> {"off", "listening", "reopening", "failed", "chosen",
                                  "joining", "up", "terminated"}]
      /\ acceptor \in [Clients -> {"none", "starting", "open", "queued", "closed"}]
  BY DEF TypeOK
<1>1. CASE ConfigNext /\ UNCHANGED handshakeVars
  BY <1>1 DEF handshakeVars, EndsMeet
<1>2. CASE ServerStep
  <2>1. CASE Dial
    <3>1. PICK t : t = Target
      OBVIOUS
    <3>2. t \in Clients /\ Attach(t, "server") /\ "server" \in Ends
      BY <2>1, <3>1 DEF Dial, OneAtATime, Ends
    <3>3. /\ attached'[t] = attached[t] \cup {"server"}
          /\ \A d \in Clients \ {t} : attached'[d] = attached[d] /\ end'[d]["server"] = end[d]["server"]
          /\ \A d \in Clients : end'[d]["client"] = end[d]["client"]
      BY <3>2, AttachEnds DEF Ends
    <3>4. /\ acceptor[t] = "open" /\ acceptor' = [acceptor EXCEPT ![t] = "queued"]
          /\ UNCHANGED client
      BY <2>1, <3>1 DEF Dial
    <3> QED BY <1>0, <3>2, <3>3, <3>4 DEF EndsMeet
  <2>2. CASE ~ Dial
    <3>1. UNCHANGED <<client, acceptor, attached, end>>
      BY <1>2, <2>2 DEF ServerStep, NextPeer, NextRound, NoMoreRounds, Knock, KnockRefused,
                        GiveUp, ReadPort, ReadPortFails, DialRefused, clientVars
    <3> QED BY <3>1 DEF EndsMeet
  <2> QED BY <2>1, <2>2
<1>3. ASSUME NEW c \in Clients,
             \/ Start(c) \/ ListenFails(c) \/ Stranger(c) \/ ClientStep(c)
             \/ OpenAcceptor(c) \/ PortTaken(c)
      PROVE  EndsMeet'
  <2>1. CASE EndListen(c)
    <3>1. /\ attached'[c] = attached[c] \cup {"client"}
          /\ \A d \in Clients \ {c} : attached'[d] = attached[d] /\ end'[d]["client"] = end[d]["client"]
          /\ \A d \in Clients : end'[d]["server"] = end[d]["server"]
      BY <2>1, AttachEnds DEF EndListen, Ends
    <3>2. /\ acceptor[c] = "queued" /\ acceptor' = [acceptor EXCEPT ![c] = "closed"]
          /\ client[c] = "joining" /\ client' = [client EXCEPT ![c] = "up"]
      BY <2>1 DEF EndListen
    <3> QED BY <1>0, <3>1, <3>2 DEF EndsMeet
  <2>2. CASE Start(c) \/ ListenFails(c) \/ AcceptStranger(c) \/ Reopen(c) \/ SendPort(c)
               \/ Stranger(c)
    <3>1. UNCHANGED <<acceptor, attached, end>>
      BY <2>2 DEF Start, ListenFails, AcceptStranger, Reopen, SendPort, Stranger
    <3>2. /\ \A d \in Clients \ {c} : client'[d] = client[d]
          /\ \/ client[c] \in {"off", "listening", "reopening"}
             \/ client'[c] = "joining"
      BY <1>0, <2>2 DEF Start, ListenFails, AcceptStranger, Reopen, SendPort, Stranger
    <3> QED BY <1>0, <3>1, <3>2 DEF EndsMeet
  <2>3. CASE Accept(c) \/ OpenAcceptor(c) \/ PortTaken(c)
    <3>1. UNCHANGED <<attached, end>>
      BY <2>3 DEF Accept, OpenAcceptor, PortTaken
    <3>2. /\ \A d \in Clients \ {c} : acceptor'[d] = acceptor[d] /\ client'[d] = client[d]
          /\ acceptor[c] # "queued" /\ acceptor'[c] # "queued"
          /\ client'[c] \in {"chosen", "terminated"} \/ (acceptor[c] # "none" /\ client' = client)
      <4>1. CASE Accept(c)
        BY <1>0, <4>1 DEF Accept, EndsMeet
      <4>2. CASE OpenAcceptor(c) \/ PortTaken(c)
        BY <1>0, <4>2 DEF OpenAcceptor, PortTaken
      <4> QED BY <2>3, <4>1, <4>2
    <3> QED BY <1>0, <3>1, <3>2 DEF EndsMeet
  <2> QED BY <1>3, <2>1, <2>2, <2>3 DEF ClientStep
<1>4. ASSUME NEW c \in Clients, NEW s \in Ends,
             CallerStep(c, s) \/ ReceiverStep(c, s) \/ ReadTimeout(c, s) \/ Expire(c, s)
      PROVE  EndsMeet'
  <2>1. UNCHANGED <<client, acceptor, attached>>
    BY <1>4 DEF CallerStep, ReceiverStep, RegisterCallback, SendInfo, ReceiveInfo, DropInfo,
                ReadTimeout, Expire, Return, clientVars
  <2>2. \A d \in Clients, r \in Ends : end'[d][r].step # "none" => end[d][r].step # "none"
    BY <1>4, ExchangeProgress
  <2> QED BY <2>1, <2>2 DEF EndsMeet, Ends
<1> QED BY <1>1, <1>2, <1>3, <1>4 DEF Next

\* Nobody waits for a ConnectInfo that can never come: an end that has sent its
\* own has the other end attached, or about to accept the queued connection.
THEOREM BothEndsAreThere == Spec => []NobodyTalksToItself
<1>1. Init => EndsMeet
  BY DEF Init, EndsMeet, Ends
<1>2. TypeOK /\ OneAtATime /\ EndsMeet /\ [Next]_vars => EndsMeet'
  <2>1. EndsMeet /\ UNCHANGED vars => EndsMeet'
    BY DEF vars, EndsMeet
  <2> QED BY <2>1, EndsMeetStep
<1>3. EndsMeet => NobodyTalksToItself
  BY DEF EndsMeet, NobodyTalksToItself, Ends, Other
<1> QED BY <1>1, <1>2, <1>3, TypeAndServer, PTL DEF Spec

\* The fields of one end that say what arrived.
LEMMA ExchangeArrival ==
  ASSUME TypeOK, NEW c \in Clients, NEW s \in Ends,
         CallerStep(c, s) \/ ReceiverStep(c, s) \/ ReadTimeout(c, s) \/ Expire(c, s)
  PROVE  \A d \in Clients, r \in Ends :
           /\ \/ end'[d][r].inbox = end[d][r].inbox
              \/ end[d][r].inbox # <<>> /\ end'[d][r].inbox = Tail(end[d][r].inbox)
              \/ end'[d][r].inbox = Append(end[d][r].inbox, hash[Process(d, Other(r))])
           /\ \/ end'[d][r].got = end[d][r].got
              \/ end[d][r].inbox # <<>> /\ end'[d][r].got = <<Head(end[d][r].inbox)>>
<1>0. end \in [Clients -> [Ends -> Exchange]] /\ \A d \in Clients, r \in Ends : end[d][r] \in Exchange
  BY DEF TypeOK
<1>1. ASSUME SendInfo(c, s), NEW d \in Clients, NEW r \in Ends
      PROVE  /\ \/ end'[d][r].inbox = end[d][r].inbox
                \/ end'[d][r].inbox = Append(end[d][r].inbox, hash[Process(d, Other(r))])
             /\ end'[d][r].got = end[d][r].got
  <2>1. CASE d # c
    BY <1>1, <2>1, SendInfoEnds
  <2>2. CASE d = c /\ r = s
    <3>1. end'[d][r] = [end[d][r] EXCEPT !.step = "wait"]
      BY <1>1, <2>2, SendInfoEnds
    <3> QED BY <1>0, <3>1 DEF Exchange
  <2>3. CASE d = c /\ r # s
    <3>1. r = Other(s) /\ s = Other(r)
      BY <2>3 DEF Ends, Other
    <3>2. end'[c][Other(s)] = [end[c][Other(s)] EXCEPT !.inbox =
                                 Append(end[c][Other(s)].inbox, hash[Process(c, s)])]
      BY <1>1, SendInfoEnds
    <3> DEFINE q == Append(end[d][r].inbox, hash[Process(d, Other(r))])
    <3>3. end'[d][r] = [end[d][r] EXCEPT !.inbox = q]
      BY <2>3, <3>1, <3>2, Zenon
    <3> HIDE DEF q
    <3>4. end'[d][r].inbox = q /\ end'[d][r].got = end[d][r].got
      BY <1>0, <3>3 DEF Exchange
    <3> QED BY <3>4 DEF q
  <2> QED BY <2>1, <2>2, <2>3
\* The other steps replace the record of one end.
<1>2. ASSUME NEW e, Replaced(c, s, e)
      PROVE  /\ end'[c][s] = e
             /\ \A d \in Clients, r \in Ends : d # c \/ r # s => end'[d][r] = end[d][r]
  BY <1>0, <1>2 DEF Replaced
<1>3. CASE RegisterCallback(c, s) \/ ReadTimeout(c, s) \/ Expire(c, s) \/ Return(c, s)
  <2>1. PICK e : Replaced(c, s, e) /\ e \in {[end[c][s] EXCEPT !.callback = TRUE],
                                            [end[c][s] EXCEPT !.deaf = TRUE],
                                            [end[c][s] EXCEPT !.step = "expired"],
                                            [end[c][s] EXCEPT !.step = Verdict(c, s)]}
    BY <1>3, ExchangeStepEnds
  <2>2. e.inbox = end[c][s].inbox /\ e.got = end[c][s].got
    BY <1>0, <2>1 DEF Exchange
  <2> QED BY <1>2, <2>1, <2>2
<1>4. CASE ReceiveInfo(c, s)
  <2> DEFINE e == [end[c][s] EXCEPT !.inbox = Tail(@), !.callback = FALSE,
                                    !.got = <<Head(end[c][s].inbox)>>]
  <2>1. Replaced(c, s, e) /\ end[c][s].inbox # <<>>
    BY <1>4, ExchangeStepEnds DEF ReceiveInfo, Incoming
  <2>2. e.inbox = Tail(end[c][s].inbox) /\ e.got = <<Head(end[c][s].inbox)>>
    BY <1>0 DEF Exchange
  <2> HIDE DEF e
  <2> QED BY <1>2, <2>1, <2>2
<1>5. CASE DropInfo(c, s)
  <2> DEFINE e == [end[c][s] EXCEPT !.inbox = Tail(@)]
  <2>1. Replaced(c, s, e) /\ end[c][s].inbox # <<>>
    BY <1>5, ExchangeStepEnds DEF DropInfo, Incoming
  <2>2. e.inbox = Tail(end[c][s].inbox) /\ e.got = end[c][s].got
    BY <1>0 DEF Exchange
  <2> HIDE DEF e
  <2> QED BY <1>2, <2>1, <2>2
<1> QED BY <1>1, <1>3, <1>4, <1>5 DEF CallerStep, ReceiverStep

\* A stream of one hash stays one.
LEMMA OneHash ==
  ASSUME NEW h, NEW q \in Seq({h})
  PROVE  /\ Append(q, h) \in Seq({h})
         /\ q # <<>> => Tail(q) \in Seq({h}) /\ Head(q) = h
<1>1. q # <<>> => Head(q) \in {h} /\ Tail(q) \in Seq({h})
  OBVIOUS
<1> QED BY <1>1

\* The program counters and fields of ends that a step outside the exchange
\* leaves alone: it only ever launches one.
LEMMA OtherStepsKeepEnds ==
  ASSUME TypeOK, OneAtATime,
         \/ ConfigNext /\ UNCHANGED handshakeVars
         \/ ServerStep
         \/ \E c \in Clients : Start(c) \/ ListenFails(c) \/ Stranger(c) \/ ClientStep(c)
                                 \/ OpenAcceptor(c) \/ PortTaken(c)
         \/ UNCHANGED vars
  PROVE  /\ hash' = hash
         /\ \A d \in Clients, r \in Ends :
              /\ end'[d][r].inbox = end[d][r].inbox /\ end'[d][r].got = end[d][r].got
              /\ end'[d][r].step \in {end[d][r].step, "launch"}
<1>0. \A d \in Clients, r \in Ends : end[d][r] \in Exchange
  BY DEF TypeOK
<1>1. ASSUME NEW c \in Clients, NEW s \in Ends, Attach(c, s), NEW d \in Clients, NEW r \in Ends
      PROVE  /\ end'[d][r].inbox = end[d][r].inbox /\ end'[d][r].got = end[d][r].got
             /\ end'[d][r].step \in {end[d][r].step, "launch"}
  <2>1. end'[d][r] \in {end[d][r], [end[d][r] EXCEPT !.step = "launch"]}
    <3>1. /\ end'[c][s] = [end[c][s] EXCEPT !.step = "launch"]
          /\ d # c \/ r # s => end'[d][r] = end[d][r]
      BY <1>1, AttachEnds
    <3>2. CASE d = c /\ r = s
      BY <3>1, <3>2
    <3>3. CASE d # c \/ r # s
      BY <3>1, <3>3
    <3> QED BY <3>2, <3>3
  <2> QED BY <1>0, <2>1 DEF Exchange
<1>2. CASE Dial
  <2>1. Target \in Clients /\ Attach(Target, "server") /\ "server" \in Ends
    BY <1>2 DEF Dial, OneAtATime, Ends
  <2>2. hash' = hash
    BY <1>2 DEF Dial
  <2> QED BY <1>1, <2>1, <2>2
<1>3. ASSUME NEW c \in Clients, EndListen(c)
      PROVE  /\ hash' = hash /\ Attach(c, "client") /\ "client" \in Ends
  BY <1>3 DEF EndListen, Ends
<1>4. CASE ~ Dial /\ ~ \E c \in Clients : EndListen(c)
  <2>1. end' = end /\ hash' = hash
    <3>1. CASE (ConfigNext /\ UNCHANGED handshakeVars) \/ UNCHANGED vars
      BY <3>1 DEF handshakeVars, vars
    <3>2. CASE ServerStep
      BY <1>4, <3>2 DEF ServerStep, NextPeer, NextRound, NoMoreRounds, Knock, KnockRefused,
                        GiveUp, ReadPort, ReadPortFails, DialRefused
    <3>3. CASE \E c \in Clients : Start(c) \/ ListenFails(c) \/ Stranger(c) \/ ClientStep(c)
                                   \/ OpenAcceptor(c) \/ PortTaken(c)
      BY <1>4, <3>3 DEF Start, ListenFails, Stranger, ClientStep, AcceptStranger, Reopen,
                        Accept, SendPort, OpenAcceptor, PortTaken
    <3> QED BY <3>1, <3>2, <3>3
  <2> QED BY <2>1
<1> QED BY <1>1, <1>2, <1>3, <1>4

VerdictInv == HashesArrive /\ VerdictsAreTrue

LEMMA VerdictStep ==
  ASSUME TypeOK, OneAtATime, VerdictInv, [Next]_vars
  PROVE  VerdictInv'
<1>1. CASE \/ ConfigNext /\ UNCHANGED handshakeVars
           \/ ServerStep
           \/ \E c \in Clients : Start(c) \/ ListenFails(c) \/ Stranger(c) \/ ClientStep(c)
                                   \/ OpenAcceptor(c) \/ PortTaken(c)
           \/ UNCHANGED vars
  <2>1. /\ hash' = hash
        /\ \A d \in Clients, r \in Ends :
             /\ end'[d][r].inbox = end[d][r].inbox /\ end'[d][r].got = end[d][r].got
             /\ end'[d][r].step \in {end[d][r].step, "launch"}
    BY <1>1, OtherStepsKeepEnds
  <2>2. HashesArrive'
    BY <2>1 DEF VerdictInv, HashesArrive, Process
  <2>3. VerdictsAreTrue'
    BY <2>1 DEF VerdictInv, VerdictsAreTrue
  <2> QED BY <2>2, <2>3 DEF VerdictInv
<1>2. ASSUME NEW c \in Clients, NEW s \in Ends,
             CallerStep(c, s) \/ ReceiverStep(c, s) \/ ReadTimeout(c, s) \/ Expire(c, s)
      PROVE  VerdictInv'
  <2>1. hash' = hash
    BY <1>2 DEF CallerStep, ReceiverStep, RegisterCallback, SendInfo, ReceiveInfo, DropInfo,
                ReadTimeout, Expire, Return
  <2>2. HashesArrive'
    <3> SUFFICES ASSUME NEW d \in Clients, NEW r \in Ends
                 PROVE  /\ end'[d][r].inbox \in Seq({hash[Process(d, Other(r))]})
                        /\ end'[d][r].got \in {<<>>, <<hash[Process(d, Other(r))]>>}
      BY <2>1 DEF HashesArrive, Process
    <3> DEFINE theirs == hash[Process(d, Other(r))]
    <3> HIDE DEF theirs
    <3>1. end[d][r].inbox \in Seq({theirs}) /\ end[d][r].got \in {<<>>, <<theirs>>}
      BY DEF VerdictInv, HashesArrive, theirs
    <3>2. end'[d][r].inbox \in Seq({theirs}) /\ end'[d][r].got \in {<<>>, <<theirs>>}
      BY <1>2, <3>1, OneHash, ExchangeArrival DEF theirs
    <3> QED BY <3>2 DEF theirs
  <2>3. VerdictsAreTrue'
    <3> SUFFICES ASSUME NEW d \in Clients, NEW r \in Ends
                 PROVE  /\ end'[d][r].step = "good" => hash[d] = hash[Server]
                        /\ end'[d][r].step = "mismatch" => hash[d] # hash[Server]
      BY <2>1 DEF VerdictsAreTrue
    <3>1. CASE end'[d][r].step \in {end[d][r].step, "wait", "expired", "late"}
      BY <3>1 DEF VerdictInv, VerdictsAreTrue
    <3>2. CASE /\ d = c /\ r = s /\ Return(c, s)
               /\ end'[c][s].step = Verdict(c, s) /\ Verdict(c, s) # "late"
      \* What the end has got is the other one's hash, and it has got something.
      <4>1. end[c][s].got = <<hash[Process(c, Other(s))]>>
        BY <3>2 DEF Return, VerdictInv, HashesArrive
      <4>2. \/ Verdict(c, s) = "good" /\ end[c][s].got = <<hash[Process(c, s)]>>
            \/ Verdict(c, s) = "mismatch" /\ end[c][s].got # <<hash[Process(c, s)]>>
        BY <3>2 DEF Verdict
      <4>3. \/ Verdict(c, s) = "good" /\ hash[Process(c, Other(s))] = hash[Process(c, s)]
            \/ Verdict(c, s) = "mismatch" /\ hash[Process(c, Other(s))] # hash[Process(c, s)]
        BY <4>1, <4>2
      <4> QED BY <3>2, <4>3 DEF Process, Other, Ends
    <3> QED BY <1>2, <3>1, <3>2, ExchangeProgress
  <2> QED BY <2>2, <2>3 DEF VerdictInv
<1> QED BY <1>1, <1>2 DEF Next

\* The two ends of a connection never disagree on whether they may train
\* together: an end is content only with a peer of the same configuration hash,
\* and then the other end, if it was answered in time, is content as well.
THEOREM VerdictsNeverDisagree == Spec => []VerdictsAgree
<1>1. Init => VerdictInv
  <2> SUFFICES ASSUME Init PROVE VerdictInv
    OBVIOUS
  <2>1. \A c \in Clients, s \in Ends :
          /\ end[c][s].step = "none"
          /\ end[c][s].inbox = <<>> /\ end[c][s].got = <<>>
    BY DEF Init
  <2>2. \A h : <<>> \in Seq({h})
    OBVIOUS
  <2>3. HashesArrive
    BY <2>1, <2>2 DEF HashesArrive
  <2>4. VerdictsAreTrue
    BY <2>1 DEF VerdictsAreTrue
  <2> QED BY <2>3, <2>4 DEF VerdictInv
<1>2. TypeOK /\ OneAtATime /\ VerdictInv /\ [Next]_vars => VerdictInv'
  BY VerdictStep
<1>3. VerdictInv => VerdictsAgree
  BY DEF VerdictInv, VerdictsAreTrue, VerdictsAgree, Ends, Other
<1> QED BY <1>1, <1>2, <1>3, TypeAndServer, PTL DEF Spec
=============================================================================
