------------------------------ MODULE Handshake ------------------------------
(***************************************************************************)
(* How the server and its clients get connected: Socket::Listen, AcceptFrom *)
(* and Connect (Common/socket_impl.hpp), RemoteClient::Connect, and the    *)
(* calls of it by DistFunctionServer and AsyncClientIterator::TryConnect.   *)
(*                                                                         *)
(* The server knocks at a client's well-known port, is told a new port and *)
(* dials that.  Then both ends exchange a ConnectInfo with the hash of their *)
(* configuration.  Nothing tells the server that the second acceptor is    *)
(* open, nor that the client's callback is registered; and an end that has *)
(* read for five seconds without a byte loses what comes then (see Socket). *)
(*                                                                         *)
(* The server tries one machine after the other, so it has one temporary   *)
(* connection.                                                             *)
(***************************************************************************)
EXTENDS NetworkConfig

CONSTANTS
  Clients,    \* ids of the client processes
  ConfStr,    \* the configuration of each process, a sequence of bytes
  StepWidth,  \* sizeof(uint32_t)
  Retries,    \* attempts of Socket::Connect
  MaxRounds,  \* passes over the clients: the constructor, then each Train
  Surprises   \* what may go wrong

\* The second acceptor opens more than 10 ms late; the callback is registered after
\* the answer has come; a ConnectInfo takes more than 5 s; the receiver's 5 s start
\* later than the caller's; another address connects; another process binds a port.
AllSurprises == {"slowAcceptor", "slowCallback", "slowInfo", "slowReceiver", "stranger",
                 "portTaken"}

Server == 0
Ends == {"server", "client"}
Char == {0, 1}

ASSUME HandshakeAssumption ==
  /\ Clients \subseteq Nat \ {Server} /\ IsFiniteSet(Clients)
  /\ ConfStr \in [Clients \cup {Server} -> Seq(Char)]
  /\ {StepWidth, Retries, MaxRounds} \subseteq Nat \ {0}
  /\ Surprises \subseteq AllSurprises

VARIABLES
  hash,      \* CONFIG_HASH of each process
  pc,        \* the server: "next", "knock", "port", "dial", "exchange",
             \* "spinning", "done"
  peer,      \* the id it is at
  tries,     \* attempts it has left
  round,
  tried,     \* ids it has tried in its constructor
  temp,      \* its connection to a well-known port: "none", "queued",
             \* "accepted", "portSent", "reset"
  client,    \* "off", "listening", "reopening", "failed", "chosen", "joining",
             \* "up", "terminated"
  backlog,   \* connections to a well-known port that are not accepted yet
  acceptor,  \* the second one: "none", "starting", "open", "queued", "closed"
  attached,  \* the ends of a connection whose _socket is set
  via,       \* the id under which the server has connected to each client
  end        \* the exchange, per connection and end

serverVars == <<pc, peer, tries, round, tried, temp>>
clientVars == <<client, backlog, acceptor>>
handshakeVars == <<hash, pc, peer, tries, round, tried, temp, client, backlog,
                   acceptor, attached, via, end>>
vars == <<lines, endpoints, sockets, ctor, hash, pc, peer, tries, round, tried,
          temp, client, backlog, acceptor, attached, via, end>>

Hash == [0 .. (StepWidth - 1) -> Char]
Exchange == [step : {"none", "launch", "wait", "expired", "good", "mismatch", "late"},
             callback : BOOLEAN, inbox : Seq(Hash), got : Seq(Hash), deaf : BOOLEAN]

TypeOK ==
  /\ ConfigTypeOK
  /\ hash \in [Clients \cup {Server} -> Hash]
  /\ pc \in {"next", "knock", "port", "dial", "exchange", "spinning", "done"}
  /\ peer \in Nat /\ tries \in 0 .. Retries /\ round \in 1 .. MaxRounds
  /\ tried \subseteq Nat
  /\ temp \in {"none", "queued", "accepted", "portSent", "reset"}
  /\ client \in [Clients -> {"off", "listening", "reopening", "failed", "chosen",
                             "joining", "up", "terminated"}]
  /\ backlog \in [Clients -> Seq({"server", "stranger"})]
  /\ acceptor \in [Clients -> {"none", "starting", "open", "queued", "closed"}]
  /\ attached \in [Clients -> SUBSET Ends]
  /\ via \in [Clients -> Nat]
  /\ end \in [Clients -> [Ends -> Exchange]]

\* The values GetConfigHash may return for a string.  It reads at
\* i * numSteps + j, past the end if there are more than StepWidth steps: what it
\* finds there is arbitrary, but for the terminator.
GetConfigHash(str) ==
  LET numSteps == (Len(str) + StepWidth - 1) \div StepWidth
      chars == str \o [k \in 1 .. (numSteps * StepWidth - Len(str)) |-> 1] \o <<0>>
      Index(i, j) == i * numSteps + j + 1
      Ones(j) == {i \in 0 .. (numSteps - 1) : chars[Index(i, j)] = 1}
  IN {h \in Hash : \A j \in DOMAIN h :
        (\A i \in 0 .. (numSteps - 1) : Index(i, j) \leq Len(chars))
          => h[j] = Cardinality(Ones(j)) % 2}

Init ==
  /\ ConfigInit
  /\ hash \in [Clients \cup {Server} -> Hash]
  /\ \A p \in DOMAIN hash : hash[p] \in GetConfigHash(ConfStr[p])
  /\ pc = "next" /\ peer = 1 /\ tries = 0 /\ round = 1 /\ tried = {}
  /\ temp = "none"
  /\ client = [c \in Clients |-> "off"]
  /\ backlog = [c \in Clients |-> <<>>]
  /\ acceptor = [c \in Clients |-> "none"]
  /\ attached = [c \in Clients |-> {}]
  /\ end = [c \in Clients |-> [s \in Ends |->
              [step |-> "none", callback |-> FALSE, inbox |-> <<>>, got |-> <<>>,
               deaf |-> FALSE]]]
  /\ via = [c \in Clients |-> Server]

\* IsConnected is true from now on; the receiver thread is started, SendAwaitable
\* launches its waiter.
Attach(c, s) ==
  /\ attached' = [attached EXCEPT ![c] = @ \cup {s}]
  /\ end' = [end EXCEPT ![c][s].step = "launch"]

-----------------------------------------------------------------------------
(* The server: the constructor of DistFunctionServer, then TryConnect.     *)

IsConnected(id) == \E c \in Clients : "server" \in attached[c] /\ via[c] = id

\* Mutant: every machine but the last.
MorePeers_SkipsLast == peer < Cardinality(DOMAIN endpoints) - 1

\* for (size_t i = 1; i < endpoints.size(); i++)
MorePeers == peer < Cardinality(DOMAIN endpoints)

NextPeer ==
  /\ ctor = "ready" /\ pc = "next"
  /\ MorePeers
  /\ tried' = tried \cup {peer}
  /\ IF IsConnected(peer) THEN peer' = peer + 1 /\ UNCHANGED <<pc, tries>>
                          ELSE pc' = "knock" /\ tries' = Retries /\ UNCHANGED peer
  /\ UNCHANGED <<configVars, hash, round, temp, clientVars, attached, via, end>>

\* The next Train calls TryConnect.
NextRound ==
  /\ ctor = "ready" /\ pc = "next"
  /\ ~ MorePeers /\ round < MaxRounds
  /\ round' = round + 1
  /\ peer' = 1
  /\ UNCHANGED <<configVars, hash, pc, tries, tried, temp, clientVars, attached, via,
                 end>>

NoMoreRounds ==
  /\ ctor = "ready" /\ pc = "next"
  /\ ~ MorePeers /\ round = MaxRounds
  /\ pc' = "done"
  /\ UNCHANGED <<configVars, hash, peer, tries, round, tried, temp, clientVars,
                 attached, via, end>>

\* The machine that the socket of peer leads to, if it leads to one.
Target == sockets[peer + 1]
Listening == Target \in Clients /\ client[Target] = "listening"

\* The client's kernel takes the connection; it is not accepted yet.
Knock ==
  /\ pc = "knock" /\ tries > 0
  /\ Listening
  /\ tries' = tries - 1
  /\ temp' = "queued"
  /\ backlog' = [backlog EXCEPT ![Target] = Append(@, "server")]
  /\ pc' = "port"
  /\ UNCHANGED <<configVars, hash, peer, round, tried, client, acceptor, attached, via,
                 end>>

\* Mutant: the counter is tested after it has been decremented.
KnockRefused_Late ==
  /\ pc = "knock" /\ tries > -1
  /\ ~ Listening
  /\ tries' = tries - 1
  /\ UNCHANGED <<configVars, hash, pc, peer, round, tried, temp, clientVars, attached,
                 via, end>>

KnockRefused ==
  /\ pc = "knock" /\ tries > 0
  /\ ~ Listening
  /\ tries' = tries - 1
  /\ UNCHANGED <<configVars, hash, pc, peer, round, tried, temp, clientVars, attached,
                 via, end>>

\* Connect returns false.
GiveUp ==
  /\ pc = "knock" /\ tries = 0
  /\ pc' = "next"
  /\ peer' = peer + 1
  /\ UNCHANGED <<configVars, hash, tries, round, tried, temp, clientVars, attached, via,
                 end>>

ReadPort ==
  /\ pc = "port" /\ temp = "portSent"
  /\ temp' = "none"
  /\ pc' = "dial"
  /\ UNCHANGED <<configVars, hash, peer, tries, round, tried, clientVars, attached, via,
                 end>>

\* SocketRecieve clears the error and reads again, for ever (see Socket).
ReadPortFails ==
  /\ pc = "port" /\ temp = "reset"
  /\ pc' = "spinning"
  /\ UNCHANGED <<configVars, hash, peer, tries, round, tried, temp, clientVars,
                 attached, via, end>>

Dial ==
  /\ pc = "dial"
  /\ acceptor[Target] = "open"
  /\ acceptor' = [acceptor EXCEPT ![Target] = "queued"]
  /\ Attach(Target, "server")
  /\ via' = [via EXCEPT ![Target] = peer]
  /\ pc' = "exchange"
  /\ UNCHANGED <<configVars, hash, peer, tries, round, tried, temp, client, backlog>>

DialRefused ==
  /\ pc = "dial"
  /\ acceptor[Target] # "open"
  /\ pc' = "knock"
  /\ UNCHANGED <<configVars, hash, peer, tries, round, tried, temp, clientVars, attached,
                 via, end>>

-----------------------------------------------------------------------------
(* A client in Listen.                                                     *)

\* The application creates the RemoteClient of its server.
Start(c) ==
  /\ client[c] = "off"
  /\ client' = [client EXCEPT ![c] = "listening"]
  /\ UNCHANGED <<configVars, hash, serverVars, backlog, acceptor, attached, via, end>>

\* A connection from another address.
Stranger(c) ==
  /\ "stranger" \in Surprises
  /\ client[c] = "listening"
  /\ \A k \in DOMAIN backlog[c] : backlog[c][k] # "stranger"
  /\ backlog' = [backlog EXCEPT ![c] = Append(@, "stranger")]
  /\ UNCHANGED <<configVars, hash, serverVars, client, acceptor, attached, via, end>>

\* AcceptFrom: a stranger's connection is dropped, and with it the acceptor and
\* the connections that wait there.
AcceptStranger(c) ==
  /\ client[c] = "listening" /\ backlog[c] # <<>>
  /\ Head(backlog[c]) = "stranger"
  /\ client' = [client EXCEPT ![c] = "reopening"]
  /\ backlog' = [backlog EXCEPT ![c] = <<>>]
  /\ temp' = IF Len(backlog[c]) > 1 THEN "reset" ELSE temp
  /\ UNCHANGED <<configVars, hash, pc, peer, tries, round, tried, acceptor, attached, via, end>>

Reopen(c) ==
  /\ client[c] = "reopening"
  /\ client' = [client EXCEPT ![c] = "listening"]
  /\ UNCHANGED <<configVars, hash, serverVars, backlog, acceptor, attached, via, end>>

\* Another process has the port: AcceptFrom throws and Listen returns false.
ListenFails(c) ==
  /\ "portTaken" \in Surprises
  /\ client[c] \in {"off", "reopening"}
  /\ client' = [client EXCEPT ![c] = "failed"]
  /\ UNCHANGED <<configVars, hash, serverVars, backlog, acceptor, attached, via, end>>

\* AcceptFrom returns; Listen picks a free port and starts acceptThread.
Accept(c) ==
  /\ client[c] = "listening" /\ backlog[c] # <<>>
  /\ Head(backlog[c]) = "server"
  /\ client' = [client EXCEPT ![c] = "chosen"]
  /\ backlog' = [backlog EXCEPT ![c] = <<>>]
  /\ acceptor' = [acceptor EXCEPT ![c] = "starting"]
  /\ temp' = "accepted"
  /\ UNCHANGED <<configVars, hash, pc, peer, tries, round, tried, attached, via, end>>

OpenAcceptor(c) ==
  /\ acceptor[c] = "starting"
  /\ acceptor' = [acceptor EXCEPT ![c] = "open"]
  /\ UNCHANGED <<configVars, hash, serverVars, client, backlog, attached, via, end>>

\* The port was given back before acceptThread binds it: AcceptFrom throws there.
PortTaken(c) ==
  /\ "portTaken" \in Surprises
  /\ acceptor[c] = "starting"
  /\ acceptor' = [acceptor EXCEPT ![c] = "closed"]
  /\ client' = [client EXCEPT ![c] = "terminated"]
  /\ temp' = IF client[c] = "chosen" THEN "reset" ELSE temp
  /\ UNCHANGED <<configVars, hash, pc, peer, tries, round, tried, backlog, attached, via, end>>

\* Ten milliseconds have passed.
SendPort(c) ==
  /\ client[c] = "chosen"
  /\ acceptor[c] = "open" \/ "slowAcceptor" \in Surprises
  /\ temp' = "portSent"
  /\ client' = [client EXCEPT ![c] = "joining"]
  /\ UNCHANGED <<configVars, hash, pc, peer, tries, round, tried, backlog, acceptor,
                 attached, via, end>>

\* Mutant: acceptThread is detached.
EndListen_Detached(c) ==
  /\ client[c] = "joining"
  /\ client' = [client EXCEPT ![c] = "up"]
  /\ acceptor' = [acceptor EXCEPT ![c] = "closed"]
  /\ Attach(c, "client")
  /\ UNCHANGED <<configVars, hash, serverVars, backlog, via>>

\* The second connection is accepted and acceptThread joined.
EndListen(c) ==
  /\ client[c] = "joining" /\ acceptor[c] = "queued"
  /\ client' = [client EXCEPT ![c] = "up"]
  /\ acceptor' = [acceptor EXCEPT ![c] = "closed"]
  /\ Attach(c, "client")
  /\ UNCHANGED <<configVars, hash, serverVars, backlog, via>>

-----------------------------------------------------------------------------
(* The exchange of ConnectInfo, the same code at both ends.  Both messages  *)
(* have id 0 and responseTo 0: each is the response to the other.           *)

Other(s) == IF s = "server" THEN "client" ELSE "server"
Process(c, s) == IF s = "server" THEN Server ELSE c

RegisterCallback(c, s) ==
  /\ end[c][s].step = "launch" /\ ~ end[c][s].callback /\ end[c][s].got = <<>>
  /\ end' = [end EXCEPT ![c][s].callback = TRUE]
  /\ UNCHANGED <<configVars, hash, serverVars, clientVars, attached, via>>

SendInfo(c, s) ==
  /\ end[c][s].step = "launch" /\ (end[c][s].callback \/ end[c][s].got # <<>>)
  /\ end' = [end EXCEPT ![c][s].step = "wait",
                        ![c][Other(s)].inbox = Append(@, hash[Process(c, s)])]
  /\ UNCHANGED <<configVars, hash, serverVars, clientVars, attached, via>>

\* What the receiver thread reads next.  The server looks for a callback under the
\* sender's own id, and has registered it under the id of its endpoint.
Incoming(c, s) == s \in attached[c] /\ end[c][s].inbox # <<>> /\ ~ end[c][s].deaf
Found(c, s) == end[c][s].callback /\ (s = "server" => via[c] = c)

\* The receiver thread runs the callback, which answers true and is erased.
ReceiveInfo(c, s) ==
  /\ Incoming(c, s) /\ Found(c, s)
  /\ end' = [end EXCEPT ![c][s].inbox = Tail(@), ![c][s].callback = FALSE,
                        ![c][s].got = <<Head(end[c][s].inbox)>>]
  /\ UNCHANGED <<configVars, hash, serverVars, clientVars, attached, via>>

\* There is no callback yet, or none under this id.  (A registration at the same
\* time may also lose the message, or itself: either way nobody will answer the
\* waiter.)
DropInfo(c, s) ==
  /\ Incoming(c, s) /\ ~ Found(c, s)
  /\ end[c][s].callback \/ "slowCallback" \in Surprises
  /\ end' = [end EXCEPT ![c][s].inbox = Tail(@)]
  /\ UNCHANGED <<configVars, hash, serverVars, clientVars, attached, via>>

\* Five seconds without a byte, as what was sent has been dropped or takes longer.
\* The read goes on, but its bytes will not be counted: without its beginning the
\* ConnectInfo is not decoded (see Socket).
ReadTimeout(c, s) ==
  /\ s \in attached[c] /\ end[c][s].inbox = <<>> /\ end[c][s].got = <<>>
  /\ end[c][Other(s)].step \notin {"none", "launch"} \/ "slowInfo" \in Surprises
  /\ end' = [end EXCEPT ![c][s].deaf = TRUE]
  /\ UNCHANGED <<configVars, hash, serverVars, clientVars, attached, via>>

\* wait_for(5 s) gives up; the future still has to be destroyed.  The receiver has
\* begun to read before the wait: it has given up too, or has the bytes.
Expire(c, s) ==
  /\ end[c][s].step = "wait" /\ end[c][s].got = <<>>
  /\ \/ end[c][s].deaf \/ end[c][s].inbox # <<>>
     \/ "slowReceiver" \in Surprises
  /\ end' = [end EXCEPT ![c][s].step = "expired"]
  /\ UNCHANGED <<configVars, hash, serverVars, clientVars, attached, via>>

\* Mutant: the response is not looked at.
Verdict_Unchecked(c, s) == IF end[c][s].step = "expired" THEN "late" ELSE "good"

Verdict(c, s) ==
  CASE end[c][s].step = "expired" -> "late"
    [] end[c][s].got = <<hash[Process(c, s)]>> -> "good"
    [] OTHER -> "mismatch"

\* RemoteClient::Connect returns, true if the verdict is "good"; neither caller
\* looks at that.
Return(c, s) ==
  /\ end[c][s].step \in {"wait", "expired"} /\ end[c][s].got # <<>>
  /\ end' = [end EXCEPT ![c][s].step = Verdict(c, s)]
  /\ IF s = "server" THEN pc' = "next" /\ peer' = peer + 1 ELSE UNCHANGED <<pc, peer>>
  /\ UNCHANGED <<configVars, hash, tries, round, tried, temp, clientVars, attached,
                 via>>

-----------------------------------------------------------------------------
ServerStep == NextPeer \/ NextRound \/ NoMoreRounds \/ Knock \/ KnockRefused \/ GiveUp
                \/ ReadPort \/ ReadPortFails \/ Dial \/ DialRefused
ClientStep(c) == AcceptStranger(c) \/ Reopen(c) \/ Accept(c) \/ SendPort(c) \/ EndListen(c)
CallerStep(c, s) == RegisterCallback(c, s) \/ SendInfo(c, s) \/ Return(c, s)
ReceiverStep(c, s) == ReceiveInfo(c, s) \/ DropInfo(c, s)

Next ==
  \/ ConfigNext /\ UNCHANGED handshakeVars
  \/ ServerStep
  \/ \E c \in Clients : Start(c) \/ ListenFails(c) \/ Stranger(c) \/ ClientStep(c)
                          \/ OpenAcceptor(c) \/ PortTaken(c)
  \/ \E c \in Clients, s \in Ends : CallerStep(c, s) \/ ReceiverStep(c, s) \/ ReadTimeout(c, s)
                                  \/ Expire(c, s)

Spec == Init /\ [][Next]_vars

\* Threads that can run do so.  Nothing makes an application start a client, a
\* stranger call, a port be taken, a read or a wait run out of time.
FairSpec ==
  /\ Spec
  /\ WF_vars(ConfigNext /\ UNCHANGED handshakeVars) /\ WF_vars(ServerStep)
  /\ \A c \in Clients : WF_vars(ClientStep(c)) /\ WF_vars(OpenAcceptor(c))
  /\ \A c \in Clients, s \in Ends : WF_vars(CallerStep(c, s)) /\ WF_vars(ReceiverStep(c, s))

-----------------------------------------------------------------------------
(* Properties.                                                             *)

\* The constructor of DistFunctionServer leaves no machine out, whatever ids the
\* file names or leaves out.
EveryMachineIsTried ==
  round > 1 \/ pc = "done" => DOMAIN endpoints \ {Server} \subseteq tried

\* An end that has sent its ConnectInfo has a peer: the other end has its socket,
\* or is about to accept the connection.
NobodyTalksToItself ==
  \A c \in Clients, s \in Ends :
    end[c][s].step \notin {"none", "launch"} =>
      Other(s) \in attached[c] \/ (s = "server" /\ acceptor[c] = "queued")

\* If both ends have compared the hashes in time, they agree; and an end is
\* content only if the hash it computed itself is that of the other.
VerdictsAgree ==
  \A c \in Clients, s \in Ends :
    end[c][s].step = "good" =>
      /\ hash[c] = hash[Server]
      /\ end[c][Other(s)].step # "mismatch"

\* remote_client.hpp:23: "Connect to the machine this is associated with"; and
\* socket_impl.hpp:72, of the 10 ms in Listen: "This needs to wait until `AcceptFrom`
\* starts the acceptor".  When a client listens and the server's connection has
\* reached it, both ends get to a verdict: Listen and both Connects return.
HandshakeEnds ==
  \A c \in Clients :
    (\E k \in DOMAIN backlog[c] : backlog[c][k] = "server")
      ~> \A s \in Ends : end[c][s].step \in {"good", "mismatch", "late"}
=============================================================================
