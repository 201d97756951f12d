------------------------------ MODULE Training ------------------------------
(***************************************************************************)
(* Distributed training: DistFunctionServer (Train, SendData,              *)
(* EvaluateWithGradient, Shuffle, the StepTaken callback), its             *)
(* AsyncClientIterator, and the message handlers of DistFunctionClient.    *)
(*                                                                         *)
(* Every phase of the server is one call of Iterate: a worker thread per   *)
(* connected client makes its calls to that client one after the other,    *)
(* and the phase ends when all workers are done.  The connection to a      *)
(* client is a pair of FIFO streams; a worker waits for the next message in *)
(* its client's stream, or for ever, when its call is lost: its callback was *)
(* raced away, its bytes were cut off, or the Parameters message, which      *)
(* StepTaken's workers share unguarded, went out with another worker's id    *)
(* (Network.tla, Socket.tla).  A timeout is left out: it does not end a call. *)
(*                                                                         *)
(* The optimizer (ensmallen) is outside: it may shuffle, evaluate a batch  *)
(* and step, or stop, whenever it has the control.  The wrapped function   *)
(* (mlpack's FFN) evaluates with its own Parameters().                     *)
(***************************************************************************)
EXTENDS Integers, Sequences, FiniteSets

CONSTANTS
  Clients,          \* ids of the clients: 1 .. number of clients
  EarlyClients,     \* clients that listen before the server is constructed
  DataKinds,        \* non-empty tensors of the data set, in SendData's order
  Batches,          \* batches the optimizer asks for: [begin, size]
  LoadOutcomes,     \* what cereal may do with a function: {"ok"}, {"ok", "failed"}
  PromptHandlers,   \* assume a client's handlers are registered before it
                    \* reads its first message
  MaxTrains, MaxEvaluations, MaxShuffles  \* bounds of the model

ASSUME ClientsAssumption ==
  Clients \subseteq Nat \ {0} /\ IsFiniteSet(Clients) /\ EarlyClients \subseteq Clients
ASSUME BatchAssumption == Batches \subseteq [begin : Nat, size : Nat \ {0}]
ASSUME OutcomesAssumption ==
  /\ LoadOutcomes \subseteq {"ok", "failed"}
  /\ PromptHandlers \in BOOLEAN
  /\ {MaxTrains, MaxEvaluations, MaxShuffles} \subseteq Nat

VARIABLES
  pc,               \* where the server's main thread is
  train,            \* number of Train calls begun; names its function and data
  params,           \* version of the server's parameters
  evaluations,      \* EvaluateWithGradient calls in this Train
  shuffled,         \* Shuffle calls in this Train
  batch,            \* arguments of the current EvaluateWithGradient
  counted,          \* how often each column is in obj and gradient
  gathered,         \* what the answers to the current batch were computed on
  connectedClients, \* AsyncClientIterator::connectedClients
  work,             \* per client, the calls its worker thread has yet to make
  waiting,          \* clients whose worker waits for an answer
  lost,             \* those of them whose worker waits for ever
  phase,            \* "down", "listening", "up" (socket connected), "aborted"
  registered,       \* how many handlers the client's constructor has registered
  toClient, fromClient,  \* the two directions of each connection
  model             \* per client, the state of its DistFunctionClient

serverVars == <<train, params, evaluations, shuffled, batch>>
vars == <<pc, train, params, evaluations, shuffled, batch, counted, gathered,
          connectedClients, work, waiting, lost, phase, registered, toClient,
          fromClient, model>>

\* Handlers in the order DistFunctionClient's constructor registers them.
HandlerOrder == <<"Predictors", "Responses", "Weights", "Function",
                  "Parameters", "Shuffle", "Evaluate">>
Handlers(c) == {HandlerOrder[k] : k \in 1..registered[c]}

Kinds == {"Predictors", "Responses", "Weights"}
SentKinds == {DataKinds[k] : k \in DOMAIN DataKinds}
ASSUME KindsAssumption == DataKinds \in Seq(Kinds)

\* Messages that all workers of a phase send through one SafeRef.
SafeRefs == {"Function"} \cup Kinds

Columns == UNION {b.begin .. (b.begin + b.size - 1) : b \in Batches}

\* DistFunctionClient and its FunctionAccessor: the data set (by Train number)
\* staged for Initalize and loaded into the function, 0 for none.
ClientModel == [isInit : BOOLEAN, function : Nat, staged : [Kinds -> Nat],
                loaded : [Kinds -> Nat], params : Nat, shuffles : Nat]

\* What an evaluation was computed on.
Basis == [function : Nat, loaded : [Kinds -> Nat], params : Nat, shuffles : Nat]

\* What travels to a client and back.
Calls == {HandlerOrder[k] : k \in DOMAIN HandlerOrder}
Request ==
  [type : {"Function"}, train : Nat, params : Nat] \cup [type : Kinds, train : Nat]
    \cup [type : {"Parameters"}, params : Nat] \cup [type : {"Shuffle"}]
    \cup [type : {"Evaluate"}, chunk : [begin : Nat, cols : Nat]]
Answer ==
  [type : {"Status"}] \cup [type : {"Gradient"}, begin : Nat, cols : Nat, on : Basis]

NoData == [k \in Kinds |-> 0]
NoWork == [c \in Clients |-> <<>>]

TypeOK ==
  /\ pc \in {"construct", "idle", "function", "data", "optimize", "shuffle",
             "evaluate", "gather", "step", "stepping"}
  /\ train \in 0..MaxTrains /\ params \in Nat
  /\ evaluations \in 0..MaxEvaluations /\ shuffled \in 0..MaxShuffles
  /\ batch \in [begin : Nat, size : Nat]
  /\ counted \in [Columns -> Nat]
  /\ gathered \subseteq Basis
  /\ connectedClients \subseteq Clients
  /\ work \in [Clients -> Seq(Calls)]
  /\ waiting \subseteq Clients
  /\ lost \subseteq waiting
  /\ phase \in [Clients -> {"down", "listening", "up", "aborted"}]
  /\ registered \in [Clients -> 0..Len(HandlerOrder)]
  /\ toClient \in [Clients -> Seq(Request)] /\ fromClient \in [Clients -> Seq(Answer)]
  /\ model \in [Clients -> ClientModel]

Init ==
  /\ pc = "construct"
  /\ train = 0 /\ params = 0 /\ evaluations = 0 /\ shuffled = 0
  /\ batch = [begin |-> 0, size |-> 0]
  /\ counted = [k \in Columns |-> 0]
  /\ gathered = {}
  /\ connectedClients = {}
  /\ work = NoWork
  /\ waiting = {}
  /\ lost = {}
  /\ phase = [c \in Clients |-> IF c \in EarlyClients THEN "listening" ELSE "down"]
  /\ registered = [c \in Clients |-> 0]
  /\ toClient = [c \in Clients |-> <<>>]
  /\ fromClient = [c \in Clients |-> <<>>]
  /\ model = [c \in Clients |-> [isInit |-> FALSE, function |-> 0, staged |-> NoData,
                                 loaded |-> NoData, params |-> 0, shuffles |-> 0]]

-----------------------------------------------------------------------------
(* AsyncClientIterator.                                                    *)

\* Clients a TryConnect reaches: those already up and those that listen.
\* (A connection is never seen to end: IsConnected stays true, even of a
\* client that has aborted.)
Reachable == {c \in Clients : phase[c] # "down"}

ConnectListening ==
  phase' = [c \in Clients |-> IF phase[c] = "listening" THEN "up" ELSE phase[c]]

TryConnect == ConnectListening /\ connectedClients' = Reachable

\* Iterate's worker threads for the clients cs, each with the calls it makes.
\* (Its removal of clients that are not connected removes none, see above.)
Iterate(cs, calls) == work' = [c \in Clients |-> IF c \in cs THEN calls ELSE <<>>]

\* Mutant: the phase ends with the first worker that is done.
Joined_Any == \E c \in Clients : work[c] = <<>>

\* All futures of the current Iterate are ready.
Joined == work = NoWork

-----------------------------------------------------------------------------
(* The server's main thread.                                               *)

\* DistFunctionServer's constructor: RemoteClient::Get connects what it can.
Construct ==
  /\ pc = "construct"
  /\ ConnectListening
  /\ pc' = "idle"
  /\ UNCHANGED <<serverVars, lost, counted, gathered, connectedClients, work, waiting,
                 registered, toClient, fromClient, model>>

\* Train: TryConnect, prepare the function, send it to the clients.
StartTrain ==
  /\ pc = "idle"
  /\ train < MaxTrains
  /\ train' = train + 1
  /\ evaluations' = 0 /\ shuffled' = 0
  /\ TryConnect
  /\ Iterate(Reachable, <<"Function">>)
  /\ pc' = "function"
  /\ UNCHANGED <<params, batch, lost, counted, gathered, waiting, registered,
                 toClient, fromClient, model>>

\* SendData: TryConnect again, send the non-empty tensors.
SendData ==
  /\ pc = "function" /\ Joined
  /\ TryConnect
  /\ Iterate(Reachable, DataKinds)
  /\ pc' = "data"
  /\ UNCHANGED <<serverVars, lost, counted, gathered, waiting, registered, toClient,
                 fromClient, model>>

\* The phase is over and the optimizer has the control.
Optimize ==
  /\ pc \in {"data", "shuffle", "stepping"} /\ Joined
  /\ pc' = "optimize"
  /\ UNCHANGED <<serverVars, lost, counted, gathered, connectedClients, work, waiting,
                 phase, registered, toClient, fromClient, model>>

\* Mutant: only one client is told to shuffle.
ShuffleClients_First ==
  /\ pc = "optimize"
  /\ shuffled < MaxShuffles
  /\ shuffled' = shuffled + 1
  /\ TryConnect
  /\ Iterate({c \in Reachable : \A d \in Reachable : c \leq d}, <<"Shuffle">>)
  /\ pc' = "shuffle"
  /\ UNCHANGED <<train, params, evaluations, batch, lost, counted, gathered, waiting,
                 registered, toClient, fromClient, model>>

\* DistFunctionServer::Shuffle, called by the optimizer.
ShuffleClients ==
  /\ pc = "optimize"
  /\ shuffled < MaxShuffles
  /\ shuffled' = shuffled + 1
  /\ TryConnect
  /\ Iterate(Reachable, <<"Shuffle">>)
  /\ pc' = "shuffle"
  /\ UNCHANGED <<train, params, evaluations, batch, lost, counted, gathered, waiting,
                 registered, toClient, fromClient, model>>

\* EvaluateWithGradient, called by the optimizer: obj = 0.
Evaluate ==
  /\ pc = "optimize"
  /\ evaluations < MaxEvaluations
  /\ evaluations' = evaluations + 1
  /\ batch' \in Batches
  /\ counted' = [k \in Columns |-> 0]
  /\ gathered' = {}
  /\ pc' = "evaluate"
  /\ UNCHANGED <<train, params, shuffled, lost, connectedClients, work, waiting, phase,
                 registered, toClient, fromClient, model>>

\* Mutant: the round waits until all clients of the configuration are there.
EvaluateRound_All ==
  /\ pc = "evaluate"
  /\ TryConnect
  /\ IF Reachable # Clients
     THEN UNCHANGED <<pc, work>>
     ELSE pc' = "gather" /\ Iterate(Reachable, <<"Evaluate">>)
  /\ UNCHANGED <<serverVars, lost, counted, gathered, waiting, registered, toClient,
                 fromClient, model>>

\* One round of its loop.  With no client it sleeps and tries again; otherwise
\* the round divides what is left of the batch, which is all of it.
EvaluateRound ==
  /\ pc = "evaluate"
  /\ TryConnect
  /\ IF Reachable = {}
     THEN UNCHANGED <<pc, work>>
     ELSE pc' = "gather" /\ Iterate(Reachable, <<"Evaluate">>)
  /\ UNCHANGED <<serverVars, lost, counted, gathered, waiting, registered, toClient,
                 fromClient, model>>

\* beginTemp has reached begin + batchSize: the objective is returned.
EndEvaluate ==
  /\ pc = "gather" /\ Joined
  /\ pc' = "step"
  /\ UNCHANGED <<serverVars, lost, counted, gathered, connectedClients, work, waiting,
                 phase, registered, toClient, fromClient, model>>

\* The optimizer updates the parameters and calls StepTaken, which iterates
\* over the clients of the last TryConnect.
StepTaken ==
  /\ pc = "step"
  /\ params' = params + 1
  /\ Iterate(connectedClients, <<"Parameters">>)
  /\ pc' = "stepping"
  /\ UNCHANGED <<train, evaluations, shuffled, batch, lost, counted, gathered,
                 connectedClients, waiting, phase, registered, toClient,
                 fromClient, model>>

\* The optimizer stops; Train returns.
EndTrain ==
  /\ pc = "optimize"
  /\ pc' = "idle"
  /\ UNCHANGED <<serverVars, lost, counted, gathered, connectedClients, work, waiting,
                 phase, registered, toClient, fromClient, model>>

-----------------------------------------------------------------------------
(* Iterate's worker threads.                                               *)

\* Mutant: equal shares; the remainder of the division is forgotten.
Chunk_Even(c) ==
  LET share == batch.size \div Cardinality(connectedClients)
      i == Cardinality({d \in connectedClients : d < c})
  IN [begin |-> batch.begin + i * share, cols |-> share]

\* Columns that are left when k of n clients have been given theirs: each takes
\* its share of what is left, rounded down.
ColumnsLeft(size, n) ==
  LET left[k \in 0..n] == IF k = 0 THEN size
                          ELSE left[k-1] - left[k-1] \div (n - (k-1))
  IN left

\* begins[i] and nCols[i] of the client that is i-th of connectedClients.
Chunk(c) ==
  LET i == Cardinality({d \in connectedClients : d < c})
      left == ColumnsLeft(batch.size, Cardinality(connectedClients))
  IN [begin |-> batch.begin + (batch.size - left[i]), cols |-> left[i] - left[i+1]]

\* The message the server's state gives for a call.
Message(c, type) ==
  CASE type = "Function"   -> [type |-> type, train |-> train, params |-> params]
    [] type \in Kinds      -> [type |-> type, train |-> train]
    [] type = "Parameters" -> [type |-> type, params |-> params]
    [] type = "Shuffle"    -> [type |-> type]
    [] type = "Evaluate"   -> [type |-> type, chunk |-> Chunk(c)]

\* A worker in SendOpWait(SafeRef) holds the lock until its answer is there.
SafeRefFree(type) ==
  type \in SafeRefs => \A d \in waiting : Head(work[d]) # type

\* SendOpWait or SendAwaitable: the request is on its way.
SendCall(c) ==
  /\ work[c] # <<>> /\ c \notin waiting
  /\ Head(work[c]) # "Shuffle"
  /\ SafeRefFree(Head(work[c]))
  /\ toClient' = [toClient EXCEPT ![c] = Append(@, Message(c, Head(work[c])))]
  /\ waiting' = waiting \cup {c}
  /\ UNCHANGED <<pc, serverVars, lost, counted, gathered, connectedClients, work,
                 phase, registered, fromClient, model>>

\* Shuffle is sent without waiting for anything.
SendShuffle(c) ==
  /\ work[c] # <<>>
  /\ Head(work[c]) = "Shuffle"
  /\ toClient' = [toClient EXCEPT ![c] = Append(@, Message(c, "Shuffle"))]
  /\ work' = [work EXCEPT ![c] = Tail(@)]
  /\ UNCHANGED <<pc, serverVars, lost, counted, gathered, connectedClients, waiting,
                 phase, registered, fromClient, model>>

\* The answer is there: a status is looked at and dropped, a gradient is added
\* to obj and gradient under the mutex.
GetAnswer(c) ==
  /\ c \in waiting \ lost
  /\ fromClient[c] # <<>>
  /\ LET answer == Head(fromClient[c]) IN
       IF answer.type = "Gradient"
       THEN /\ counted' = [k \in Columns |-> counted[k] +
                 IF k \in answer.begin .. (answer.begin + answer.cols - 1) THEN 1 ELSE 0]
            /\ gathered' = gathered \cup {answer.on}
       ELSE UNCHANGED <<counted, gathered>>
  /\ fromClient' = [fromClient EXCEPT ![c] = Tail(@)]
  /\ waiting' = waiting \ {c}
  /\ work' = [work EXCEPT ![c] = Tail(@)]
  /\ UNCHANGED <<pc, serverVars, lost, connectedClients, phase, registered, toClient,
                 model>>

\* The worker's call will not be answered: nothing registers its callback again
\* and nobody looks whether an answer is overdue.
LoseCall(c) ==
  /\ c \in waiting
  /\ lost' = lost \cup {c}
  /\ UNCHANGED <<pc, serverVars, counted, gathered, connectedClients, work, waiting,
                 phase, registered, toClient, fromClient, model>>

-----------------------------------------------------------------------------
(* A client process: RemoteClient::Get listens and, once connected, starts   *)
(* the receiver thread; only then is DistFunctionClient constructed.        *)

StartClient(c) ==
  /\ phase[c] = "down"
  /\ phase' = [phase EXCEPT ![c] = "listening"]
  /\ UNCHANGED <<pc, serverVars, lost, counted, gathered, connectedClients, work,
                 waiting, registered, toClient, fromClient, model>>

\* Mutant: one registration too many.
RegisterHandler_Extra(c) ==
  /\ phase[c] = "up"
  /\ registered[c] \leq Len(HandlerOrder)
  /\ registered' = [registered EXCEPT ![c] = @ + 1]
  /\ UNCHANGED <<pc, serverVars, lost, counted, gathered, connectedClients, work,
                 waiting, phase, toClient, fromClient, model>>

RegisterHandler(c) ==
  /\ phase[c] = "up"
  /\ registered[c] < Len(HandlerOrder)
  /\ registered' = [registered EXCEPT ![c] = @ + 1]
  /\ UNCHANGED <<pc, serverVars, lost, counted, gathered, connectedClients, work,
                 waiting, phase, toClient, fromClient, model>>

\* The receiver thread takes the next message: what each handler does to the
\* client's model, and its answer.
Reading(c) ==
  /\ phase[c] = "up"
  /\ toClient[c] # <<>>
  /\ PromptHandlers => registered[c] = Len(HandlerOrder)
  /\ toClient' = [toClient EXCEPT ![c] = Tail(@)]
  /\ UNCHANGED <<pc, serverVars, lost, counted, gathered, connectedClients, work,
                 waiting, registered>>

Reply(c, answer) == fromClient' = [fromClient EXCEPT ![c] = Append(@, answer)]
Status == [type |-> "Status"]

\* PropagateMessage finds no callback: the message is gone.
DropMessage(c) ==
  /\ Reading(c)
  /\ Head(toClient[c]).type \notin Handlers(c)
  /\ UNCHANGED <<phase, fromClient, model>>

HandleData(c) ==
  /\ Reading(c)
  /\ LET msg == Head(toClient[c]) IN
       /\ msg.type \in Kinds \cap Handlers(c)
       /\ model' = [model EXCEPT ![c].staged[msg.type] = msg.train]
  /\ Reply(c, Status)
  /\ UNCHANGED phase

\* Mutant: isInit is not reset, the data of a second Train stays staged.
HandleFunction_KeepsInit(c) ==
  /\ Reading(c)
  /\ LET msg == Head(toClient[c]) IN
       /\ msg.type = "Function" /\ "Function" \in Handlers(c)
       /\ model' = [model EXCEPT ![c] =
            [@ EXCEPT !.function = msg.train, !.params = msg.params]]
  /\ Reply(c, Status)
  /\ UNCHANGED phase

\* isInit is reset before the function is read; a failed read is reported with
\* status 1, which nobody acts on.
HandleFunction(c) ==
  /\ Reading(c)
  /\ LET msg == Head(toClient[c]) IN
       /\ msg.type = "Function" /\ "Function" \in Handlers(c)
       /\ \E outcome \in LoadOutcomes :
            model' = [model EXCEPT ![c] =
              IF outcome = "ok"
              THEN [@ EXCEPT !.isInit = FALSE, !.function = msg.train,
                             !.params = msg.params]
              ELSE [@ EXCEPT !.isInit = FALSE]]
  /\ Reply(c, Status)
  /\ UNCHANGED phase

\* assert(params.n_elem == function.Get().Parameters().n_elem)
HandleParameters(c) ==
  /\ Reading(c)
  /\ LET msg == Head(toClient[c]) IN
       /\ msg.type = "Parameters" /\ "Parameters" \in Handlers(c)
       /\ IF model[c].function = 0
          THEN /\ phase' = [phase EXCEPT ![c] = "aborted"]
               /\ UNCHANGED <<model, fromClient>>
          ELSE /\ model' = [model EXCEPT ![c].params = msg.params]
               /\ Reply(c, Status)
               /\ UNCHANGED phase

HandleShuffle(c) ==
  /\ Reading(c)
  /\ Head(toClient[c]).type = "Shuffle" /\ "Shuffle" \in Handlers(c)
  /\ model' = [model EXCEPT ![c].shuffles = @ + 1]
  /\ UNCHANGED <<phase, fromClient>>

\* Initalize moves the staged data into the function, unshuffled.
Initalized(m) ==
  IF m.isInit THEN m
  ELSE [m EXCEPT !.isInit = TRUE, !.loaded = m.staged, !.staged = NoData,
                 !.shuffles = 0]

\* No function was loaded, or not all the data.
NothingToEvaluate(m) == m.function = 0 \/ \E k \in SentKinds : m.loaded[k] = 0

\* The wrapped function may throw if there is nothing to evaluate (mlpack's FFN does
\* of a network without layers); nobody catches it in the receiver thread.
HandleEvaluate(c) ==
  /\ Reading(c)
  /\ LET msg == Head(toClient[c])
         m == Initalized(model[c]) IN
       /\ msg.type = "Evaluate" /\ "Evaluate" \in Handlers(c)
       /\ \/ /\ model' = [model EXCEPT ![c] = m]
             /\ Reply(c, [type |-> "Gradient",
                         begin |-> msg.chunk.begin, cols |-> msg.chunk.cols,
                         on |-> [function |-> m.function, loaded |-> m.loaded,
                                 params |-> m.params, shuffles |-> m.shuffles]])
             /\ UNCHANGED phase
          \/ /\ NothingToEvaluate(m)
             /\ phase' = [phase EXCEPT ![c] = "aborted"]
             /\ UNCHANGED <<model, fromClient>>

-----------------------------------------------------------------------------
Main == SendData \/ Optimize \/ ShuffleClients \/ Evaluate \/ EvaluateRound
          \/ EndEvaluate \/ StepTaken \/ EndTrain
Worker(c) == SendCall(c) \/ SendShuffle(c) \/ GetAnswer(c)
Handler(c) == DropMessage(c) \/ HandleData(c) \/ HandleFunction(c)
                \/ HandleParameters(c) \/ HandleShuffle(c) \/ HandleEvaluate(c)

Next ==
  \/ Construct \/ StartTrain \/ Main
  \/ \E c \in Clients : Worker(c) \/ LoseCall(c) \/ Handler(c) \/ StartClient(c)
                        \/ RegisterHandler(c)

Spec == Init /\ [][Next]_vars

\* The threads of the server and of running clients are scheduled, and the
\* optimizer goes on until it stops (MaxEvaluations, MaxShuffles).  Nothing
\* makes an application call Train or start a client.
FairSpec ==
  /\ Spec
  /\ WF_vars(Main)
  /\ \A c \in Clients : WF_vars(Worker(c)) /\ WF_vars(Handler(c))
                          /\ WF_vars(RegisterHandler(c))

-----------------------------------------------------------------------------
(* Properties.                                                             *)

BatchColumns == batch.begin .. (batch.begin + batch.size - 1)

\* When EvaluateWithGradient returns, every column of the batch has been added
\* to the objective exactly once and no other column has.
BatchCountedOnce ==
  pc = "step" => \A k \in Columns : counted[k] = IF k \in BatchColumns THEN 1 ELSE 0

\* dist_function_server_impl.hpp:136: "Select only the clients that are good".
\* Every gradient that is added was computed with the function, the whole data
\* set and the parameters of the current Train.
EvaluatedOnCurrentModel ==
  \A on \in gathered :
    pc \in {"gather", "step"} =>
      /\ on.function = train
      /\ \A k \in SentKinds : on.loaded[k] = train
      /\ on.params = params

\* All columns of a batch are taken from the same order of the data set: the
\* clients have applied the same number of shuffles since they loaded it.
ShuffleAgreement == \A a, b \in gathered : a.shuffles = b.shuffles

\* Between two phases nothing is under way: no request waits for its answer and
\* only Shuffle messages, which nobody answers, may still be unread.
PhasesDoNotOverlap ==
  pc \in {"idle", "optimize", "evaluate", "step"} =>
    /\ waiting = {}
    /\ \A c \in Clients :
         /\ fromClient[c] = <<>>
         /\ \A i \in DOMAIN toClient[c] : toClient[c][i].type = "Shuffle"

\* The worker of a client waits and nothing is under way that could wake it: its
\* call is lost, its message was read by nobody, or its client has aborted.
WaitsInVain(c) ==
  /\ c \in waiting
  /\ \/ c \in lost
     \/ /\ fromClient[c] = <<>>
        /\ \/ phase[c] = "aborted"
           \/ \A i \in DOMAIN toClient[c] : toClient[c][i].type = "Shuffle"

\* A Train that has a client returns, whatever the clients are doing, unless a worker
\* waits for an answer that does not come: workers do not block each other through
\* the SafeRef, and a failed load or a client that comes late stops nothing.
OnlyLostCallsKeepTrain ==
  pc \notin {"construct", "idle"} /\ Reachable # {} ~>
    pc = "idle" \/ \E c \in Clients : WaitsInVain(c)
=============================================================================
