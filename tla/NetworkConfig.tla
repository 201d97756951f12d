---------------------------- MODULE NetworkConfig ----------------------------
(***************************************************************************)
(* The constructor of Network (Common/network_impl.hpp): network_config.txt *)
(* is read into the map endpoints, then a socket is made for every id.     *)
(*                                                                         *)
(* endpoints is a std::map whose operator[] inserts what it does not find,  *)
(* also while the constructor counts its way through it.  sockets is a     *)
(* vector that the rest of the program indexes by id, without a check.     *)
(***************************************************************************)
EXTENDS Integers, Sequences, FiniteSets

CONSTANTS
  Self,         \* the id of this process
  ConfigFiles,  \* contents of the file: sequences of lines
  StrayIds,     \* what an uninitialized endpointId may hold
  NoId,         \* a first part that std::stoul rejects
  IdSpan        \* values of id_t: 2^32

\* The machine that an address and a port belong to, by its own id; or an address or
\* a port that did not parse, a default endpoint, and any address of this machine.
Stray == -1
Default == -2
Own == -3
Address == Nat \cup {Stray, Default, Own}

\* id is what the line says, machine what its address belongs to.
Line == [kind : {"blank", "malformed"}]
          \cup [kind : {"endpoint"}, id : Nat \cup {NoId}, machine : Nat, valid : BOOLEAN]

ASSUME ConfigAssumption ==
  /\ IdSpan \in Nat \ {0} /\ Self \in 0 .. (IdSpan - 1)
  /\ StrayIds \subseteq Nat /\ NoId \notin Nat
  /\ ConfigFiles \subseteq Seq(Line)

VARIABLES
  lines,      \* the lines that have not been read
  endpoints,  \* the address for each id
  sockets,    \* the remote endpoint of each socket; the id is the index - 1
  ctor        \* "parse", "own", "sockets", "ready", "thrown"

configVars == <<lines, endpoints, sockets, ctor>>

ConfigTypeOK ==
  /\ lines \in Seq(Line)
  /\ DOMAIN endpoints \subseteq Nat /\ IsFiniteSet(DOMAIN endpoints)
  /\ endpoints \in [DOMAIN endpoints -> Address]
  /\ sockets \in Seq(Address)
  /\ ctor \in {"parse", "own", "sockets", "ready", "thrown"}

ConfigInit ==
  /\ lines \in ConfigFiles
  /\ endpoints = [id \in {} |-> Default]
  /\ sockets = <<>>
  /\ ctor = "parse"

\* endpoints[id] = e
Assigned(id, e) ==
  [k \in DOMAIN endpoints \cup {id} |-> IF k = id THEN e ELSE endpoints[k]]

\* endpoints[id], as an expression
Looked(id) == IF id \in DOMAIN endpoints THEN endpoints ELSE Assigned(id, Default)

\* A comment, a blank line.
SkipLine ==
  /\ ctor = "parse" /\ lines # <<>>
  /\ Head(lines).kind = "blank"
  /\ lines' = Tail(lines)
  /\ UNCHANGED <<endpoints, sockets, ctor>>

\* Not three parts; or the file cannot be opened or read.
ParseFails ==
  /\ ctor = "parse"
  /\ lines # <<>> => Head(lines).kind = "malformed"
  /\ ctor' = "thrown"
  /\ UNCHANGED <<lines, endpoints, sockets>>

\* A part that does not parse is logged, and an uninitialized variable is used.  The
\* id has 64 bits, the key of the map fewer.
AddEndpoint ==
  /\ ctor = "parse" /\ lines # <<>>
  /\ LET line == Head(lines) IN
       /\ line.kind = "endpoint"
       /\ \E id \in IF line.id = NoId THEN StrayIds ELSE {line.id} :
            endpoints' = Assigned(id % IdSpan, IF line.valid THEN line.machine ELSE Stray)
  /\ lines' = Tail(lines)
  /\ UNCHANGED <<sockets, ctor>>

EndOfFile ==
  /\ ctor = "parse" /\ lines = <<>>
  /\ ctor' = "own"
  /\ UNCHANGED <<lines, endpoints, sockets>>

\* The address of this process becomes any().
OwnEndpoint ==
  /\ ctor = "own"
  /\ endpoints' = Assigned(Self, Own)
  /\ ctor' = "sockets"
  /\ UNCHANGED <<lines, sockets>>

\* Mutant: a socket per line of the file, found by a lookup that inserts nothing.
MakeSocket_NoInsert ==
  /\ ctor = "sockets"
  /\ Len(sockets) < Cardinality(DOMAIN endpoints)
  /\ sockets' = Append(sockets, Looked(Len(sockets))[Len(sockets)])
  /\ UNCHANGED <<lines, endpoints, ctor>>

\* for (size_t remote = 0; remote < endpoints.size(); remote++)
MakeSocket ==
  /\ ctor = "sockets"
  /\ Len(sockets) < Cardinality(DOMAIN endpoints)
  /\ endpoints' = Looked(Len(sockets))
  /\ sockets' = Append(sockets, endpoints'[Len(sockets)])
  /\ UNCHANGED <<lines, ctor>>

Constructed ==
  /\ ctor = "sockets"
  /\ Len(sockets) = Cardinality(DOMAIN endpoints)
  /\ ctor' = "ready"
  /\ UNCHANGED <<lines, endpoints, sockets>>

ConfigNext == SkipLine \/ ParseFails \/ AddEndpoint \/ EndOfFile \/ OwnEndpoint
                \/ MakeSocket \/ Constructed

ConfigSpec == ConfigInit /\ [][ConfigNext]_configVars

-----------------------------------------------------------------------------
\* network.hpp:86: "Network endpoints, index is equal to endpoint machine's ID."
\* Whatever ids the file leaves out, sockets[id] exists for every id that
\* GetEndpoints shows to the program, and leads to that id's endpoint.
IdsHaveSockets ==
  ctor = "ready" => \A id \in DOMAIN endpoints :
    id < Len(sockets) /\ sockets[id + 1] = endpoints[id]
=============================================================================
