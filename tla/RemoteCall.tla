----------------------------- MODULE RemoteCall -----------------------------
(***************************************************************************)
(* What SendOpWait promises its callers, whatever happens between the      *)
(* threads and sockets below it: a caller has one call open at a time, a    *)
(* call is executed for the first time while its caller waits for it (the  *)
(* execution of a copy of the request, then or later, is no step here),    *)
(* and a caller that returns a status had its own call executed.           *)
(* Network.tla implements this module when each caller owns or locks the   *)
(* message it sends.                                                       *)
(***************************************************************************)
EXTENDS Naturals

CONSTANTS Callers,  \* threads that call SendOpWait
          Timed     \* those that pass a timeout > 0

VARIABLES next,     \* the number the next call gets
          pending,  \* is a call of this caller open?
          number,   \* the number of a caller's current or last call
          served,   \* the calls that have been executed
          outcome   \* how the last SendOpWait of a caller returned

vars == <<next, pending, number, served, outcome>>

Init ==
  /\ next = 1
  /\ pending = [c \in Callers |-> FALSE]
  /\ number = [c \in Callers |-> 0]
  /\ served = {}
  /\ outcome = [c \in Callers |-> "none"]

\* No connection: SendOpWait returns 1 and nothing is sent.
Refuse(c) ==
  /\ ~ pending[c]
  /\ outcome' = [outcome EXCEPT ![c] = "notConnected"]
  /\ UNCHANGED <<next, pending, number, served>>

Start(c) ==
  /\ ~ pending[c]
  /\ pending' = [pending EXCEPT ![c] = TRUE]
  /\ number' = [number EXCEPT ![c] = next]
  /\ next' = next + 1
  /\ UNCHANGED <<served, outcome>>

\* The peer's handler runs, for the first time.
Serve(c) ==
  /\ pending[c]
  /\ number[c] \notin served
  /\ served' = served \cup {number[c]}
  /\ UNCHANGED <<next, pending, number, outcome>>

\* SendOpWait returns the peer's status, or 2 when the timeout had passed.
Finish(c) ==
  /\ pending[c]
  /\ number[c] \in served
  /\ pending' = [pending EXCEPT ![c] = FALSE]
  /\ \E o \in {"status"} \cup (IF c \in Timed THEN {"timedOut"} ELSE {}) :
       outcome' = [outcome EXCEPT ![c] = o]
  /\ UNCHANGED <<next, number, served>>

Next == \E c \in Callers : Refuse(c) \/ Start(c) \/ Serve(c) \/ Finish(c)

Spec == Init /\ [][Next]_vars
=============================================================================
