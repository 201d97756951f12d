---------------------------- MODULE MCHandshake ----------------------------
(* Instances of Handshake for TLC: a server and two clients. *)
EXTENDS Handshake

At(i) == [kind |-> "endpoint", id |-> i, machine |-> i, valid |-> TRUE]

\* All machines.
Complete == {<<At(0), At(1), At(2)>>}

\* One id missing and one number that does not parse, with the address of a machine.
Unparsed == {<<[kind |-> "blank"], At(0), At(2), [At(1) EXCEPT !.id = NoId]>>}

\* Also, the server missing and a port that does not parse; a number that id_t cuts
\* down to the id of a machine; a line that is cut off.
Files == Complete \cup Unparsed \cup {
  <<At(2), [At(1) EXCEPT !.valid = FALSE]>>,
  <<[At(1) EXCEPT !.id = IdSpan + 1]>>,
  <<At(0), [kind |-> "malformed"]>> }

\* A string whose hash is fixed, and one of three steps, whose hash is not.
Strings == [p \in {0, 1, 2} |-> IF p = 2 THEN <<0, 1, 1, 0, 1>> ELSE <<1, 0, 1>>]
=============================================================================
