----------------------------- MODULE MCNetwork -----------------------------
(* Instances of Network for TLC: who calls whom. *)
EXTENDS Network, TLC

CONSTANTS t1, t2, m1, m2

\* Iterate: one thread per client, each calling its own.
OnePerClient == t1 :> m1 @@ t2 :> m2

\* Two threads of an application calling the same client.
SameClient == t1 :> m1 @@ t2 :> m1
=============================================================================
