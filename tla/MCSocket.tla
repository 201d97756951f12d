------------------------------ MODULE MCSocket ------------------------------
(* Instances of Socket for TLC: frames with a prefix of two bytes. *)
EXTENDS Socket, TLC

CONSTANTS s1, s2

\* The shortest frame that is allowed, and a longer one.
ShortAndLong == s1 :> 3 @@ s2 :> 5

\* Negative, at once complete, and longer than what follows.
Garbage == {-1, 0, 4}
=============================================================================
