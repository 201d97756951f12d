------------------------------- MODULE Endian -------------------------------
(***************************************************************************)
(* Private::_ToBigEndian and _BigToNativeEndian (Common/serialize.hpp) on a *)
(* little-endian machine: the loop that every integer and every tensor      *)
(* element passes through on its way to the wire and back.  The receiver   *)
(* copies the bytes and runs the same loop again.  Codec uses Swap for each *)
(* scalar of a message; this specification is of one scalar, for the       *)
(* proofs.                                                                 *)
(***************************************************************************)
EXTENDS Integers

CONSTANTS Bytes,  \* values of a byte
          Sizes   \* sizeof(T)

VARIABLES n,      \* sizeof(T)
          orig,   \* the bytes of the value in memory
          arr,    \* the bytes the loop works on
          i,      \* its index
          wire,   \* what was sent
          stage   \* "send", "receive", "done"

vars == <<n, orig, arr, i, wire, stage>>

Index == 0 .. (n - 1)
Mirror(k) == n - k - 1

Init ==
  /\ n \in Sizes
  /\ orig \in [Index -> Bytes]
  /\ arr = orig
  /\ i = 0
  /\ wire = orig
  /\ stage = "send"

\* std::swap(arr[i], arr[n - i - 1])
Swapped == [arr EXCEPT ![i] = arr[Mirror(i)], ![Mirror(i)] = arr[i]]

\* for (size_t i = 0; i < n; i++)
Swap ==
  /\ stage \in {"send", "receive"}
  /\ i < n
  /\ arr' = Swapped
  /\ i' = i + 1
  /\ UNCHANGED <<n, orig, wire, stage>>

\* _SerializePrivate is done: the receiver's _DeserializePrivate starts over on
\* a copy of the bytes.
Transmit ==
  /\ stage = "send" /\ i = n
  /\ wire' = arr
  /\ i' = 0
  /\ stage' = "receive"
  /\ UNCHANGED <<n, orig, arr>>

Finish ==
  /\ stage = "receive" /\ i = n
  /\ stage' = "done"
  /\ UNCHANGED <<n, orig, arr, i, wire>>

Next == Swap \/ Transmit \/ Finish
Spec == Init /\ [][Next]_vars

-----------------------------------------------------------------------------
TypeOK ==
  /\ n \in Nat
  /\ orig \in [Index -> Bytes] /\ arr \in [Index -> Bytes] /\ wire \in [Index -> Bytes]
  /\ i \in 0..n
  /\ stage \in {"send", "receive", "done"}

\* Bytes k that exactly one of the first i swaps has moved: the loop does not stop
\* half way, and swaps back in its second half what it swapped in the first.
Moved(k) == (k < i) # (Mirror(k) < i)

\* local_network_test.cpp:2-3: what is received is what was sent.
RoundTrip == stage = "done" => arr = orig

\* serialize.hpp:39: "Reverses `arr` if the system does not use big endian."
\* It does not: on the wire the bytes are in the order they have in memory, and
\* the two machines must have the same endianness.
WireIsNative == stage # "send" => wire = orig
=============================================================================
