---------------------------- MODULE EndianProofs ----------------------------
(***************************************************************************)
(* For every sizeof(T) and every value, the loop of _ToBigEndian ends with *)
(* the bytes it began with: it converts nothing.  The argument is the      *)
(* half-way invariant: after i swaps byte k has been exchanged with its    *)
(* mirror image if exactly one of them is below i, and at i = n both are.  *)
(***************************************************************************)
EXTENDS Endian, TLAPS

\* What holds of the loop in both directions, started on the bytes "from".
Halfway(from) == \A k \in Index : arr[k] = IF Moved(k) THEN from[Mirror(k)] ELSE from[k]

IInv ==
  /\ TypeOK
  /\ stage \in {"send", "receive"} => Halfway(orig)
  /\ stage # "send" => wire = orig
  /\ stage = "done" => arr = orig

LEMMA MirrorInIndex ==
  ASSUME n \in Nat, NEW k \in Index
  PROVE  Mirror(k) \in Index /\ Mirror(Mirror(k)) = k
BY DEF Index, Mirror

\* One swap moves the pair (i, Mirror(i)) and nothing else.
LEMMA SwapStep ==
  ASSUME TypeOK, Halfway(orig), Swap
  PROVE  Halfway(orig)'
<1> USE DEF TypeOK
<1>1. i \in Index /\ n' = n /\ orig' = orig /\ i' = i + 1 /\ arr' = Swapped
  BY DEF Swap, Index
<1>2. Mirror(i) \in Index
  BY <1>1, MirrorInIndex
<1> SUFFICES ASSUME NEW k \in Index
             PROVE  arr'[k] = IF (k < i + 1) # (Mirror(k) < i + 1)
                              THEN orig[Mirror(k)] ELSE orig[k]
  BY <1>1 DEF Halfway, Moved, Index, Mirror
<1>3. arr[k] = IF Moved(k) THEN orig[Mirror(k)] ELSE orig[k]
  BY DEF Halfway
<1>4. arr[Mirror(k)] = IF Moved(Mirror(k)) THEN orig[k] ELSE orig[Mirror(k)]
  BY MirrorInIndex DEF Halfway
<1>5. CASE k # i /\ k # Mirror(i)
  <2>1. arr'[k] = arr[k]
    BY <1>1, <1>5 DEF Swapped
  <2>2. (k < i + 1) = (k < i) /\ (Mirror(k) < i + 1) = (Mirror(k) < i)
    BY <1>1, <1>5 DEF Index, Mirror
  <2> QED BY <1>3, <2>1, <2>2 DEF Moved
<1>6. CASE k = i \/ k = Mirror(i)
  <2>1. arr'[k] = arr[Mirror(k)]
    BY <1>1, <1>2, <1>6, MirrorInIndex DEF Swapped
  <2>2. Mirror(Mirror(k)) = k
    BY MirrorInIndex
  <2>3. CASE k = Mirror(k)
    BY <1>4, <2>1, <2>3
  <2>4. CASE k # Mirror(k)
    <3>1. ((k < i + 1) # (Mirror(k) < i + 1)) = ~ ((k < i) # (Mirror(k) < i))
      BY <1>1, <1>6, <2>4 DEF Index, Mirror
    <3>2. Moved(Mirror(k)) = ((k < i) # (Mirror(k) < i))
      BY <2>2 DEF Moved
    <3> QED BY <1>4, <2>1, <3>1, <3>2
  <2> QED BY <2>3, <2>4
<1> QED BY <1>5, <1>6

\* At the end of the loop no byte has moved.
LEMMA LoopIsIdentity ==
  ASSUME TypeOK, Halfway(orig), i = n
  PROVE  arr = orig
<1>1. \A k \in Index : ~ Moved(k)
  BY DEF TypeOK, Moved, Index, Mirror
<1>2. \A k \in Index : arr[k] = orig[k]
  BY <1>1 DEF Halfway
<1> QED BY <1>2 DEF TypeOK

LEMMA Inductive ==
  ASSUME Sizes \subseteq Nat
  PROVE  Spec => []IInv
<1>1. Init => IInv
  BY DEF Init, IInv, TypeOK, Halfway, Moved, Index, Mirror
<1>2. IInv /\ [Next]_vars => IInv'
  <2> SUFFICES ASSUME IInv, [Next]_vars PROVE IInv'
    OBVIOUS
  <2> USE DEF IInv
  <2>1. CASE Swap
    <3>1. TypeOK'
      <4>1. Swapped \in [Index -> Bytes]
        <5>1. i \in Index /\ Mirror(i) \in Index
          BY <2>1, MirrorInIndex DEF Swap, TypeOK, Index
        <5> QED BY <5>1 DEF Swapped, TypeOK
      <4>2. i + 1 \in 0..n
        BY <2>1 DEF Swap, TypeOK
      <4> QED BY <2>1, <4>1, <4>2 DEF Swap, TypeOK, Index
    <3>2. Halfway(orig)'
      BY <2>1, SwapStep DEF Swap
    <3> QED BY <2>1, <3>1, <3>2 DEF Swap
  <2>2. CASE Transmit
    <3>1. arr = orig
      BY <2>2, LoopIsIdentity DEF Transmit
    <3>2. TypeOK'
      BY <2>2 DEF Transmit, TypeOK, Index
    <3>3. Halfway(orig)'
      BY <2>2, <3>1 DEF Transmit, Halfway, Moved, Index, Mirror, TypeOK
    <3> QED BY <2>2, <3>1, <3>2, <3>3 DEF Transmit
  <2>3. CASE Finish
    <3>1. arr = orig
      BY <2>3, LoopIsIdentity DEF Finish
    <3>2. TypeOK'
      BY <2>3 DEF Finish, TypeOK, Index
    <3> QED BY <2>3, <3>1, <3>2 DEF Finish
  <2>4. CASE UNCHANGED vars
    BY <2>4 DEF vars, TypeOK, Halfway, Moved, Index, Mirror
  <2> QED BY <2>1, <2>2, <2>3, <2>4 DEF Next
<1> QED BY <1>1, <1>2, PTL DEF Spec

\* What is deserialized is what was serialized, between machines of the same
\* endianness.
THEOREM RoundTrips ==
  ASSUME Sizes \subseteq Nat
  PROVE  Spec => []RoundTrip
<1>1. IInv => RoundTrip
  BY DEF IInv, RoundTrip
<1> QED BY <1>1, Inductive, PTL

\* The bytes on the wire are the bytes in memory: nothing is reversed.
THEOREM NothingIsReversed ==
  ASSUME Sizes \subseteq Nat
  PROVE  Spec => []WireIsNative
<1>1. IInv => WireIsNative
  BY DEF IInv, WireIsNative
<1> QED BY <1>1, Inductive, PTL
=============================================================================
