---------------------------- MODULE CodecProofs ----------------------------
(***************************************************************************)
(* Theorems about the codec of Codec.tla, for every size of the integers,   *)
(* every message of the program, and every place where one is cut.  A       *)
(* message that arrives whole is read as it was written.  Of a tensor that  *)
(* was cut the handler gets one of the shape it had, or nothing.            *)
(*                                                                         *)
(* Three things carry the argument.  The writer and the reader go through   *)
(* the same list of scalars (Sent), although the reader knows it only by    *)
(* what it has read so far (ReaderFollows).  The loop of Endian gives back  *)
(* what it was given, so a scalar that is there is read as it was written.  *)
(* And a reader that has missed one scalar (CutAt) never gets so far that   *)
(* what it reads out of place could be taken for a shape.                   *)
(***************************************************************************)
EXTENDS Codec, SequenceTheorems, WellFoundedInduction, TLAPS

-----------------------------------------------------------------------------
(* The inductive invariant.                                                *)

Chunks(f) == [k \in DOMAIN f |-> BytesOf(f[k].v, f[k].w)]

\* The first m sequences of s, one after the other.
Prefix(s, m) ==
  LET c[k \in 0 .. Len(s)] == IF k = 0 THEN <<>> ELSE c[k - 1] \o s[k]
  IN c[m]

Wire(o) == Concat(Chunks(Sent(o)))
Offset(o, m) == Len(Prefix(Chunks(Sent(o)), m))

\* The object has as many elements and dimensions as its message says.
Formed(o) == ~ FatalErrors(o, Len(Fields(o)) - 1)

\* The scalar that the loop works on, as it was before the loop.
InHand ==
  LET f == Fields(object)[Len(vals) + 1]
      b == IF stage = "write" THEN BytesOf(f.v, f.w) ELSE SubSeq(data, ptr + 1, ptr + n)
  IN [k \in 0 .. (n - 1) |-> b[k + 1]]

\* One scalar in Endian: half way through the loop, and at its end.
Scalar == INSTANCE EndianProofs
            WITH Bytes <- Byte, Sizes <- Nat, orig <- InHand, wire <- InHand, stage <- "send"

\* The buffer holds the scalars written so far; the last of them has gone to its
\* beginning, and was not written without the checks of Tensor and UpdateFunction.
Writing ==
  LET f == Fields(object)
      m == Len(vals)
  IN /\ m \leq Len(f) /\ whole /\ ptr = 0
     /\ n > 0 => m < Len(f) /\ n = f[m + 1].w /\ ~ FatalErrors(object, m)
     /\ data = IF m = Len(f) THEN Wire(object) ELSE Prefix(Chunks(f), m)
     /\ m = Len(f) => Formed(object)

\* A message that was sent, or the beginning of it, has arrived.
Arrived ==
  /\ Formed(object)
  /\ Len(data) \leq Len(Wire(object))
  /\ \A k \in 1 .. Len(data) : data[k] = Wire(object)[k]
  /\ whole <=> Len(data) = Len(Wire(object))
  /\ n > 0 => stage = "read" /\ n = Width(vals) /\ ptr + n \leq Len(data)

\* All scalars read so far are the ones that were written.
InStep ==
  /\ Len(vals) \leq Len(Sent(object))
  /\ \A k \in 1 .. Len(vals) : vals[k] = Sent(object)[k].v
  /\ ptr = Offset(object, Len(vals))

ReadsTensor == TypeOf(vals[1]) \in TensorTypes

\* Scalar m was the first that was not there.  In place of a number of dimensions,
\* or of a dimension, there is a 0.
CutAt(m) ==
  /\ m \in 1 .. Len(vals) /\ m \leq Len(Sent(object))
  /\ \A k \in 1 .. (m - 1) : vals[k] = Sent(object)[k].v
  /\ Len(data) < Offset(object, m)
  /\ Len(data) - ptr < Sent(object)[m].w
  /\ ReadsTensor => /\ m > 5 => vals[m] = 0
                    /\ m < 7 /\ Len(vals) > 5 => Len(data) - ptr < W16
                    /\ m < 7 /\ Len(vals) > 6 => vals[7] = 0

\* What the reader has got, whatever was cut.
Read ==
  /\ InStep \/ \E m \in 1 .. Len(vals) : CutAt(m)
  /\ Len(vals) > 6 \/ (Len(vals) = 6 /\ n > 0) =>
       (ReadsTensor => vals[6] \in DOMAIN ElemSize)
  /\ stage = "accepted" => Width(vals) = 0 /\ ptr = Len(data)
  /\ stage = "rejected" => Width(vals) = 0 /\ ptr # Len(data)
  /\ stage = "accepted" \/ stage = "rejected" => ~ UnknownElemType(vals)
  /\ stage = "terminated" => UnknownElemType(vals)

IInv ==
  /\ TypeOK
  /\ stage = "write" => Writing
  /\ stage \in {"read", "accepted", "rejected", "terminated"} => Arrived /\ Read
  /\ n > 0 => InHand \in [0 .. (n - 1) -> Byte] /\ Scalar!Halfway(InHand)

-----------------------------------------------------------------------------
(* Recursion over the positions of a sequence.                             *)

\* Every set of numbers has a least element: the library's well-foundedness of
\* the order, as it is used below.
LEMMA LeastElement ==
  ASSUME NEW S, S \subseteq Nat, S # {}
  PROVE  \E x \in S : \A y \in S : x \leq y
<1> DEFINE Less == OpToRel(<, Nat)
<1>1. \A x, y \in Nat : <<x, y>> \in Less <=> x < y
  BY DEF OpToRel
<1>2. IsWellFoundedOn(Less, Nat)
  BY NatLessThanWellFounded
<1> HIDE DEF Less
<1>3. PICK x \in S : \A y \in S : ~ (<<y, x>> \in Less)
  BY <1>2, WFMin
<1>4. ASSUME NEW y \in S PROVE x \leq y
  <2>1. ~ (y < x)
    BY <1>1, <1>3, Zenon
  <2> QED BY <2>1
<1> QED BY <1>4

\* A set of numbers that has 0 and with every number the next one.
LEMMA Induction ==
  ASSUME NEW top \in Nat, NEW G, 0 \in G, \A k \in 1 .. top : k - 1 \in G => k \in G
  PROVE  0 .. top \subseteq G
<1> DEFINE Without == {k \in 0 .. top : k \notin G}
<1> SUFFICES ASSUME Without # {} PROVE FALSE
  OBVIOUS
<1>1. Without \subseteq Nat
  OBVIOUS
<1> HIDE DEF Without
<1>2. PICK m \in Without : \A j \in Without : m \leq j
  BY <1>1, LeastElement
<1>3. m \in 0 .. top /\ m \notin G
  BY DEF Without
<1>4. m \in 1 .. top /\ m - 1 \in 0 .. top /\ ~ (m \leq m - 1)
  BY <1>3
<1>5. m - 1 \in G
  BY <1>2, <1>4 DEF Without
<1> QED BY <1>3, <1>4, <1>5

\* f has f0 at 0, and at k what the step g makes of what it has at k - 1.
Follows(f, f0, g, top) == f[0] = f0 /\ \A k \in 1 .. top : f[k] = g[<<k, f[k - 1]>>]

\* There is such a function.
LEMMA Recursion ==
  ASSUME NEW top \in Nat, NEW S, NEW f0 \in S, NEW g \in [(1 .. top) \X S -> S]
  PROVE  \E f \in [0 .. top -> S] : Follows(f, f0, g, top)
<1> DEFINE G == {m \in 0 .. top : \E f \in [0 .. m -> S] : Follows(f, f0, g, m)}
<1>1. 0 \in G
  <2> DEFINE f == [k \in 0 .. 0 |-> f0]
  <2>1. f \in [0 .. 0 -> S] /\ Follows(f, f0, g, 0)
    BY DEF Follows
  <2> HIDE DEF f
  <2> QED BY <2>1
<1>2. ASSUME NEW m \in 1 .. top, m - 1 \in G PROVE m \in G
  <2>1. PICK f \in [0 .. (m - 1) -> S] : Follows(f, f0, g, m - 1)
    BY <1>2
  <2> DEFINE h == [k \in 0 .. m |-> IF k = m THEN g[<<m, f[m - 1]>>] ELSE f[k]]
  <2>2. m - 1 \in 0 .. (m - 1) /\ f[m - 1] \in S /\ g[<<m, f[m - 1]>>] \in S
    OBVIOUS
  <2>3. h \in [0 .. m -> S]
    BY <2>2
  <2>4. h[0] = f0
    BY <2>1 DEF Follows
  <2>5. ASSUME NEW k \in 1 .. m PROVE h[k] = g[<<k, h[k - 1]>>]
    <3>1. h[k - 1] = f[k - 1]
      OBVIOUS
    <3>2. CASE k = m
      <4>1. h[m] = g[<<m, f[m - 1]>>]
        OBVIOUS
      <4> HIDE DEF h
      <4> QED BY <3>1, <3>2, <4>1
    <3>3. CASE k # m
      <4>1. k \in 1 .. (m - 1) /\ h[k] = f[k]
        BY <3>3
      <4> QED BY <2>1, <3>1, <4>1 DEF Follows
    <3> QED BY <3>2, <3>3
  <2> HIDE DEF h
  <2>6. Follows(h, f0, g, m)
    BY <2>4, <2>5 DEF Follows
  <2> QED BY <2>3, <2>6
<1> HIDE DEF G
<1>3. 0 .. top \subseteq G
  BY <1>1, <1>2, Induction
<1> QED BY <1>3 DEF G

-----------------------------------------------------------------------------
(* The recursive definitions of Codec.                                     *)

LEMMA PowerDef ==
  \A k \in Nat : Power[k] = IF k = 0 THEN 1 ELSE Base * Power[k - 1]
<1> DEFINE Is(f, n_) == /\ f \in [0 .. n_ -> Nat]
                        /\ f[0] = 1
                        /\ \A k \in 1 .. n_ : f[k] = Base * f[k - 1]
<1>0. Base \in Nat
  BY CodecAssumption
<1>1. ASSUME NEW m \in Nat PROVE \E f : Is(f, m)
  <2> DEFINE g == [x \in (1 .. m) \X Nat |-> Base * x[2]]
  <2>1. g \in [(1 .. m) \X Nat -> Nat]
    BY <1>0
  <2>2. \A k \in 1 .. m, a \in Nat : g[<<k, a>>] = Base * a
    OBVIOUS
  <2> HIDE DEF g
  <2>3. PICK f \in [0 .. m -> Nat] : Follows(f, 1, g, m)
    BY <2>1, Recursion
  <2>4. ASSUME NEW k \in 1 .. m PROVE f[k] = Base * f[k - 1]
    <3>1. k - 1 \in 0 .. m /\ f[k - 1] \in Nat
      BY <2>3
    <3> QED BY <2>2, <2>3, <3>1 DEF Follows
  <2> QED BY <2>3, <2>4 DEF Follows
<1>2. ASSUME NEW m \in Nat, NEW k \in 0 .. m, NEW e, NEW f, Is(e, k), Is(f, m)
      PROVE  e[k] = f[k]
  <2> DEFINE G == {j \in 0 .. k : e[j] = f[j]}
  <2>1. 0 \in G
    BY <1>2
  <2>2. ASSUME NEW j \in 1 .. k, j - 1 \in G PROVE j \in G
    <3>1. e[j] = Base * e[j - 1] /\ f[j] = Base * f[j - 1]
      BY <1>2
    <3> QED BY <2>2, <3>1
  <2> HIDE DEF G
  <2>3. 0 .. k \subseteq G
    BY <2>1, <2>2, Induction
  <2> QED BY <2>3 DEF G
<1> DEFINE The(m) == CHOOSE f : Is(f, m)
<1>3. \A m \in Nat : Is(The(m), m)
  BY <1>1
<1> DEFINE P == [k \in Nat |-> The(k)[k]]
<1>4. ASSUME NEW k \in Nat PROVE P[k] = IF k = 0 THEN 1 ELSE Base * P[k - 1]
  <2>1. CASE k = 0
    BY <1>3, <2>1
  <2>2. CASE k # 0
    <3>1. k - 1 \in Nat /\ k - 1 \in 0 .. k /\ k \in 1 .. k
      BY <2>2
    <3>2. The(k - 1)[k - 1] = The(k)[k - 1]
      <4>1. Is(The(k - 1), k - 1) /\ Is(The(k), k)
        BY <1>3, <3>1
      <4> HIDE DEF The, Is
      <4> QED BY <1>2, <3>1, <4>1
    <3>3. The(k)[k] = Base * The(k)[k - 1]
      BY <1>3, <3>1
    <3> HIDE DEF The
    <3> QED BY <2>2, <3>1, <3>2, <3>3
  <2> QED BY <2>1, <2>2
<1> DEFINE Q(p) == p = [k \in Nat |-> IF k = 0 THEN 1 ELSE Base * p[k - 1]]
<1>5. Q(P)
  <2> HIDE DEF P, The, Is
  <2>1. P = [k \in Nat |-> P[k]]
    BY DEF P
  <2> QED BY <1>4, <2>1
<1>6. Power = CHOOSE p : Q(p)
  BY DEF Power
<1>7. Q(Power)
  <2> HIDE DEF P, Q
  <2> QED BY <1>5, <1>6
<1> QED BY <1>7

LEMMA PowerFacts ==
  /\ Power[0] = 1
  /\ \A k \in Nat : Power[k] \in Nat \ {0} /\ Power[k + 1] = Base * Power[k]
<1>0. Base \in Nat \ {0}
  BY CodecAssumption
<1>1. Power[0] = 1
  BY PowerDef
<1>2. ASSUME NEW k \in Nat PROVE Power[k + 1] = Base * Power[k]
  BY PowerDef
<1>3. ASSUME NEW m \in Nat PROVE Power[m] \in Nat \ {0}
  <2> DEFINE G == {k \in 0 .. m : Power[k] \in Nat \ {0}}
  <2>1. 0 \in G
    BY <1>1
  <2>2. ASSUME NEW k \in 1 .. m, k - 1 \in G PROVE k \in G
    <3>1. Power[k] = Base * Power[k - 1] /\ Power[k - 1] \in Nat \ {0}
      BY <2>2, PowerDef
    <3> QED BY <1>0, <3>1
  <2> HIDE DEF G
  <2>3. 0 .. m \subseteq G
    BY <2>1, <2>2, Induction
  <2> QED BY <2>3 DEF G
<1> QED BY <1>1, <1>2, <1>3

LEMMA PrefixFacts ==
  ASSUME NEW T, NEW s \in Seq(Seq(T))
  PROVE  /\ Prefix(s, 0) = <<>>
         /\ \A m \in 0 .. Len(s) : Prefix(s, m) \in Seq(T)
         /\ \A m \in 1 .. Len(s) : Prefix(s, m) = Prefix(s, m - 1) \o s[m]
         /\ Concat(s) = Prefix(s, Len(s))
<1> DEFINE l == Len(s)
           Q(c) == c = [k \in 0 .. l |-> IF k = 0 THEN <<>> ELSE c[k - 1] \o s[k]]
           g == [x \in (1 .. l) \X Seq(T) |-> x[2] \o s[x[1]]]
<1>1. l \in Nat /\ \A k \in 1 .. l : s[k] \in Seq(T)
  OBVIOUS
<1>2. g \in [(1 .. l) \X Seq(T) -> Seq(T)]
  BY <1>1
<1>3. \A k \in 1 .. l, a \in Seq(T) : g[<<k, a>>] = a \o s[k]
  OBVIOUS
<1>4. \E c \in [0 .. l -> Seq(T)] : Q(c)
  <2> HIDE DEF g, l
  <2>0. <<>> \in Seq(T)
    OBVIOUS
  <2>1. PICK c \in [0 .. l -> Seq(T)] : Follows(c, <<>>, g, l)
    BY <1>1, <1>2, <2>0, Recursion
  <2>2. ASSUME NEW k \in 0 .. l PROVE c[k] = IF k = 0 THEN <<>> ELSE c[k - 1] \o s[k]
    <3>1. CASE k = 0
      BY <2>1, <3>1 DEF Follows
    <3>2. CASE k # 0
      <4>1. k \in 1 .. l /\ k - 1 \in 0 .. l
        BY <1>1, <3>2
      <4>2. c[k - 1] \in Seq(T) /\ c[k] = g[<<k, c[k - 1]>>]
        BY <2>1, <4>1 DEF Follows
      <4> QED BY <1>3, <3>2, <4>1, <4>2
    <3> QED BY <3>1, <3>2
  <2>3. c = [k \in 0 .. l |-> c[k]]
    BY <2>1
  <2>4. Q(c)
    BY <2>2, <2>3
  <2> QED BY <2>4
<1> DEFINE c == CHOOSE c : Q(c)
<1>5. Q(c)
  BY <1>4
<1>6. /\ \A m : Prefix(s, m) = c[m]
      /\ Concat(s) = c[l]
  BY DEF Prefix, Concat
<1> HIDE DEF c
<1>7. c[0] = <<>> /\ \A m \in 1 .. l : c[m] = c[m - 1] \o s[m]
  <2> HIDE DEF l
  <2>1. \A m \in 0 .. l : c[m] = IF m = 0 THEN <<>> ELSE c[m - 1] \o s[m]
    BY <1>5
  <2>2. 0 \in 0 .. l /\ \A m \in 1 .. l : m \in 0 .. l /\ m # 0
    BY <1>1
  <2> QED BY <2>1, <2>2
<1>8. \A m \in 0 .. l : c[m] \in Seq(T)
  <2> DEFINE G == {m \in 0 .. l : c[m] \in Seq(T)}
  <2> HIDE DEF l
  <2>1. 0 \in G
    <3>1. <<>> \in Seq(T) /\ 0 \in 0 .. l
      BY <1>1
    <3> QED BY <1>7, <3>1
  <2>2. ASSUME NEW m \in 1 .. l, m - 1 \in G PROVE m \in G
    <3>1. c[m - 1] \in Seq(T) /\ s[m] \in Seq(T) /\ c[m] = c[m - 1] \o s[m]
      BY <1>1, <1>7, <2>2
    <3>2. c[m] \in Seq(T) /\ m \in 0 .. l
      BY <1>1, <3>1
    <3> QED BY <3>2
  <2> HIDE DEF G
  <2>3. 0 .. l \subseteq G
    BY <1>1, <2>1, <2>2, Induction
  <2> QED BY <2>3 DEF G
<1> QED BY <1>6, <1>7, <1>8

\* The first m factors, and the first m bytes.
PartProduct(s, m) ==
  LET p[k \in 0 .. Len(s)] == IF k = 0 THEN 1 ELSE p[k - 1] * s[k]
  IN p[m]

PartValue(b, m) ==
  LET low[k \in 0 .. Len(b)] == IF k = 0 THEN 0 ELSE low[k - 1] + b[k] * Power[k - 1]
  IN low[m]

LEMMA ProductFacts ==
  ASSUME NEW s \in Seq(Nat)
  PROVE  /\ PartProduct(s, 0) = 1
         /\ \A m \in 0 .. Len(s) : PartProduct(s, m) \in Nat
         /\ \A m \in 1 .. Len(s) : PartProduct(s, m) = PartProduct(s, m - 1) * s[m]
         /\ Product(s) = PartProduct(s, Len(s))
<1> DEFINE l == Len(s)
           Q(p) == p = [k \in 0 .. l |-> IF k = 0 THEN 1 ELSE p[k - 1] * s[k]]
           g == [x \in (1 .. l) \X Nat |-> x[2] * s[x[1]]]
<1>1. l \in Nat /\ \A k \in 1 .. l : s[k] \in Nat
  OBVIOUS
<1>2. g \in [(1 .. l) \X Nat -> Nat]
  BY <1>1
<1>3. \A k \in 1 .. l, a \in Nat : g[<<k, a>>] = a * s[k]
  OBVIOUS
<1>4. \E p \in [0 .. l -> Nat] : Q(p)
  <2> HIDE DEF g, l
  <2>1. PICK p \in [0 .. l -> Nat] : Follows(p, 1, g, l)
    BY <1>1, <1>2, Recursion
  <2>2. ASSUME NEW k \in 0 .. l PROVE p[k] = IF k = 0 THEN 1 ELSE p[k - 1] * s[k]
    <3>1. CASE k = 0
      BY <2>1, <3>1 DEF Follows
    <3>2. CASE k # 0
      <4>1. k \in 1 .. l /\ k - 1 \in 0 .. l
        BY <1>1, <3>2
      <4>2. p[k - 1] \in Nat /\ p[k] = g[<<k, p[k - 1]>>]
        BY <2>1, <4>1 DEF Follows
      <4> QED BY <1>3, <3>2, <4>1, <4>2
    <3> QED BY <3>1, <3>2
  <2>3. p = [k \in 0 .. l |-> p[k]]
    BY <2>1
  <2>4. Q(p)
    BY <2>2, <2>3
  <2> QED BY <2>4
<1> DEFINE p == CHOOSE p : Q(p)
<1>5. Q(p)
  BY <1>4
<1>6. /\ \A m : PartProduct(s, m) = p[m]
      /\ Product(s) = p[l]
  BY DEF PartProduct, Product
<1> HIDE DEF p
<1>7. p[0] = 1 /\ \A m \in 1 .. l : p[m] = p[m - 1] * s[m]
  <2> HIDE DEF l
  <2>1. \A m \in 0 .. l : p[m] = IF m = 0 THEN 1 ELSE p[m - 1] * s[m]
    BY <1>5
  <2>2. 0 \in 0 .. l /\ \A m \in 1 .. l : m \in 0 .. l /\ m # 0
    BY <1>1
  <2> QED BY <2>1, <2>2
<1>8. \A m \in 0 .. l : p[m] \in Nat
  <2> DEFINE G == {m \in 0 .. l : p[m] \in Nat}
  <2> HIDE DEF l
  <2>1. 0 \in G
    BY <1>1, <1>7
  <2>2. ASSUME NEW m \in 1 .. l, m - 1 \in G PROVE m \in G
    <3>1. p[m - 1] \in Nat /\ s[m] \in Nat /\ p[m] = p[m - 1] * s[m]
      BY <1>1, <1>7, <2>2
    <3>2. p[m] \in Nat /\ m \in 0 .. l
      BY <1>1, <3>1
    <3> QED BY <3>2
  <2> HIDE DEF G
  <2>3. 0 .. l \subseteq G
    BY <1>1, <2>1, <2>2, Induction
  <2> QED BY <2>3 DEF G
<1> QED BY <1>6, <1>7, <1>8

LEMMA ValueFacts ==
  ASSUME NEW b \in Seq(Nat)
  PROVE  /\ PartValue(b, 0) = 0
         /\ \A m \in 0 .. Len(b) : PartValue(b, m) \in Nat
         /\ \A m \in 1 .. Len(b) :
              PartValue(b, m) = PartValue(b, m - 1) + b[m] * Power[m - 1]
         /\ Value(b) = PartValue(b, Len(b))
<1> DEFINE l == Len(b)
           Q(p) == p = [k \in 0 .. l |-> IF k = 0 THEN 0 ELSE p[k - 1] + b[k] * Power[k - 1]]
           g == [x \in (1 .. l) \X Nat |-> x[2] + b[x[1]] * Power[x[1] - 1]]
<1>1. l \in Nat /\ \A k \in 1 .. l : b[k] \in Nat /\ Power[k - 1] \in Nat
                                     /\ b[k] * Power[k - 1] \in Nat
  <2>1. l \in Nat /\ \A k \in 1 .. l : b[k] \in Nat /\ k - 1 \in Nat
    OBVIOUS
  <2> HIDE DEF l
  <2>2. \A k \in 1 .. l : Power[k - 1] \in Nat
    BY <2>1, PowerFacts
  <2> QED BY <2>1, <2>2
<1>2. g \in [(1 .. l) \X Nat -> Nat]
  BY <1>1, SMTT(60)
<1>3. \A k \in 1 .. l, a \in Nat : g[<<k, a>>] = a + b[k] * Power[k - 1]
  OBVIOUS
<1>4. \E p \in [0 .. l -> Nat] : Q(p)
  <2> HIDE DEF g, l
  <2>1. PICK p \in [0 .. l -> Nat] : Follows(p, 0, g, l)
    BY <1>1, <1>2, Recursion
  <2>2. ASSUME NEW k \in 0 .. l
        PROVE  p[k] = IF k = 0 THEN 0 ELSE p[k - 1] + b[k] * Power[k - 1]
    <3>1. CASE k = 0
      BY <2>1, <3>1 DEF Follows
    <3>2. CASE k # 0
      <4>1. k \in 1 .. l /\ k - 1 \in 0 .. l
        BY <1>1, <3>2
      <4>2. p[k - 1] \in Nat /\ p[k] = g[<<k, p[k - 1]>>]
        BY <2>1, <4>1 DEF Follows
      <4> QED BY <1>3, <3>2, <4>1, <4>2
    <3> QED BY <3>1, <3>2
  <2>3. p = [k \in 0 .. l |-> p[k]]
    BY <2>1
  <2>4. Q(p)
    BY <2>2, <2>3
  <2> QED BY <2>4
<1> DEFINE p == CHOOSE p : Q(p)
<1>5. Q(p)
  BY <1>4
<1>6. /\ \A m : PartValue(b, m) = p[m]
      /\ Value(b) = p[l]
  BY DEF PartValue, Value
<1> HIDE DEF p
<1>7. p[0] = 0 /\ \A m \in 1 .. l : p[m] = p[m - 1] + b[m] * Power[m - 1]
  <2> HIDE DEF l
  <2>1. \A m \in 0 .. l : p[m] = IF m = 0 THEN 0 ELSE p[m - 1] + b[m] * Power[m - 1]
    BY <1>5
  <2>2. 0 \in 0 .. l /\ \A m \in 1 .. l : m \in 0 .. l /\ m # 0
    BY <1>1
  <2> QED BY <2>1, <2>2
<1>8. \A m \in 0 .. l : p[m] \in Nat
  <2> DEFINE G == {m \in 0 .. l : p[m] \in Nat}
  <2> HIDE DEF l
  <2>1. 0 \in G
    BY <1>1, <1>7
  <2>2. ASSUME NEW m \in 1 .. l, m - 1 \in G PROVE m \in G
    <3>1. /\ p[m - 1] \in Nat /\ b[m] * Power[m - 1] \in Nat
          /\ p[m] = p[m - 1] + b[m] * Power[m - 1]
      BY <1>1, <1>7, <2>2
    <3>2. p[m] \in Nat /\ m \in 0 .. l
      BY <1>1, <3>1
    <3> QED BY <3>2
  <2> HIDE DEF G
  <2>3. 0 .. l \subseteq G
    BY <1>1, <2>1, <2>2, Induction
  <2> QED BY <2>3 DEF G
<1> QED BY <1>6, <1>7, <1>8

-----------------------------------------------------------------------------
(* The byte loop on a tensor element.                                      *)

PartLoop(b, m) ==
  LET loop[k \in 0 .. Len(b)] ==
        IF k = 0 THEN b
        ELSE [loop[k - 1] EXCEPT ![k] = loop[k - 1][Len(b) + 1 - k],
                                 ![Len(b) + 1 - k] = loop[k - 1][k]]
  IN loop[m]

\* Step m of the loop on an array f of l bytes.
LoopStep(f, m, l) == [f EXCEPT ![m] = f[l + 1 - m], ![l + 1 - m] = f[m]]

LEMMA LoopFacts ==
  ASSUME NEW S, NEW b \in Seq(S)
  PROVE  /\ PartLoop(b, 0) = b
         /\ \A m \in 0 .. Len(b) : PartLoop(b, m) \in [1 .. Len(b) -> S]
         /\ \A m \in 1 .. Len(b) : PartLoop(b, m) = LoopStep(PartLoop(b, m - 1), m, Len(b))
         /\ ToBigEndian(b) = PartLoop(b, Len(b))
<1> DEFINE l == Len(b)
           A == [1 .. l -> S]
           Q(p) == p = [k \in 0 .. l |-> IF k = 0 THEN b ELSE LoopStep(p[k - 1], k, l)]
           g == [x \in (1 .. l) \X A |-> LoopStep(x[2], x[1], l)]
<1>1. l \in Nat /\ b \in A
  OBVIOUS
<1>2. ASSUME NEW m \in 1 .. l, NEW f \in A PROVE LoopStep(f, m, l) \in A
  <2>1. l + 1 - m \in 1 .. l
    BY <1>1
  <2> HIDE DEF l
  <2>2. f[m] \in S /\ f[l + 1 - m] \in S
    BY <2>1
  <2> QED BY <2>1, <2>2 DEF LoopStep
<1>3. g \in [(1 .. l) \X A -> A]
  <2> HIDE DEF A
  <2> QED BY <1>2
<1>4. \A k \in 1 .. l, f \in A : g[<<k, f>>] = LoopStep(f, k, l)
  <2> HIDE DEF A
  <2> QED OBVIOUS
<1>5. \E p \in [0 .. l -> A] : Q(p)
  <2> HIDE DEF g, l, A
  <2>1. PICK p \in [0 .. l -> A] : Follows(p, b, g, l)
    BY <1>1, <1>3, Recursion
  <2>2. ASSUME NEW k \in 0 .. l
        PROVE  p[k] = IF k = 0 THEN b ELSE LoopStep(p[k - 1], k, l)
    <3>1. CASE k = 0
      BY <2>1, <3>1 DEF Follows
    <3>2. CASE k # 0
      <4>1. k \in 1 .. l /\ k - 1 \in 0 .. l
        BY <1>1, <3>2
      <4>2. p[k - 1] \in A /\ p[k] = g[<<k, p[k - 1]>>]
        BY <2>1, <4>1 DEF Follows
      <4> QED BY <1>4, <3>2, <4>1, <4>2
    <3> QED BY <3>1, <3>2
  <2>3. p = [k \in 0 .. l |-> p[k]]
    BY <2>1
  <2>4. Q(p)
    BY <2>2, <2>3
  <2> QED BY <2>4
<1> DEFINE p == CHOOSE p : Q(p)
<1>6. Q(p)
  BY <1>5
<1>7. /\ \A m : PartLoop(b, m) = p[m]
      /\ ToBigEndian(b) = p[l]
  BY DEF PartLoop, ToBigEndian, LoopStep
<1> HIDE DEF p
<1>8. p[0] = b /\ \A m \in 1 .. l : p[m] = LoopStep(p[m - 1], m, l)
  <2> HIDE DEF l
  <2>1. \A m \in 0 .. l : p[m] = IF m = 0 THEN b ELSE LoopStep(p[m - 1], m, l)
    BY <1>6
  <2>2. 0 \in 0 .. l /\ \A m \in 1 .. l : m \in 0 .. l /\ m # 0
    BY <1>1
  <2> QED BY <2>1, <2>2
<1>9. \A m \in 0 .. l : p[m] \in A
  <2> DEFINE G == {m \in 0 .. l : p[m] \in A}
  <2> HIDE DEF l, A
  <2>1. 0 \in G
    BY <1>1, <1>8
  <2>2. ASSUME NEW m \in 1 .. l, m - 1 \in G PROVE m \in G
    <3>1. p[m - 1] \in A /\ p[m] = LoopStep(p[m - 1], m, l)
      BY <1>8, <2>2
    <3>2. p[m] \in A /\ m \in 0 .. l
      BY <1>1, <1>2, <3>1
    <3> QED BY <3>2
  <2> HIDE DEF G
  <2>3. 0 .. l \subseteq G
    BY <1>1, <2>1, <2>2, Induction
  <2> QED BY <2>3 DEF G
<1> QED BY <1>7, <1>8, <1>9

\* The loop swaps back in its second half what it swapped in the first.
LEMMA LoopReturns ==
  ASSUME NEW S, NEW b \in Seq(S)
  PROVE  ToBigEndian(b) = b
<1> DEFINE l == Len(b)
           Half(f, m) == \A j \in 1 .. l :
                           f[j] = IF (j \leq m) # (l + 1 - j \leq m) THEN b[l + 1 - j] ELSE b[j]
           G == {m \in 0 .. l : Half(PartLoop(b, m), m)}
<1>1. l \in Nat /\ b \in [1 .. l -> S]
  OBVIOUS
<1>2. /\ PartLoop(b, 0) = b /\ ToBigEndian(b) = PartLoop(b, l)
      /\ \A m \in 0 .. l : PartLoop(b, m) \in [1 .. l -> S]
      /\ \A m \in 1 .. l : PartLoop(b, m) = LoopStep(PartLoop(b, m - 1), m, l)
  BY LoopFacts
<1> HIDE DEF l
<1>3. 0 \in G
  BY <1>1, <1>2
<1>4. ASSUME NEW m \in 1 .. l, m - 1 \in G PROVE m \in G
  <2>1. PICK f \in [1 .. l -> S] : f = PartLoop(b, m - 1) /\ Half(f, m - 1)
    BY <1>1, <1>2, <1>4
  <2>2. PICK h : h = PartLoop(b, m) /\ h = LoopStep(f, m, l)
    BY <1>2, <2>1
  <2>3. ASSUME NEW j \in 1 .. l
        PROVE  h[j] = IF j = l + 1 - m THEN f[m] ELSE IF j = m THEN f[l + 1 - m] ELSE f[j]
    <3>1. l + 1 - m \in 1 .. l
      BY <1>1
    <3> QED BY <2>2, <3>1 DEF LoopStep
  <2>4. Half(h, m)
    <3> SUFFICES ASSUME NEW j \in 1 .. l
                 PROVE  h[j] = IF (j \leq m) # (l + 1 - j \leq m) THEN b[l + 1 - j] ELSE b[j]
      OBVIOUS
    <3>1. l + 1 - m \in 1 .. l /\ l + 1 - (l + 1 - m) = m
      BY <1>1
    <3>2. f[j] = IF (j \leq m - 1) # (l + 1 - j \leq m - 1) THEN b[l + 1 - j] ELSE b[j]
      BY <2>1
    <3>3. f[m] = IF (m \leq m - 1) # (l + 1 - m \leq m - 1) THEN b[l + 1 - m] ELSE b[m]
      BY <2>1
    <3>4. f[l + 1 - m] = IF (l + 1 - m \leq m - 1) # (m \leq m - 1) THEN b[m] ELSE b[l + 1 - m]
      BY <2>1, <3>1
    <3>5. CASE j = l + 1 - m
      BY <1>1, <2>3, <3>1, <3>3, <3>5
    <3>6. CASE j = m /\ j # l + 1 - m
      BY <1>1, <2>3, <3>4, <3>6
    <3>7. CASE j # m /\ j # l + 1 - m
      BY <1>1, <2>3, <3>2, <3>7
    <3> QED BY <3>5, <3>6, <3>7
  <2>5. m \in 0 .. l
    BY <1>1
  <2> QED BY <2>2, <2>4, <2>5
<1> HIDE DEF G
<1>5. l \in G
  <2>1. 0 .. l \subseteq G
    BY <1>1, <1>3, <1>4, Induction
  <2> QED BY <1>1, <2>1
<1>6. \A j \in 1 .. l : PartLoop(b, l)[j] = b[j]
  BY <1>1, <1>5 DEF G
<1>7. PartLoop(b, l) \in [1 .. l -> S]
  BY <1>1, <1>2
<1> QED BY <1>1, <1>2, <1>6, <1>7

-----------------------------------------------------------------------------
(* Arithmetic.                                                             *)

LEMMA Division ==
  ASSUME NEW v \in Nat, NEW m \in Nat \ {0}
  PROVE  v \div m \in Nat /\ v % m \in 0 .. (m - 1) /\ v = m * (v \div m) + (v % m)
OBVIOUS

LEMMA DivisionUnique ==
  ASSUME NEW v \in Nat, NEW m \in Nat \ {0}, NEW q \in Nat, NEW r \in 0 .. (m - 1),
         v = m * q + r
  PROVE  v \div m = q /\ v % m = r
OBVIOUS

LEMMA MultiplyLess ==
  ASSUME NEW a \in Nat, NEW b \in Nat, NEW c \in Nat, NEW d \in Nat, a \leq b, c \leq d
  PROVE  a * c \leq b * d /\ (a < b /\ 0 < d => a * c < b * d)
         /\ (0 < b /\ c < d => a * c < b * d)
<1>1. a * c \leq b * c /\ b * c \leq b * d
  OBVIOUS
<1>2. a < b /\ 0 < c => a * c < b * c
  OBVIOUS
<1>3. 0 < b /\ c < d => b * c < b * d
  OBVIOUS
<1> QED BY <1>1, <1>2, <1>3

\* One more digit of v in base m, above the power p of it.
LEMMA NextDigit ==
  ASSUME NEW v \in Nat, NEW m \in Nat \ {0}, NEW p \in Nat \ {0}
  PROVE  v % (m * p) = (v % p) + ((v \div p) % m) * p
<1> DEFINE q == v \div p
           r == v % p
           e == q \div m
           d == q % m
<1>1. q \in Nat /\ r \in 0 .. (p - 1) /\ v = p * q + r
  BY Division
<1>2. e \in Nat /\ d \in 0 .. (m - 1) /\ q = m * e + d
  BY <1>1, Division
<1> HIDE DEF q, r, e, d
<1>3. v = (m * p) * e + (r + d * p)
  BY <1>1, <1>2
<1>4. m * p \in Nat \ {0} /\ r + d * p \in Nat
  BY <1>1, <1>2
<1>5. r + d * p \leq m * p - 1
  <2> DEFINE x == d * p
             y == m * p
  <2>1. x \leq (m - 1) * p /\ (m - 1) * p = y - p /\ x \in Nat /\ y \in Nat
    BY <1>2
  <2> HIDE DEF x, y
  <2>2. r + x \leq y - 1
    BY <1>1, <2>1
  <2> QED BY <2>2 DEF x, y
<1>6. v % (m * p) = r + d * p
  <2> DEFINE x == r + d * p
             y == m * p
  <2>1. v = y * e + x /\ y \in Nat \ {0} /\ x \in 0 .. (y - 1) /\ e \in Nat
    BY <1>2, <1>3, <1>4, <1>5
  <2> HIDE DEF x, y
  <2>2. v % y = x
    BY <2>1, DivisionUnique
  <2> QED BY <2>2 DEF x, y
<1> QED BY <1>6 DEF q, r, d

\* The bytes of a number that fits into them have its value.
LEMMA BytesOfFacts ==
  ASSUME NEW v \in Nat, NEW w \in Nat
  PROVE  /\ BytesOf(v, w) \in Seq(Byte) /\ Len(BytesOf(v, w)) = w
         /\ \A k \in 1 .. w : BytesOf(v, w)[k] = (v \div Power[k - 1]) % Base
<1>1. ASSUME NEW k \in 1 .. w PROVE (v \div Power[k - 1]) % Base \in Byte
  <2>1. Power[k - 1] \in Nat \ {0} /\ Base \in Nat \ {0}
    BY PowerFacts, CodecAssumption
  <2>2. v \div Power[k - 1] \in Nat
    BY <2>1, Division
  <2> DEFINE q == v \div Power[k - 1]
  <2> HIDE DEF q
  <2>3. q % Base \in 0 .. (Base - 1)
    BY <2>1, <2>2, Division DEF q
  <2> QED BY <2>3 DEF q, Byte
<1> DEFINE d(k) == (v \div Power[k - 1]) % Base
           b == [k \in 1 .. w |-> d(k)]
<1>2. BytesOf(v, w) = b
  BY DEF BytesOf
<1>3. \A k \in 1 .. w : d(k) \in Byte
  BY <1>1
<1>4. \A k \in 1 .. w : b[k] = d(k)
  OBVIOUS
<1>5. b \in [1 .. w -> Byte]
  BY <1>3
<1> HIDE DEF b
<1>6. b \in Seq(Byte)
  BY <1>5, SeqDef
<1>7. Len(b) = w
  BY <1>5, <1>6, LenProperties
<1> QED BY <1>2, <1>4, <1>6, <1>7

LEMMA ValueOfBytes ==
  ASSUME NEW w \in Nat, NEW v \in 0 .. (Power[w] - 1)
  PROVE  Value(BytesOf(v, w)) = v
<1> DEFINE b == BytesOf(v, w)
           G == {m \in 0 .. w : PartValue(b, m) = v % Power[m]}
<1>0. /\ Base \in Nat \ {0} /\ v \in Nat
      /\ \A k \in Nat : Power[k] \in Nat \ {0}
  BY PowerFacts, CodecAssumption
<1>1. b \in Seq(Byte) /\ Len(b) = w /\ \A k \in 1 .. w : b[k] = (v \div Power[k - 1]) % Base
  BY BytesOfFacts
<1>2. b \in Seq(Nat)
  BY <1>0, <1>1, SeqMonotonic DEF Byte
<1>3. /\ PartValue(b, 0) = 0 /\ Value(b) = PartValue(b, w)
      /\ \A m \in 1 .. w : PartValue(b, m) = PartValue(b, m - 1) + b[m] * Power[m - 1]
  BY <1>1, <1>2, ValueFacts
<1> HIDE DEF b
<1>4. 0 \in G
  <2>1. v % Power[0] = 0
    BY <1>0, PowerFacts
  <2> QED BY <1>3, <2>1
<1>5. ASSUME NEW m \in 1 .. w, m - 1 \in G PROVE m \in G
  <2> DEFINE p == Power[m - 1]
  <2>1. p \in Nat \ {0} /\ Power[m] = Base * p
    BY <1>0, PowerDef
  <2>2. PartValue(b, m) = (v % p) + ((v \div p) % Base) * p
    BY <1>1, <1>3, <1>5
  <2> HIDE DEF p
  <2>3. v % (Base * p) = (v % p) + ((v \div p) % Base) * p
    BY <1>0, <2>1, NextDigit
  <2>4. PartValue(b, m) = v % Power[m] /\ m \in 0 .. w
    BY <2>1, <2>2, <2>3
  <2> QED BY <2>4
<1> HIDE DEF G
<1>6. 0 .. w \subseteq G
  BY <1>4, <1>5, Induction
<1>7. PartValue(b, w) = v % Power[w]
  BY <1>6 DEF G
<1>8. v % Power[w] = v
  <2> DEFINE p == Power[w]
  <2>1. p \in Nat \ {0} /\ v \in 0 .. (p - 1) /\ v = p * 0 + v
    BY <1>0
  <2> HIDE DEF p
  <2>2. v % p = v
    BY <1>0, <2>1, DivisionUnique
  <2> QED BY <2>2 DEF p
<1> QED BY <1>3, <1>7, <1>8 DEF b

\* A product with a zero in it.
LEMMA ZeroProduct ==
  ASSUME NEW s \in Seq(Nat), NEW j \in 1 .. Len(s), s[j] = 0
  PROVE  Product(s) = 0
<1> DEFINE l == Len(s)
           G == {m \in 0 .. l : m < j \/ PartProduct(s, m) = 0}
<1>1. /\ l \in Nat /\ j \in 1 .. l /\ Product(s) = PartProduct(s, l)
      /\ \A m \in 0 .. l : PartProduct(s, m) \in Nat
      /\ \A m \in 1 .. l : PartProduct(s, m) = PartProduct(s, m - 1) * s[m] /\ s[m] \in Nat
  BY ProductFacts
<1> HIDE DEF l
<1>2. 0 \in G
  BY <1>1
<1>3. ASSUME NEW m \in 1 .. l, m - 1 \in G PROVE m \in G
  <2>1. CASE m < j
    BY <2>1
  <2>2. CASE m = j
    <3>1. PartProduct(s, m) = PartProduct(s, m - 1) * 0 /\ PartProduct(s, m - 1) \in Nat
      BY <1>1, <2>2
    <3>2. PartProduct(s, m) = 0
      BY <3>1
    <3> QED BY <3>2
  <2>3. CASE m > j
    <3>1. PartProduct(s, m - 1) = 0
      BY <1>1, <1>3, <2>3
    <3>2. PartProduct(s, m) = 0 * s[m] /\ s[m] \in Nat
      BY <1>1, <3>1
    <3>3. PartProduct(s, m) = 0
      BY <3>2
    <3> QED BY <3>3
  <2> QED BY <1>1, <2>1, <2>2, <2>3
<1> HIDE DEF G
<1>4. 0 .. l \subseteq G
  BY <1>1, <1>2, <1>3, Induction
<1> QED BY <1>1, <1>4 DEF G

\* Factors that are not larger, one of them smaller, have a smaller product.
LEMMA SmallerProduct ==
  ASSUME NEW s \in Seq(Nat), NEW t \in Seq(Nat), Len(t) = Len(s),
         \A k \in 1 .. Len(s) : t[k] \leq s[k] /\ 0 < s[k],
         NEW j \in 1 .. Len(s), t[j] < s[j]
  PROVE  Product(t) < Product(s)
<1> DEFINE l == Len(s)
           S(m) == PartProduct(s, m)
           T(m) == PartProduct(t, m)
           G == {m \in 0 .. l : 0 < S(m) /\ T(m) \leq S(m) /\ (j \leq m => T(m) < S(m))}
<1>0. /\ l \in Nat /\ j \in 1 .. l
      /\ \A m \in 1 .. l : s[m] \in Nat /\ t[m] \in Nat
  BY SMTT(60)
<1>1. /\ l \in Nat /\ j \in 1 .. l /\ S(0) = 1 /\ Product(s) = S(l)
      /\ \A m \in 0 .. l : S(m) \in Nat
      /\ \A m \in 1 .. l : S(m) = S(m - 1) * s[m] /\ s[m] \in Nat
  <2>1. /\ S(0) = 1 /\ Product(s) = S(l)
        /\ \A m \in 0 .. l : S(m) \in Nat
        /\ \A m \in 1 .. l : S(m) = S(m - 1) * s[m]
    BY ProductFacts
  <2> QED BY <1>0, <2>1
<1>2. /\ T(0) = 1 /\ Product(t) = T(l)
      /\ \A m \in 0 .. l : T(m) \in Nat
      /\ \A m \in 1 .. l : T(m) = T(m - 1) * t[m] /\ t[m] \in Nat
  <2>1. /\ T(0) = 1 /\ Product(t) = T(Len(t))
        /\ \A m \in 0 .. Len(t) : T(m) \in Nat
        /\ \A m \in 1 .. Len(t) : T(m) = T(m - 1) * t[m]
    BY ProductFacts
  <2> HIDE DEF T
  <2> QED BY <1>0, <2>1
<1>3. \A k \in 1 .. l : t[k] \leq s[k] /\ 0 < s[k]
  OBVIOUS
<1> HIDE DEF l, S, T
<1>4. 0 \in G
  <2>1. 0 \in 0 .. l /\ ~ (j \leq 0)
    BY <1>1
  <2>2. S(0) = 1 /\ T(0) = 1
    BY <1>1, <1>2
  <2>3. 0 < S(0) /\ T(0) \leq S(0)
    BY <2>2
  <2> QED BY <2>1, <2>3
<1>5. ASSUME NEW m \in 1 .. l, m - 1 \in G PROVE m \in G
  <2> DEFINE a == T(m - 1)
             b == S(m - 1)
             c == t[m]
             d == s[m]
  <2>1. /\ a \in Nat /\ b \in Nat /\ c \in Nat /\ d \in Nat
        /\ a \leq b /\ c \leq d /\ 0 < b /\ 0 < d
        /\ T(m) = a * c /\ S(m) = b * d
        /\ (j \leq m - 1 => a < b) /\ (j = m => c < d)
    BY <1>1, <1>2, <1>3, <1>5
  <2> HIDE DEF a, b, c, d
  <2>2. a * c \leq b * d /\ (a < b => a * c < b * d) /\ (c < d => a * c < b * d)
    BY <2>1, MultiplyLess
  <2>3. 0 < b * d
    BY <2>1
  <2>4. j \leq m => j \leq m - 1 \/ j = m
    BY <1>1
  <2>5. 0 < S(m) /\ T(m) \leq S(m) /\ (j \leq m => T(m) < S(m)) /\ m \in 0 .. l
    BY <1>1, <2>1, <2>2, <2>3, <2>4
  <2> QED BY <2>5
<1> HIDE DEF G
<1>6. 0 .. l \subseteq G
  BY <1>1, <1>4, <1>5, Induction
<1> QED BY <1>1, <1>2, <1>6 DEF G

-----------------------------------------------------------------------------
(* Sequences one after the other.                                          *)

\* c is a and after it b.
Joined(c, a, b) ==
  /\ Len(a) \in Nat /\ Len(b) \in Nat /\ Len(c) = Len(a) + Len(b)
  /\ \A k \in 1 .. Len(a) : c[k] = a[k]
  /\ \A k \in 1 .. Len(b) : c[Len(a) + k] = b[k]

LEMMA JoinFacts ==
  ASSUME NEW T, NEW a \in Seq(T), NEW b \in Seq(T)
  PROVE  a \o b \in Seq(T) /\ Joined(a \o b, a, b)
<1>1. a \o b \in Seq(T) /\ Len(a) \in Nat /\ Len(b) \in Nat /\ Len(a \o b) = Len(a) + Len(b)
  OBVIOUS
<1>2. ASSUME NEW k \in 1 .. Len(a) PROVE (a \o b)[k] = a[k]
  OBVIOUS
<1>3. ASSUME NEW k \in 1 .. Len(b) PROVE (a \o b)[Len(a) + k] = b[k]
  <2>1. Len(a) + k \in 1 .. (Len(a) + Len(b)) /\ ~ (Len(a) + k \leq Len(a)) /\ Len(a) + k - Len(a) = k
    BY <1>1
  <2> QED BY <1>1, <2>1
<1> QED BY <1>1, <1>2, <1>3 DEF Joined

\* One sequence more.
LEMMA PrefixStep ==
  ASSUME NEW T, NEW s \in Seq(Seq(T)), NEW m \in 1 .. Len(s)
  PROVE  Joined(Prefix(s, m), Prefix(s, m - 1), s[m])
<1>1. m - 1 \in 0 .. Len(s) /\ s[m] \in Seq(T)
  OBVIOUS
<1>2. Prefix(s, m - 1) \in Seq(T) /\ Prefix(s, m) = Prefix(s, m - 1) \o s[m]
  BY <1>1, PrefixFacts
<1> QED BY <1>1, <1>2, JoinFacts

\* Where sequence m is, whatever follows it.
LEMMA PrefixSlice ==
  ASSUME NEW T, NEW s \in Seq(Seq(T)), NEW m \in 1 .. Len(s), NEW j \in m .. Len(s)
  PROVE  LET off == Len(Prefix(s, m - 1)) IN
           /\ off \in Nat /\ Len(s[m]) \in Nat /\ Len(Prefix(s, m)) = off + Len(s[m])
           /\ off + Len(s[m]) \leq Len(Prefix(s, j))
           /\ \A k \in 1 .. Len(s[m]) : Prefix(s, j)[off + k] = s[m][k]
<1> DEFINE l == Len(s)
           x == s[m]
           w == Len(x)
           off == Len(Prefix(s, m - 1))
           Ok(q) == /\ off + w \leq Len(Prefix(s, q))
                    /\ \A k \in 1 .. w : Prefix(s, q)[off + k] = x[k]
           G == {q \in 0 .. l : q < m \/ Ok(q)}
<1>1. l \in Nat /\ m \in 1 .. l /\ j \in m .. l
  OBVIOUS
<1>2. /\ off \in Nat /\ w \in Nat /\ Len(Prefix(s, m)) = off + w
      /\ \A k \in 1 .. w : Prefix(s, m)[off + k] = x[k]
  BY PrefixStep DEF Joined
<1>3. ASSUME NEW q \in 1 .. l, Ok(q - 1) PROVE Ok(q)
  <2> DEFINE a == Prefix(s, q - 1)
             p == Prefix(s, q)
  <2>1. /\ Len(a) \in Nat /\ Len(s[q]) \in Nat /\ Len(p) = Len(a) + Len(s[q])
        /\ \A k \in 1 .. Len(a) : p[k] = a[k]
    BY PrefixStep, ZenonT(60) DEF Joined
  <2>2. off + w \leq Len(a) /\ \A k \in 1 .. w : a[off + k] = x[k]
    BY <1>3
  <2> HIDE DEF a, p, off, w, x, l
  <2>3. ASSUME NEW k \in 1 .. w PROVE p[off + k] = x[k]
    <3>1. off + k \in 1 .. Len(a)
      BY <1>2, <2>1, <2>2
    <3> QED BY <2>1, <2>2, <3>1
  <2>4. off + w \leq Len(p)
    BY <1>2, <2>1, <2>2
  <2> QED BY <2>3, <2>4 DEF p
<1> HIDE DEF l, w, off, x
<1>4. Ok(m)
  BY <1>2
<1> HIDE DEF Ok
<1>5. 0 \in G
  BY <1>1
<1>6. ASSUME NEW q \in 1 .. l, q - 1 \in G PROVE q \in G
  <2>1. q \in 0 .. l /\ (q < m \/ q = m \/ (q > m /\ ~ (q - 1 < m)))
    BY <1>1
  <2>2. q - 1 < m \/ Ok(q - 1)
    BY <1>6
  <2>3. q < m \/ Ok(q)
    BY <1>3, <1>4, <2>1, <2>2
  <2> QED BY <2>1, <2>3
<1> HIDE DEF G
<1>7. 0 .. l \subseteq G
  BY <1>1, <1>5, <1>6, Induction
<1>8. j \in 0 .. l /\ ~ (j < m)
  BY <1>1
<1>9. Ok(j)
  BY <1>7, <1>8 DEF G
<1> QED BY <1>2, <1>9 DEF Ok, w, off, x

\* e is d with x over its first w elements.
Overlaid(e, d, w, x) ==
  /\ Len(e) = Len(d) /\ w \leq Len(d)
  /\ \A k \in 1 .. Len(e) : e[k] = IF k \leq w THEN x[k] ELSE d[k]

\* The same with another first sequence of the same length.
LEMMA PrefixFirst ==
  ASSUME NEW T, NEW s \in Seq(Seq(T)), NEW t \in Seq(Seq(T)), Len(t) \leq Len(s),
         Len(t[1]) = Len(s[1]), \A k \in 2 .. Len(t) : t[k] = s[k],
         NEW m \in 1 .. Len(t)
  PROVE  Overlaid(Prefix(t, m), Prefix(s, m), Len(s[1]), t[1])
<1> DEFINE l == Len(t)
           w == Len(s[1])
           x == t[1]
           P(j) == Prefix(t, j)
           Q(j) == Prefix(s, j)
           Same(j) == Overlaid(P(j), Q(j), w, x)
           G == {j \in 0 .. l : j = 0 \/ Same(j)}
<1>1. /\ l \in Nat /\ m \in 1 .. l /\ 1 \in 1 .. l /\ l \leq Len(s) /\ Len(s) \in Nat
      /\ \A j \in 1 .. l : j \in 1 .. Len(s) /\ (j # 1 => t[j] = s[j])
  OBVIOUS
<1>2. ASSUME NEW j \in 1 .. l PROVE Joined(P(j), P(j - 1), t[j])
  BY PrefixStep
<1>3. ASSUME NEW j \in 1 .. l PROVE Joined(Q(j), Q(j - 1), s[j])
  <2>1. j \in 1 .. Len(s)
    BY <1>1
  <2> QED BY <2>1, PrefixStep
<1>4. w \in Nat /\ Len(t[1]) = w /\ t[1] = x /\ Len(s[1]) = w
  BY <1>1, <1>3 DEF Joined
<1>5. Len(P(0)) = 0 /\ Len(Q(0)) = 0
  <2>1. P(0) = <<>> /\ Q(0) = <<>>
    BY PrefixFacts
  <2> HIDE DEF P, Q
  <2> QED BY <2>1
<1> HIDE DEF l, w, x, P, Q
<1>6. Same(1)
  <2>0. 1 \in 1 .. l /\ 1 - 1 = 0
    BY <1>1
  <2>1. Joined(P(1), P(0), t[1]) /\ Joined(Q(1), Q(0), s[1])
    BY <1>2, <1>3, <2>0
  <2>2. Len(P(1)) = w /\ \A k \in 1 .. w : P(1)[0 + k] = t[1][k]
    <3>1. Len(P(1)) = Len(P(0)) + w /\ \A k \in 1 .. w : P(1)[Len(P(0)) + k] = t[1][k]
      BY <1>4, <2>1, Zenon DEF Joined
    <3>2. Len(P(1)) = 0 + w /\ \A k \in 1 .. w : P(1)[0 + k] = t[1][k]
      BY <1>5, <3>1, Zenon
    <3> QED BY <1>4, <3>2
  <2>3. Len(Q(1)) = w
    BY <1>4, <1>5, <2>1 DEF Joined
  <2>4. ASSUME NEW k \in 1 .. w PROVE P(1)[k] = x[k]
    <3>1. 0 + k = k
      OBVIOUS
    <3> QED BY <1>4, <2>2, <3>1
  <2>5. \A k \in 1 .. w : k \leq w
    BY <1>4
  <2> QED BY <1>4, <2>2, <2>3, <2>4, <2>5 DEF Overlaid
<1>7. ASSUME NEW j \in 1 .. l, j # 1, Same(j - 1) PROVE Same(j)
  <2> DEFINE a == P(j - 1)
             b == Q(j - 1)
             c == P(j)
             d == Q(j)
             y == s[j]
  <2>1. Joined(c, a, y)
    <3>1. t[j] = y
      BY <1>1, <1>7
    <3> HIDE DEF y
    <3> QED BY <1>2, <3>1
  <2>2. Joined(d, b, y)
    BY <1>3
  <2>3. /\ Len(a) = Len(b) /\ w \leq Len(b)
        /\ \A k \in 1 .. Len(a) : a[k] = IF k \leq w THEN x[k] ELSE b[k]
    BY <1>7 DEF Overlaid
  <2> HIDE DEF a, b, c, d, y
  <2>4. Len(c) = Len(d) /\ w \leq Len(d)
    BY <1>4, <2>1, <2>2, <2>3 DEF Joined
  <2>5. ASSUME NEW k \in 1 .. Len(c) PROVE c[k] = IF k \leq w THEN x[k] ELSE d[k]
    <3>1. CASE k \in 1 .. Len(a)
      BY <2>1, <2>2, <2>3, <3>1 DEF Joined
    <3>2. CASE k \notin 1 .. Len(a)
      <4> DEFINE q == k - Len(a)
      <4>1. q \in 1 .. Len(y) /\ k = Len(a) + q /\ ~ (k \leq w)
        BY <1>4, <2>1, <2>3, <3>2, SMTT(60) DEF Joined
      <4> HIDE DEF q
      <4>2. c[k] = y[q] /\ d[k] = y[q]
        BY <2>1, <2>2, <2>3, <4>1 DEF Joined
      <4> QED BY <4>1, <4>2
    <3> QED BY <3>1, <3>2
  <2> QED BY <2>4, <2>5 DEF c, d, Overlaid
<1> HIDE DEF Same
<1>8. 0 \in G
  BY <1>1
<1>9. ASSUME NEW j \in 1 .. l, j - 1 \in G PROVE j \in G
  <2>1. j \in 0 .. l /\ (j # 1 => j - 1 # 0)
    BY <1>1
  <2>2. j - 1 = 0 \/ Same(j - 1)
    BY <1>9
  <2>3. Same(j)
    BY <1>6, <1>7, <2>1, <2>2
  <2> QED BY <2>1, <2>3
<1> HIDE DEF G
<1>10. 0 .. l \subseteq G
  BY <1>1, <1>8, <1>9, Induction
<1>11. Same(m)
  <2>1. m \in 0 .. l /\ m # 0
    BY <1>1
  <2> QED BY <1>10, <2>1 DEF G
<1> QED BY <1>11 DEF Same, w, x, P, Q

\* Sequences of the same length: element k of sequence m.
LEMMA ConcatEqualSizes ==
  ASSUME NEW T, NEW s \in Seq(Seq(T)), NEW w \in Nat, \A k \in 1 .. Len(s) : Len(s[k]) = w
  PROVE  /\ Concat(s) \in Seq(T) /\ Len(Concat(s)) = Len(s) * w
         /\ \A m \in 1 .. Len(s), k \in 1 .. w : Concat(s)[(m - 1) * w + k] = s[m][k]
<1> DEFINE l == Len(s)
           P(m) == Prefix(s, m)
           G == {m \in 0 .. l : Len(P(m)) = m * w}
<1>1. l \in Nat /\ \A m \in 1 .. l : Len(s[m]) = w
  OBVIOUS
<1>2. /\ P(0) = <<>> /\ \A m \in 0 .. l : P(m) \in Seq(T)
      /\ Concat(s) = P(l)
  BY PrefixFacts
<1>3. ASSUME NEW m \in 1 .. l PROVE Len(P(m)) = Len(P(m - 1)) + w
  <2>1. Len(P(m)) = Len(P(m - 1)) + Len(s[m])
    BY PrefixStep DEF Joined
  <2> QED BY <1>1, <2>1
<1>4. ASSUME NEW m \in 1 .. l, NEW j \in m .. l, NEW k \in 1 .. w
      PROVE  P(j)[Len(P(m - 1)) + k] = s[m][k]
  <2>1. \A q \in 1 .. Len(s[m]) : P(j)[Len(P(m - 1)) + q] = s[m][q]
    BY PrefixSlice
  <2> QED BY <1>1, <2>1
<1> HIDE DEF l, P
<1>5. 0 \in G
  <2>1. Len(P(0)) = 0
    BY <1>2
  <2> QED BY <1>1, <2>1
<1>6. ASSUME NEW m \in 1 .. l, m - 1 \in G PROVE m \in G
  <2>1. Len(P(m)) = (m - 1) * w + w
    BY <1>3, <1>6
  <2>2. (m - 1) * w + w = m * w /\ m \in 0 .. l
    BY <1>1
  <2> QED BY <2>1, <2>2
<1> HIDE DEF G
<1>7. 0 .. l \subseteq G
  BY <1>1, <1>5, <1>6, Induction
<1>8. Concat(s) \in Seq(T) /\ Len(Concat(s)) = l * w
  <2>1. l \in 0 .. l
    BY <1>1
  <2> QED BY <1>2, <1>7, <2>1 DEF G
<1>9. ASSUME NEW m \in 1 .. l, NEW k \in 1 .. w
      PROVE  Concat(s)[(m - 1) * w + k] = s[m][k]
  <2>1. m - 1 \in 0 .. l /\ l \in m .. l
    BY <1>1
  <2>2. Len(P(m - 1)) = (m - 1) * w
    BY <1>7, <2>1 DEF G
  <2> QED BY <1>2, <1>4, <2>1, <2>2
<1> QED BY <1>8, <1>9 DEF l

-----------------------------------------------------------------------------
(* What is written, scalar by scalar.                                      *)

\* A scalar: its size, and a value that fits into it.
Field == {x \in [w : Nat \ {0}, v : Nat] : x.v < Power[x.w]}

LEMMA SequenceOf ==
  ASSUME NEW T, NEW l \in Nat, NEW f \in [1 .. l -> T]
  PROVE  f \in Seq(T) /\ Len(f) = l
<1>1. f \in Seq(T)
  BY SeqDef
<1> QED BY <1>1, LenProperties

LEMMA ScalarsFacts ==
  ASSUME NEW w \in Nat \ {0}, NEW s \in Seq(Nat)
  PROVE  /\ Scalars(w, s) \in Seq(Field) /\ Len(Scalars(w, s)) = Len(s) /\ Len(s) \in Nat
         /\ \A k \in 1 .. Len(s) :
              Scalars(w, s)[k].w = w /\ Scalars(w, s)[k].v = s[k] % Power[w]
<1> DEFINE l == Len(s)
           g == [k \in 1 .. l |-> [w |-> w, v |-> s[k] % Power[w]]]
<1>1. l \in Nat /\ DOMAIN s = 1 .. l /\ \A k \in 1 .. l : s[k] \in Nat
  OBVIOUS
<1>2. Scalars(w, s) = g
  BY <1>1 DEF Scalars
<1>3. ASSUME NEW k \in 1 .. l PROVE g[k] \in Field
  <2>1. Power[w] \in Nat \ {0} /\ s[k] \in Nat
    BY <1>1, PowerFacts
  <2> DEFINE p == Power[w]
             x == s[k]
  <2> HIDE DEF p, x
  <2>2. x % p \in Nat /\ x % p < p
    <3>1. x % p \in 0 .. (p - 1)
      BY <2>1, Division DEF p, x
    <3> QED BY <2>1, <3>1 DEF p
  <2>3. [w |-> w, v |-> x % p] \in Field
    BY <2>2 DEF Field, p
  <2> QED BY <2>3 DEF x, p
<1>4. g \in [1 .. l -> Field]
  BY <1>3
<1>5. \A k \in 1 .. l : g[k].w = w /\ g[k].v = s[k] % Power[w]
  OBVIOUS
<1> HIDE DEF g
<1>6. g \in Seq(Field) /\ Len(g) = l
  BY <1>1, <1>4, SequenceOf
<1> QED BY <1>1, <1>2, <1>5, <1>6

LEMMA SizeFacts ==
  /\ W16 \in Nat \ {0} /\ W32 \in Nat \ {0} /\ W64 \in Nat \ {0} /\ 1 \in Nat \ {0}
  /\ W32 \leq 2 * W16 /\ Base \in Nat \ {0}
  /\ \A e \in DOMAIN ElemSize : ElemSize[e] \in Nat \ {0}
  /\ \A t \in DOMAIN TypeNumber : TypeNumber[t] \in Nat /\ TypeNumber[t] < Power[W32]
<1>1. Power[W32] \in Nat
  BY PowerFacts, CodecAssumption
<1>2. ASSUME NEW t \in DOMAIN TypeNumber
      PROVE  TypeNumber[t] \in Nat /\ TypeNumber[t] < Power[W32]
  <2>1. TypeNumber[t] \in 0 .. (Power[W32] - 1)
    BY CodecAssumption
  <2> QED BY <1>1, <2>1
<1> QED BY <1>2, CodecAssumption

\* A number that fits is not changed.
LEMMA ModuloLess ==
  ASSUME NEW v \in Nat, NEW m \in Nat, v < m
  PROVE  v % m = v
OBVIOUS

LEMMA TailSizesFacts ==
  ASSUME NEW type
  PROVE  /\ TailSizes(type) \in Seq(Nat \ {0}) /\ Len(TailSizes(type)) \in Nat
         /\ DOMAIN TailSizes(type) = 1 .. Len(TailSizes(type))
         /\ \A k \in 1 .. Len(TailSizes(type)) : TailSizes(type)[k] \in Nat \ {0}
<1>1. ElemSize[ElemType] \in Nat \ {0}
  BY SizeFacts, CodecAssumption
<1>2. TailSizes(type) \in {<<ElemSize[ElemType]>>, <<W64, W64>>, <<W16>>, <<W64>>, <<>>}
  BY DEF TailSizes
<1>3. TailSizes(type) \in Seq(Nat \ {0})
  <2>1. \A x, y \in Nat \ {0} :
          <<x>> \in Seq(Nat \ {0}) /\ <<x, y>> \in Seq(Nat \ {0}) /\ <<>> \in Seq(Nat \ {0})
    OBVIOUS
  <2>2. /\ <<ElemSize[ElemType]>> \in Seq(Nat \ {0}) /\ <<W64, W64>> \in Seq(Nat \ {0})
        /\ <<W16>> \in Seq(Nat \ {0}) /\ <<W64>> \in Seq(Nat \ {0}) /\ <<>> \in Seq(Nat \ {0})
    BY <1>1, <2>1, SizeFacts, Zenon
  <2> QED BY <1>2, <2>2, Zenon
<1> DEFINE z == TailSizes(type)
<1> HIDE DEF z
<1>4. z \in Seq(Nat \ {0})
  BY <1>3 DEF z
<1>5. Len(z) \in Nat /\ DOMAIN z = 1 .. Len(z) /\ \A k \in 1 .. Len(z) : z[k] \in Nat \ {0}
  BY <1>4
<1> QED BY <1>3, <1>5 DEF z

LEMMA TailFieldsFacts ==
  ASSUME NEW o \in Objects
  PROVE  /\ TailFields(o) \in Seq(Field) /\ Len(TailFields(o)) = Len(TailSizes(o.type))
         /\ \A k \in 1 .. Len(TailSizes(o.type)) :
              TailFields(o)[k].w = TailSizes(o.type)[k]
<1> DEFINE z == TailSizes(o.type)
           g == [k \in 1 .. Len(z) |-> Scalars(z[k], o.tail)[k]]
<1>1. Len(z) \in Nat /\ DOMAIN z = 1 .. Len(z) /\ \A k \in 1 .. Len(z) : z[k] \in Nat \ {0}
  BY TailSizesFacts
<1>2. TailFields(o) = g
  BY <1>1 DEF TailFields
<1>3. o.tail \in Seq(Nat) /\ Len(z) \leq Len(o.tail)
  BY ObjectsAssumption
<1> HIDE DEF z
<1>4. ASSUME NEW k \in 1 .. Len(z)
      PROVE  Scalars(z[k], o.tail)[k] \in Field /\ Scalars(z[k], o.tail)[k].w = z[k]
  <2>1. z[k] \in Nat \ {0}
    BY <1>1
  <2> DEFINE c == Scalars(z[k], o.tail)
  <2>2. /\ c \in Seq(Field) /\ Len(c) = Len(o.tail) /\ Len(o.tail) \in Nat
        /\ \A j \in 1 .. Len(o.tail) : c[j].w = z[k]
    BY <1>3, <2>1, ScalarsFacts
  <2> HIDE DEF c
  <2>3. k \in 1 .. Len(o.tail)
    BY <1>1, <1>3, <2>2
  <2>4. c[k] \in Field /\ c[k].w = z[k]
    BY <2>2, <2>3
  <2> QED BY <2>4 DEF c
<1>5. g \in [1 .. Len(z) -> Field] /\ \A k \in 1 .. Len(z) : g[k].w = z[k]
  BY <1>4
<1> HIDE DEF g
<1>6. g \in Seq(Field) /\ Len(g) = Len(z)
  BY <1>1, <1>5, SequenceOf
<1> QED BY <1>2, <1>5, <1>6 DEF z

\* The shape in 32 bits each.
Narrowed(o) == SetTensor(o).dimensions

LEMMA NarrowedFacts ==
  ASSUME NEW o \in Objects, o.type \in TensorTypes
  PROVE  /\ Narrowed(o) \in Seq(Nat) /\ Len(Narrowed(o)) = Len(o.dims) /\ Len(o.dims) \in Nat
         /\ \A k \in 1 .. Len(o.dims) :
              /\ o.dims[k] \in Nat /\ Narrowed(o)[k] = o.dims[k] % Power[W32]
              /\ Narrowed(o)[k] \in Nat /\ Narrowed(o)[k] < Power[W32]
<1> DEFINE p == Power[W32]
           d == o.dims
           g == [k \in 1 .. Len(d) |-> d[k] % p]
<1>1. p \in Nat \ {0}
  BY SizeFacts, PowerFacts
<1>2. d \in Seq(Nat)
  BY ObjectsAssumption
<1>3. Narrowed(o) = [k \in DOMAIN d |-> d[k] % p]
  BY DEF Narrowed, SetTensor
<1> HIDE DEF d, p
<1>4. Len(d) \in Nat /\ DOMAIN d = 1 .. Len(d) /\ \A k \in 1 .. Len(d) : d[k] \in Nat
  BY <1>2
<1>5. ASSUME NEW k \in 1 .. Len(d) PROVE d[k] % p \in Nat /\ d[k] % p < p
  <2>1. d[k] % p \in 0 .. (p - 1)
    BY <1>1, <1>4, Division
  <2> QED BY <1>1, <2>1
<1>6. g \in [1 .. Len(d) -> Nat] /\ \A k \in 1 .. Len(d) : g[k] = d[k] % p
  BY <1>5
<1>7. Narrowed(o) = g
  BY <1>3, <1>4
<1> HIDE DEF g
<1>8. g \in Seq(Nat) /\ Len(g) = Len(d)
  BY <1>4, <1>6, SequenceOf
<1> QED BY <1>4, <1>5, <1>6, <1>7, <1>8 DEF d, p

\* The elements' bytes.
Data(o) == SetTensor(o).data
Size(o) == ElemSize[o.elemType]

LEMMA DataFacts ==
  ASSUME NEW o \in Objects, o.type \in TensorTypes
  PROVE  /\ Data(o) \in Seq(Byte) /\ Len(Data(o)) = Len(o.elems) * Size(o)
         /\ Size(o) \in Nat \ {0} /\ Len(o.elems) \in Nat
         /\ \A m \in 1 .. Len(o.elems) :
              /\ o.elems[m] \in 0 .. (Power[Size(o)] - 1)
              /\ \A k \in 1 .. Size(o) :
                   Data(o)[(m - 1) * Size(o) + k] = BytesOf(o.elems[m], Size(o))[k]
<1> DEFINE z == Size(o)
           q == Power[z]
           c == o.elems
           g == [k \in 1 .. Len(c) |-> BytesOf(c[k], z)]
<1>1. z \in Nat \ {0}
  BY SizeFacts, ObjectsAssumption DEF Size
<1>2. q \in Nat
  BY <1>1, PowerFacts
<1>3. c \in Seq(0 .. (q - 1))
  BY ObjectsAssumption DEF Size
<1>4. Data(o) = Concat([k \in DOMAIN c |-> ToBigEndian(BytesOf(c[k], z))])
  BY DEF Data, SetTensor, Size
<1> HIDE DEF z, q, c
<1>5. /\ Len(c) \in Nat /\ DOMAIN c = 1 .. Len(c)
      /\ \A k \in 1 .. Len(c) : c[k] \in 0 .. (q - 1) /\ c[k] \in Nat
  <2>1. Len(c) \in Nat /\ DOMAIN c = 1 .. Len(c) /\ \A k \in 1 .. Len(c) : c[k] \in 0 .. (q - 1)
    <3> DEFINE E == 0 .. (q - 1)
    <3>1. c \in Seq(E)
      BY <1>3
    <3> HIDE DEF E
    <3>2. Len(c) \in Nat /\ DOMAIN c = 1 .. Len(c) /\ \A k \in 1 .. Len(c) : c[k] \in E
      BY <3>1
    <3> QED BY <3>2 DEF E
  <2> QED BY <1>2, <2>1
<1>6. ASSUME NEW k \in 1 .. Len(c) PROVE BytesOf(c[k], z) \in Seq(Byte) /\ Len(BytesOf(c[k], z)) = z
  BY <1>1, <1>5, BytesOfFacts
<1>7. g \in [1 .. Len(c) -> Seq(Byte)] /\ \A k \in 1 .. Len(c) : g[k] = BytesOf(c[k], z) /\ Len(g[k]) = z
  BY <1>6
<1>8. Data(o) = Concat(g)
  <2>1. \A k \in 1 .. Len(c) : ToBigEndian(BytesOf(c[k], z)) = BytesOf(c[k], z)
    BY <1>6, LoopReturns
  <2> QED BY <1>4, <1>5, <2>1
<1> HIDE DEF g
<1>9. g \in Seq(Seq(Byte)) /\ Len(g) = Len(c)
  BY <1>5, <1>7, SequenceOf
<1>10. /\ Concat(g) \in Seq(Byte) /\ Len(Concat(g)) = Len(c) * z
       /\ \A m \in 1 .. Len(c), k \in 1 .. z : Concat(g)[(m - 1) * z + k] = g[m][k]
  <2>1. /\ Concat(g) \in Seq(Byte) /\ Len(Concat(g)) = Len(g) * z
        /\ \A m \in 1 .. Len(g), k \in 1 .. z : Concat(g)[(m - 1) * z + k] = g[m][k]
    <3>1. \A k \in 1 .. Len(g) : Len(g[k]) = z
      BY <1>7, <1>9
    <3> QED BY <1>1, <1>9, <3>1, ConcatEqualSizes
  <2> QED BY <1>9, <2>1, Zenon
<1> QED BY <1>1, <1>5, <1>7, <1>8, <1>10, Zenon DEF z, c, q

\* A number of bytes has one value per byte.
LEMMA PowerOne == Power[1] = Base
<1>1. Power[0 + 1] = Base * Power[0] /\ Power[0] = 1 /\ Base \in Nat
  BY PowerFacts, SizeFacts
<1> QED BY <1>1

LEMMA ByteScalars ==
  ASSUME NEW s \in Seq(Byte)
  PROVE  /\ Scalars(1, s) \in Seq(Field) /\ Len(Scalars(1, s)) = Len(s) /\ Len(s) \in Nat
         /\ \A k \in 1 .. Len(s) : Scalars(1, s)[k].w = 1 /\ Scalars(1, s)[k].v = s[k]
<1>1. Base \in Nat \ {0} /\ 1 \in Nat \ {0}
  BY SizeFacts
<1>2. s \in Seq(Nat)
  BY <1>1, SeqMonotonic DEF Byte
<1>3. /\ Scalars(1, s) \in Seq(Field) /\ Len(Scalars(1, s)) = Len(s) /\ Len(s) \in Nat
      /\ \A k \in 1 .. Len(s) : Scalars(1, s)[k].w = 1 /\ Scalars(1, s)[k].v = s[k] % Power[1]
  BY <1>1, <1>2, ScalarsFacts
<1>4. ASSUME NEW k \in 1 .. Len(s) PROVE s[k] % Power[1] = s[k]
  <2>1. s[k] \in 0 .. (Base - 1)
    <3>1. s[k] \in Byte
      OBVIOUS
    <3> QED BY <3>1 DEF Byte
  <2> DEFINE x == s[k]
  <2> HIDE DEF x
  <2>2. x \in Nat /\ x < Base
    BY <1>1, <2>1 DEF x
  <2>3. x % Base = x
    BY <1>1, <2>2, ModuloLess
  <2> QED BY <2>3, PowerOne DEF x
<1> QED BY <1>3, <1>4

LEMMA TensorFacts ==
  ASSUME NEW o \in Objects, o.type \in TensorTypes
  PROVE  LET r == Len(o.dims)
             z == Len(Data(o))
             f == Tensor(o)
         IN /\ r \in Nat /\ z \in Nat /\ f \in Seq(Field) /\ Len(f) = 2 + r + z
            /\ f[1].w = W16 /\ f[1].v = o.elemType /\ f[2].w = W16 /\ f[2].v = r
            /\ \A k \in 1 .. r : f[2 + k].w = W32 /\ f[2 + k].v = Narrowed(o)[k]
            /\ \A k \in 1 .. z : f[2 + r + k].w = 1 /\ f[2 + r + k].v = Data(o)[k]
<1> DEFINE r == Len(o.dims)
           z == Len(Data(o))
           e == o.elemType
           h == <<e, r>>
           a == Scalars(W16, h)
           b == Scalars(W32, Narrowed(o))
           c == Scalars(1, Data(o))
<1>1. Tensor(o) = (a \o b) \o c
  <2>1. SetTensor(o).dataType = o.elemType /\ Len(SetTensor(o).dimensions) = r
    BY NarrowedFacts DEF SetTensor, Narrowed
  <2> QED BY <2>1, Zenon DEF Tensor, Narrowed, Data
<1>2. r \in Nat /\ r \in 1 .. (Power[W16] - 1) /\ e \in 0 .. (Power[W16] - 1) /\ Power[W16] \in Nat
  <2>1. e \in DOMAIN ElemSize /\ DOMAIN ElemSize \subseteq 0 .. (Power[W16] - 1)
    BY ObjectsAssumption, CodecAssumption
  <2>2. r \in Nat /\ r \in 1 .. (Power[W16] - 1)
    BY NarrowedFacts, ObjectsAssumption
  <2>3. Power[W16] \in Nat
    BY SizeFacts, PowerFacts
  <2> QED BY <2>1, <2>2, <2>3
<1> DEFINE p == Power[W16]
<1>3. r \in Nat /\ e \in Nat /\ r % p = r /\ e % p = e
  <2> HIDE DEF r, e, p
  <2>1. r \in Nat /\ e \in Nat /\ p \in Nat /\ r < p /\ e < p
    BY <1>2 DEF p
  <2> QED BY <2>1, ModuloLess
<1>4. /\ h \in Seq(Nat) /\ Len(h) = 2 /\ h[1] = e /\ h[2] = r
  <2> HIDE DEF r, e
  <2> QED BY <1>3
<1>5. /\ a \in Seq(Field) /\ Len(a) = 2
      /\ a[1].w = W16 /\ a[1].v = e /\ a[2].w = W16 /\ a[2].v = r
  <2> HIDE DEF h, r, e
  <2>1. /\ a \in Seq(Field) /\ Len(a) = Len(h)
        /\ \A k \in 1 .. Len(h) : a[k].w = W16 /\ a[k].v = h[k] % Power[W16]
    BY <1>4, SizeFacts, ScalarsFacts
  <2>2. 1 \in 1 .. Len(h) /\ 2 \in 1 .. Len(h)
    BY <1>4
  <2> HIDE DEF a
  <2> QED BY <1>3, <1>4, <2>1, <2>2 DEF p
<1>6. /\ b \in Seq(Field) /\ Len(b) = r
      /\ \A k \in 1 .. r : b[k].w = W32 /\ b[k].v = Narrowed(o)[k]
  <2>1. /\ Narrowed(o) \in Seq(Nat) /\ Len(Narrowed(o)) = r
        /\ \A k \in 1 .. r : Narrowed(o)[k] \in Nat /\ Narrowed(o)[k] < Power[W32]
    BY NarrowedFacts
  <2>2. /\ b \in Seq(Field) /\ Len(b) = r
        /\ \A k \in 1 .. r : b[k].w = W32 /\ b[k].v = Narrowed(o)[k] % Power[W32]
    <3>1. /\ b \in Seq(Field) /\ Len(b) = Len(Narrowed(o))
          /\ \A k \in 1 .. Len(Narrowed(o)) :
               b[k].w = W32 /\ b[k].v = Narrowed(o)[k] % Power[W32]
      BY <2>1, SizeFacts, ScalarsFacts
    <3> HIDE DEF b, r
    <3> QED BY <2>1, <3>1
  <2>3. ASSUME NEW k \in 1 .. r PROVE Narrowed(o)[k] % Power[W32] = Narrowed(o)[k]
    <3>1. Narrowed(o)[k] \in Nat /\ Narrowed(o)[k] < Power[W32] /\ Power[W32] \in Nat
      BY <2>1, SizeFacts, PowerFacts
    <3> QED BY <3>1, ModuloLess
  <2> HIDE DEF b, r
  <2> QED BY <2>2, <2>3
<1>7. /\ c \in Seq(Field) /\ Len(c) = z /\ z \in Nat
      /\ \A k \in 1 .. z : c[k].w = 1 /\ c[k].v = Data(o)[k]
  <2>1. Data(o) \in Seq(Byte)
    BY DataFacts
  <2> QED BY <2>1, ByteScalars
<1> HIDE DEF a, b, c, r, z, e, h
<1> DEFINE ab == a \o b
           f == ab \o c
<1>8. ab \in Seq(Field) /\ Joined(ab, a, b)
  BY <1>5, <1>6, JoinFacts
<1>9. f \in Seq(Field) /\ Joined(f, ab, c)
  <2> HIDE DEF ab
  <2> QED BY <1>7, <1>8, JoinFacts
<1>10. Tensor(o) = f
  BY <1>1
<1> HIDE DEF ab, f
<1>11. Len(ab) = 2 + r /\ Len(f) = 2 + r + z
  BY <1>3, <1>5, <1>6, <1>7, <1>8, <1>9 DEF Joined
<1>12. f[1] = a[1] /\ f[2] = a[2]
  <2>1. 1 \in 1 .. Len(a) /\ 2 \in 1 .. Len(a) /\ 1 \in 1 .. Len(ab) /\ 2 \in 1 .. Len(ab)
    BY <1>3, <1>5, <1>11
  <2> QED BY <1>8, <1>9, <2>1 DEF Joined
<1>13. ASSUME NEW k \in 1 .. r PROVE f[2 + k] = b[k]
  <2>1. 2 + k \in 1 .. Len(ab)
    BY <1>3, <1>11
  <2>2. ab[2 + k] = b[k]
    BY <1>5, <1>6, <1>8 DEF Joined
  <2> QED BY <1>9, <2>1, <2>2 DEF Joined
<1>14. ASSUME NEW k \in 1 .. z PROVE f[2 + r + k] = c[k]
  <2>1. f[Len(ab) + k] = c[k]
    BY <1>7, <1>9 DEF Joined
  <2> QED BY <1>11, <2>1
<1>15. /\ f[1].w = W16 /\ f[1].v = e /\ f[2].w = W16 /\ f[2].v = r
       /\ \A k \in 1 .. r : f[2 + k].w = W32 /\ f[2 + k].v = Narrowed(o)[k]
       /\ \A k \in 1 .. z : f[2 + r + k].w = 1 /\ f[2 + r + k].v = Data(o)[k]
  BY <1>5, <1>6, <1>7, <1>12, <1>13, <1>14
<1> QED BY <1>3, <1>7, <1>9, <1>10, <1>11, <1>15, Zenon DEF r, z, e

LEMMA FunctionFacts ==
  ASSUME NEW o \in Objects, o.type = "UpdateFunction"
  PROVE  LET a == Len(o.archive)
             d == Len(o.dims)
             f == Cereal(o) \o InputDimensions(o)
         IN /\ a \in Nat /\ d \in Nat /\ f \in Seq(Field) /\ Len(f) = 2 + a + d
            /\ f[1].w = W64 /\ f[1].v = a
            /\ \A k \in 1 .. a : f[1 + k].w = 1
            /\ f[2 + a].w = W16 /\ f[2 + a].v = d % Power[W16]
            /\ \A k \in 1 .. d : f[2 + a + k].w = W16
<1> DEFINE a == Len(o.archive)
           d == Len(o.dims)
           g == <<a>>
           h == <<d>> \o o.dims
           p == Scalars(W64, g)
           q == Scalars(1, o.archive)
           t == Scalars(W16, h)
<1>1. /\ o.archive \in Seq(Byte) /\ o.dims \in Seq(Nat) /\ a < Power[W64]
      /\ Power[W64] \in Nat
  BY ObjectsAssumption, SizeFacts, PowerFacts
<1>2. a \in Nat /\ d \in Nat /\ a % Power[W64] = a
  <2>1. a \in Nat /\ d \in Nat
    BY <1>1
  <2> HIDE DEF a
  <2> QED BY <1>1, <2>1, ModuloLess
<1>3. p \in Seq(Field) /\ Len(p) = 1 /\ p[1].w = W64 /\ p[1].v = a
  <2>1. g \in Seq(Nat) /\ Len(g) = 1 /\ g[1] = a /\ 1 \in 1 .. 1
    <3> HIDE DEF a
    <3> QED BY <1>2
  <2> HIDE DEF g, a
  <2>2. /\ p \in Seq(Field) /\ Len(p) = Len(g)
        /\ \A k \in 1 .. Len(g) : p[k].w = W64 /\ p[k].v = g[k] % Power[W64]
    BY <2>1, SizeFacts, ScalarsFacts
  <2> HIDE DEF p
  <2> QED BY <1>2, <2>1, <2>2
<1>4. q \in Seq(Field) /\ Len(q) = a /\ \A k \in 1 .. a : q[k].w = 1
  BY <1>1, ByteScalars
<1>5. h \in Seq(Nat) /\ Len(h) = 1 + d /\ h[1] = d
  <2>1. <<d>> \in Seq(Nat) /\ Len(<<d>>) = 1 /\ <<d>>[1] = d
    <3> HIDE DEF d
    <3> QED BY <1>2
  <2> DEFINE x == <<d>>
             y == o.dims
  <2>2. x \in Seq(Nat) /\ y \in Seq(Nat) /\ Len(x) = 1 /\ x[1] = d /\ Len(y) = d
    BY <1>1, <2>1
  <2> HIDE DEF x, d, y
  <2>3. x \o y \in Seq(Nat) /\ Joined(x \o y, x, y)
    BY <2>2, JoinFacts
  <2> DEFINE xy == x \o y
  <2>4. h = xy
    BY DEF x, y
  <2> HIDE DEF xy, h
  <2>5. xy \in Seq(Nat) /\ Joined(xy, x, y)
    BY <2>3 DEF xy
  <2>6. 1 \in 1 .. Len(x)
    BY <2>2
  <2> QED BY <2>2, <2>4, <2>5, <2>6 DEF Joined
<1>6. /\ t \in Seq(Field) /\ Len(t) = 1 + d
      /\ \A k \in 1 .. (1 + d) : t[k].w = W16
      /\ t[1].v = d % Power[W16]
  <2> HIDE DEF h, d
  <2>1. /\ t \in Seq(Field) /\ Len(t) = Len(h)
        /\ \A k \in 1 .. Len(h) : t[k].w = W16 /\ t[k].v = h[k] % Power[W16]
    BY <1>5, SizeFacts, ScalarsFacts
  <2>2. 1 \in 1 .. (1 + d)
    BY <1>2
  <2> HIDE DEF t
  <2> QED BY <1>5, <2>1, <2>2
<1>7. Cereal(o) \o InputDimensions(o) = (p \o q) \o t
  BY DEF Cereal, InputDimensions
<1> HIDE DEF a, d, p, q, t
<1> DEFINE pq == p \o q
           f == pq \o t
<1>8. pq \in Seq(Field) /\ Joined(pq, p, q)
  BY <1>3, <1>4, JoinFacts
<1>9. f \in Seq(Field) /\ Joined(f, pq, t)
  <2> HIDE DEF pq
  <2> QED BY <1>6, <1>8, JoinFacts
<1>10. Cereal(o) \o InputDimensions(o) = f
  BY <1>7
<1> HIDE DEF pq, f
<1>11. Len(pq) = 1 + a /\ Len(f) = 2 + a + d
  BY <1>2, <1>3, <1>4, <1>6, <1>8, <1>9 DEF Joined
<1>12. f[1] = p[1]
  <2>1. 1 \in 1 .. Len(p) /\ 1 \in 1 .. Len(pq)
    BY <1>2, <1>3, <1>11
  <2> QED BY <1>8, <1>9, <2>1 DEF Joined
<1>13. ASSUME NEW k \in 1 .. a PROVE f[1 + k] = q[k]
  <2>1. 1 + k \in 1 .. Len(pq)
    BY <1>2, <1>11
  <2>2. pq[1 + k] = q[k]
    BY <1>3, <1>4, <1>8 DEF Joined
  <2> QED BY <1>9, <2>1, <2>2 DEF Joined
<1>14. ASSUME NEW k \in 1 .. (1 + d) PROVE f[1 + a + k] = t[k]
  <2>1. f[Len(pq) + k] = t[k]
    BY <1>6, <1>9 DEF Joined
  <2> QED BY <1>11, <2>1
<1>15. f[2 + a] = t[1]
  <2>1. 1 \in 1 .. (1 + d) /\ 1 + a + 1 = 2 + a
    BY <1>2
  <2> QED BY <1>14, <2>1
<1>16. ASSUME NEW k \in 1 .. d PROVE f[2 + a + k].w = W16
  <2>1. 1 + k \in 1 .. (1 + d) /\ 1 + a + (1 + k) = 2 + a + k
    BY <1>2
  <2>2. f[1 + a + (1 + k)] = t[1 + k] /\ t[1 + k].w = W16
    BY <1>6, <1>14, <2>1
  <2> QED BY <2>1, <2>2
<1>17. t[1].w = W16
  <2>1. 1 \in 1 .. (1 + d)
    BY <1>2
  <2> QED BY <1>6, <2>1
<1>18. /\ f[1].w = W64 /\ f[1].v = a
       /\ \A k \in 1 .. a : f[1 + k].w = 1
       /\ f[2 + a].w = W16 /\ f[2 + a].v = d % Power[W16]
       /\ \A k \in 1 .. d : f[2 + a + k].w = W16
  BY <1>3, <1>4, <1>6, <1>12, <1>13, <1>15, <1>16, <1>17
<1> QED BY <1>2, <1>9, <1>10, <1>11, <1>18, Zenon DEF a, d

\* What is between the header and the numbers of the class itself.
Middle(o) ==
  CASE o.type \in TensorTypes -> Tensor(o)
    [] o.type = "UpdateFunction" -> Cereal(o) \o InputDimensions(o)
    [] OTHER -> <<>>

LEMMA MiddleFacts ==
  ASSUME NEW o \in Objects
  PROVE  /\ o.type \in TensorTypes => Middle(o) = Tensor(o)
         /\ o.type = "UpdateFunction" => Middle(o) = Cereal(o) \o InputDimensions(o)
         /\ o.type \notin TensorTypes \cup {"UpdateFunction"} => Middle(o) = <<>>
         /\ Middle(o) \in Seq(Field)
<1>1. "UpdateFunction" \notin TensorTypes
  BY DEF TensorTypes
<1>2. /\ o.type \in TensorTypes => Middle(o) = Tensor(o)
      /\ o.type = "UpdateFunction" => Middle(o) = Cereal(o) \o InputDimensions(o)
      /\ o.type \notin TensorTypes \cup {"UpdateFunction"} => Middle(o) = <<>>
  BY <1>1 DEF Middle
<1>3. o.type \in TensorTypes => Tensor(o) \in Seq(Field)
  BY TensorFacts
<1>4. o.type = "UpdateFunction" => Cereal(o) \o InputDimensions(o) \in Seq(Field)
  BY FunctionFacts
<1>5. <<>> \in Seq(Field)
  OBVIOUS
<1> QED BY <1>2, <1>3, <1>4, <1>5

LEMMA FieldsFacts ==
  ASSUME NEW o \in Objects
  PROVE  LET m == Len(Middle(o))
             z == Len(TailSizes(o.type))
             f == Fields(o)
         IN /\ m \in Nat /\ z \in Nat /\ f \in Seq(Field) /\ Len(f) = 6 + m + z
            /\ \A k \in 1 .. 5 : f[k].w = W32
            /\ \A k \in 1 .. m : f[5 + k] = Middle(o)[k]
            /\ \A k \in 1 .. z : f[5 + m + k].w = TailSizes(o.type)[k]
            /\ f[Len(f)].w = W32 /\ f[Len(f)].v = TypeNumber[o.type]
<1> DEFINE g == <<0>> \o o.header
           h == Header(o)
           b == Middle(o)
           t == TailFields(o)
           x == <<TypeNumber[o.type]>>
           y == Scalars(W32, x)
           m == Len(b)
           z == Len(TailSizes(o.type))
<1>1. g \in Seq(Nat) /\ Len(g) = 5
  <2>1. <<0>> \in Seq(Nat) /\ Len(<<0>>) = 1
    OBVIOUS
  <2>2. o.header \in Seq(Nat) /\ Len(o.header) = 4
    BY ObjectsAssumption
  <2> DEFINE p == <<0>>
             q == o.header
             pq == p \o q
  <2>3. p \in Seq(Nat) /\ q \in Seq(Nat) /\ Len(p) = 1 /\ Len(q) = 4
    BY <2>1, <2>2
  <2> HIDE DEF p, q
  <2>4. pq \in Seq(Nat) /\ Joined(pq, p, q)
    BY <2>3, JoinFacts
  <2>5. g = pq
    BY DEF p, q
  <2> HIDE DEF pq, g
  <2> QED BY <2>3, <2>4, <2>5 DEF Joined
<1>2. h \in Seq(Field) /\ Len(h) = 5 /\ \A k \in 1 .. 5 : h[k].w = W32
  <2> HIDE DEF g
  <2>1. h = Scalars(W32, g)
    BY DEF Header, g
  <2>2. /\ Scalars(W32, g) \in Seq(Field) /\ Len(Scalars(W32, g)) = Len(g)
        /\ \A k \in 1 .. Len(g) : Scalars(W32, g)[k].w = W32
    BY <1>1, SizeFacts, ScalarsFacts
  <2> HIDE DEF h
  <2> QED BY <1>1, <2>1, <2>2
<1>3. b \in Seq(Field) /\ m \in Nat
  <2>1. b \in Seq(Field)
    BY MiddleFacts
  <2> HIDE DEF b
  <2> QED BY <2>1
<1>4. /\ t \in Seq(Field) /\ Len(t) = z /\ z \in Nat
      /\ \A k \in 1 .. z : t[k].w = TailSizes(o.type)[k]
  BY TailFieldsFacts, TailSizesFacts
<1>5. y \in Seq(Field) /\ Len(y) = 1 /\ y[1].w = W32 /\ y[1].v = TypeNumber[o.type]
  <2> DEFINE n_ == TypeNumber[o.type]
  <2>1. n_ \in Nat /\ n_ < Power[W32] /\ Power[W32] \in Nat
    <3>1. o.type \in DOMAIN TypeNumber
      BY ObjectsAssumption
    <3> QED BY <3>1, SizeFacts, PowerFacts
  <2> HIDE DEF n_
  <2>2. n_ % Power[W32] = n_
    BY <2>1, ModuloLess
  <2>3. x \in Seq(Nat) /\ Len(x) = 1 /\ x[1] = n_ /\ 1 \in 1 .. 1
    BY <2>1 DEF n_
  <2> HIDE DEF x
  <2>4. /\ y \in Seq(Field) /\ Len(y) = Len(x)
        /\ \A k \in 1 .. Len(x) : y[k].w = W32 /\ y[k].v = x[k] % Power[W32]
    BY <2>3, SizeFacts, ScalarsFacts
  <2> HIDE DEF y
  <2> QED BY <2>2, <2>3, <2>4 DEF n_
<1>6. Fields(o) = ((h \o b) \o t) \o y
  BY DEF Fields, Middle
<1> HIDE DEF h, b, t, y, m, z
<1> DEFINE hb == h \o b
           hbt == hb \o t
           f == hbt \o y
<1>7. hb \in Seq(Field) /\ Joined(hb, h, b)
  BY <1>2, <1>3, JoinFacts
<1>8. hbt \in Seq(Field) /\ Joined(hbt, hb, t)
  <2> HIDE DEF hb
  <2> QED BY <1>4, <1>7, JoinFacts
<1>9. f \in Seq(Field) /\ Joined(f, hbt, y)
  <2> HIDE DEF hbt
  <2> QED BY <1>5, <1>8, JoinFacts
<1>10. Fields(o) = f
  BY <1>6
<1> HIDE DEF hb, hbt, f
<1>11. Len(hb) = 5 + m /\ Len(hbt) = 5 + m + z /\ Len(f) = 6 + m + z
  BY <1>2, <1>3, <1>4, <1>5, <1>7, <1>8, <1>9 DEF Joined, m
<1>12. ASSUME NEW k \in 1 .. 5 PROVE f[k].w = W32
  <2>1. k \in 1 .. Len(h) /\ k \in 1 .. Len(hb) /\ k \in 1 .. Len(hbt)
    BY <1>2, <1>3, <1>4, <1>11
  <2>2. f[k] = h[k]
    BY <1>7, <1>8, <1>9, <2>1 DEF Joined
  <2> QED BY <1>2, <2>2
<1>13. ASSUME NEW k \in 1 .. m PROVE f[5 + k] = b[k]
  <2>1. 5 + k \in 1 .. Len(hb) /\ 5 + k \in 1 .. Len(hbt)
    BY <1>3, <1>4, <1>11
  <2>2. hb[5 + k] = b[k]
    BY <1>2, <1>7 DEF Joined, m
  <2> QED BY <1>8, <1>9, <2>1, <2>2 DEF Joined
<1>14. ASSUME NEW k \in 1 .. z PROVE f[5 + m + k] = t[k]
  <2>1. 5 + m + k \in 1 .. Len(hbt)
    BY <1>3, <1>4, <1>11
  <2>2. hbt[Len(hb) + k] = t[k]
    BY <1>4, <1>8 DEF Joined
  <2>3. hbt[5 + m + k] = t[k]
    BY <1>11, <2>2
  <2> QED BY <1>9, <2>1, <2>3 DEF Joined
<1>15. f[Len(f)] = y[1]
  <2>1. 1 \in 1 .. Len(y) /\ Len(f) = Len(hbt) + 1
    BY <1>3, <1>4, <1>5, <1>11
  <2> QED BY <1>9, <2>1 DEF Joined
<1>16. /\ \A k \in 1 .. m : f[5 + k] = b[k]
       /\ \A k \in 1 .. 5 : f[k].w = W32
       /\ \A k \in 1 .. z : f[5 + m + k].w = TailSizes(o.type)[k]
       /\ f[Len(f)].w = W32 /\ f[Len(f)].v = TypeNumber[o.type]
  BY <1>4, <1>5, <1>12, <1>13, <1>14, <1>15
<1> QED BY <1>3, <1>4, <1>9, <1>10, <1>11, <1>16, Zenon DEF m, z, b

LEMMA SentFacts ==
  ASSUME NEW o \in Objects
  PROVE  LET m == Len(Middle(o))
             z == Len(TailSizes(o.type))
             s == Sent(o)
         IN /\ m \in Nat /\ z \in Nat /\ s \in Seq(Field) /\ Len(s) = 5 + m + z
            /\ Len(Fields(o)) = 6 + m + z
            /\ \A k \in 1 .. 5 : s[k].w = W32
            /\ s[1].v = TypeNumber[o.type]
            /\ \A k \in 1 .. m : s[5 + k] = Middle(o)[k]
            /\ \A k \in 1 .. z : s[5 + m + k].w = TailSizes(o.type)[k]
<1> DEFINE m == Len(Middle(o))
           z == Len(TailSizes(o.type))
           f == Fields(o)
           l == 5 + m + z
           s == [k \in 1 .. l |-> IF k = 1 THEN f[Len(f)] ELSE f[k]]
<1>1. /\ m \in Nat /\ z \in Nat /\ f \in Seq(Field) /\ Len(f) = 6 + m + z
      /\ \A k \in 1 .. 5 : f[k].w = W32
      /\ \A k \in 1 .. m : f[5 + k] = Middle(o)[k]
      /\ \A k \in 1 .. z : f[5 + m + k].w = TailSizes(o.type)[k]
      /\ f[Len(f)].w = W32 /\ f[Len(f)].v = TypeNumber[o.type]
  BY FieldsFacts
<1> HIDE DEF m, z, f
<1>2. Sent(o) = s /\ l \in Nat
  <2>1. l \in Nat /\ Len(f) - 1 = l
    BY <1>1
  <2>2. Sent(o) = [k \in 1 .. (Len(f) - 1) |-> IF k = 1 THEN f[Len(f)] ELSE f[k]]
    BY DEF Sent, f
  <2> HIDE DEF l
  <2> QED BY <2>1, <2>2
<1>3. /\ s[1] = f[Len(f)] /\ \A k \in 2 .. l : s[k] = f[k]
      /\ 1 \in 1 .. l /\ \A k \in 1 .. l : k \in 1 .. Len(f)
  BY <1>1
<1>4. s \in [1 .. l -> Field]
  <2>1. \A k \in 1 .. Len(f) : f[k] \in Field
    BY <1>1
  <2>2. Len(f) \in 1 .. Len(f)
    BY <1>1
  <2> QED BY <1>3, <2>1, <2>2
<1>5. s \in Seq(Field) /\ Len(s) = l
  <2> HIDE DEF s, l
  <2> QED BY <1>2, <1>4, SequenceOf
<1> HIDE DEF s
<1>6. ASSUME NEW k \in 1 .. 5 PROVE s[k].w = W32
  <2>1. k = 1 \/ k \in 2 .. l
    BY <1>1
  <2> QED BY <1>1, <1>3, <2>1
<1>7. ASSUME NEW k \in 1 .. m PROVE s[5 + k] = Middle(o)[k]
  <2>1. 5 + k \in 2 .. l
    BY <1>1
  <2> QED BY <1>1, <1>3, <2>1
<1>8. ASSUME NEW k \in 1 .. z PROVE s[5 + m + k].w = TailSizes(o.type)[k]
  <2>1. 5 + m + k \in 2 .. l
    BY <1>1
  <2> QED BY <1>1, <1>3, <2>1
<1>9. s[1].v = TypeNumber[o.type]
  BY <1>1, <1>3
<1> QED BY <1>1, <1>2, <1>5, <1>6, <1>7, <1>8, <1>9, Zenon DEF m, z, f, l

-----------------------------------------------------------------------------
(* What is on the wire.                                                    *)

LEMMA FieldFacts ==
  ASSUME NEW x \in Field
  PROVE  /\ x.w \in Nat \ {0} /\ x.v \in Nat /\ x.v < Power[x.w]
         /\ BytesOf(x.v, x.w) \in Seq(Byte) /\ Len(BytesOf(x.v, x.w)) = x.w
         /\ Value(BytesOf(x.v, x.w)) = x.v
<1>1. x.w \in Nat \ {0} /\ x.v \in Nat /\ x.v < Power[x.w]
  BY DEF Field
<1>2. Power[x.w] \in Nat
  BY <1>1, PowerFacts
<1>3. x.v \in 0 .. (Power[x.w] - 1)
  BY <1>1, <1>2
<1> QED BY <1>1, <1>3, BytesOfFacts, ValueOfBytes

LEMMA ChunksFacts ==
  ASSUME NEW f \in Seq(Field)
  PROVE  /\ Chunks(f) \in Seq(Seq(Byte)) /\ Len(Chunks(f)) = Len(f) /\ Len(f) \in Nat
         /\ \A k \in 1 .. Len(f) :
              /\ f[k] \in Field /\ Chunks(f)[k] = BytesOf(f[k].v, f[k].w)
              /\ Len(Chunks(f)[k]) = f[k].w /\ f[k].w \in Nat \ {0}
<1> DEFINE g == [k \in 1 .. Len(f) |-> BytesOf(f[k].v, f[k].w)]
<1>1. Len(f) \in Nat /\ DOMAIN f = 1 .. Len(f) /\ \A k \in 1 .. Len(f) : f[k] \in Field
  OBVIOUS
<1>2. Chunks(f) = g
  BY <1>1 DEF Chunks
<1>3. ASSUME NEW k \in 1 .. Len(f)
      PROVE  /\ BytesOf(f[k].v, f[k].w) \in Seq(Byte) /\ f[k].w \in Nat \ {0}
             /\ Len(BytesOf(f[k].v, f[k].w)) = f[k].w
  BY <1>1, FieldFacts
<1>4. /\ g \in [1 .. Len(f) -> Seq(Byte)]
      /\ \A k \in 1 .. Len(f) : g[k] = BytesOf(f[k].v, f[k].w)
  BY <1>3
<1> HIDE DEF g
<1>5. g \in Seq(Seq(Byte)) /\ Len(g) = Len(f)
  BY <1>1, <1>4, SequenceOf
<1> QED BY <1>1, <1>2, <1>3, <1>4, <1>5, Zenon

LEMMA WireFacts ==
  ASSUME NEW o \in Objects
  PROVE  /\ Wire(o) \in Seq(Byte) /\ Len(Wire(o)) \in Nat
         /\ Len(Sent(o)) \in Nat
         /\ Offset(o, 0) = 0 /\ Offset(o, Len(Sent(o))) = Len(Wire(o))
         /\ \A m \in 1 .. Len(Sent(o)) :
              /\ Sent(o)[m] \in Field
              /\ Offset(o, m - 1) \in Nat
              /\ Offset(o, m) = Offset(o, m - 1) + Sent(o)[m].w
              /\ Offset(o, m) \leq Len(Wire(o))
              /\ \A k \in 1 .. Sent(o)[m].w :
                   Wire(o)[Offset(o, m - 1) + k] = BytesOf(Sent(o)[m].v, Sent(o)[m].w)[k]
<1> DEFINE s == Sent(o)
           c == Chunks(s)
           l == Len(s)
<1>1. s \in Seq(Field)
  BY SentFacts
<1>2. /\ c \in Seq(Seq(Byte)) /\ Len(c) = l /\ l \in Nat
      /\ \A k \in 1 .. l :
           /\ s[k] \in Field /\ c[k] = BytesOf(s[k].v, s[k].w)
           /\ Len(c[k]) = s[k].w
  BY <1>1, ChunksFacts
<1>3. /\ Wire(o) = Concat(c) /\ \A m : Offset(o, m) = Len(Prefix(c, m))
  BY DEF Wire, Offset
<1> HIDE DEF s, c
<1>4. /\ Prefix(c, 0) = <<>> /\ Prefix(c, l) \in Seq(Byte) /\ Concat(c) = Prefix(c, l)
  <2>1. l \in 0 .. Len(c)
    BY <1>2
  <2> HIDE DEF l
  <2> QED BY <1>2, <2>1, PrefixFacts
<1>5. /\ Wire(o) \in Seq(Byte) /\ Len(Wire(o)) \in Nat
      /\ Offset(o, 0) = 0 /\ Offset(o, l) = Len(Wire(o))
  <2> HIDE DEF l
  <2>1. Len(<<>>) = 0
    OBVIOUS
  <2>2. Wire(o) \in Seq(Byte)
    BY <1>3, <1>4
  <2>3. Len(Wire(o)) \in Nat
    BY <2>2
  <2> QED BY <1>3, <1>4, <2>1, <2>2, <2>3
<1> HIDE DEF l
<1>6. ASSUME NEW m \in 1 .. l
      PROVE  /\ Offset(o, m - 1) \in Nat
             /\ Offset(o, m) = Offset(o, m - 1) + s[m].w
             /\ Offset(o, m) \leq Len(Wire(o))
             /\ \A k \in 1 .. s[m].w :
                  Wire(o)[Offset(o, m - 1) + k] = BytesOf(s[m].v, s[m].w)[k]
  <2>1. m \in 1 .. Len(c) /\ l \in m .. Len(c)
    BY <1>2
  <2> DEFINE off == Len(Prefix(c, m - 1))
  <2>2. /\ off \in Nat /\ Len(Prefix(c, m)) = off + Len(c[m])
        /\ off + Len(c[m]) \leq Len(Prefix(c, l))
        /\ \A k \in 1 .. Len(c[m]) : Prefix(c, l)[off + k] = c[m][k]
    BY <1>2, <2>1, PrefixSlice, ZenonT(60)
  <2>3. off = Offset(o, m - 1) /\ Len(Prefix(c, m)) = Offset(o, m) /\ Prefix(c, l) = Wire(o)
    BY <1>3, <1>4
  <2> HIDE DEF off
  <2> QED BY <1>2, <2>2, <2>3
<1> QED BY <1>2, <1>5, <1>6 DEF s, l

\* The type's number over the first bytes: from what the writer has before the last
\* scalar to what is sent.
LEMMA Overwritten ==
  ASSUME NEW o \in Objects
  PROVE  LET f == Fields(o)
             d == Prefix(Chunks(f), Len(f) - 1)
             x == BytesOf(f[Len(f)].v, f[Len(f)].w)
         IN x \o SubSeq(d, Len(x) + 1, Len(d)) = Wire(o)
<1> DEFINE f == Fields(o)
           s == Sent(o)
           l == Len(s)
           c == Chunks(f)
           t == Chunks(s)
           d == Prefix(c, l)
           e == Prefix(t, l)
           x == BytesOf(f[Len(f)].v, f[Len(f)].w)
<1>1. /\ f \in Seq(Field) /\ s \in Seq(Field) /\ l \in Nat /\ 5 \leq l /\ Len(f) = l + 1
      /\ \A k \in 1 .. 5 : f[k].w = W32
      /\ f[Len(f)].w = W32
      /\ \A k \in 1 .. 5 : s[k].w = W32
  <2> DEFINE m == Len(Middle(o))
             z == Len(TailSizes(o.type))
  <2>1. m \in Nat /\ z \in Nat /\ l = 5 + m + z /\ Len(f) = 6 + m + z
    BY SentFacts
  <2>2. l \in Nat /\ 5 \leq l /\ Len(f) = l + 1
    <3> HIDE DEF m, z, l, f
    <3> QED BY <2>1
  <2>3. /\ f \in Seq(Field) /\ \A k \in 1 .. 5 : f[k].w = W32
        /\ f[Len(f)].w = W32
    BY FieldsFacts
  <2>4. s \in Seq(Field) /\ \A k \in 1 .. 5 : s[k].w = W32
    BY SentFacts
  <2> QED BY <2>2, <2>3, <2>4, Zenon
<1>2. s[1] = f[Len(f)] /\ \A k \in 2 .. l : s[k] = f[k]
  <2>1. s = [k \in 1 .. (Len(f) - 1) |-> IF k = 1 THEN f[Len(f)] ELSE f[k]]
    BY DEF Sent
  <2> HIDE DEF f, s, l
  <2>2. Len(f) - 1 = l /\ 1 \in 1 .. l
    BY <1>1
  <2> QED BY <2>1, <2>2
<1>3. Wire(o) = e /\ Wire(o) \in Seq(Byte)
  <2>1. t \in Seq(Seq(Byte)) /\ Len(t) = l
    BY <1>1, ChunksFacts
  <2>2. Concat(t) = Prefix(t, Len(t))
    BY <2>1, PrefixFacts
  <2> QED BY <2>1, <2>2, WireFacts DEF Wire
<1>4. /\ c \in Seq(Seq(Byte)) /\ Len(c) = l + 1 /\ Len(c[1]) = W32
      /\ t \in Seq(Seq(Byte)) /\ Len(t) = l /\ Len(t[1]) = W32 /\ t[1] = x /\ Len(x) = W32
      /\ \A k \in 2 .. l : t[k] = c[k]
  <2> HIDE DEF f, s, l
  <2>1. /\ c \in Seq(Seq(Byte)) /\ Len(c) = Len(f)
        /\ \A k \in 1 .. Len(f) : c[k] = BytesOf(f[k].v, f[k].w) /\ Len(c[k]) = f[k].w
    BY <1>1, ChunksFacts
  <2>2. /\ t \in Seq(Seq(Byte)) /\ Len(t) = Len(s)
        /\ \A k \in 1 .. Len(s) : t[k] = BytesOf(s[k].v, s[k].w) /\ Len(t[k]) = s[k].w
    BY <1>1, ChunksFacts
  <2>3. Len(s) = l
    BY DEF l
  <2>4. 1 \in 1 .. Len(f) /\ 1 \in 1 .. Len(s) /\ 1 \in 1 .. 5
    BY <1>1, <2>3
  <2> HIDE DEF c, t
  <2>5. Len(c[1]) = W32 /\ Len(t[1]) = W32 /\ t[1] = x
    BY <1>1, <1>2, <2>1, <2>2, <2>4
  <2>6. ASSUME NEW k \in 2 .. l PROVE t[k] = c[k]
    <3>1. k \in 1 .. Len(f) /\ k \in 1 .. Len(s)
      BY <1>1, <2>3
    <3> QED BY <1>2, <2>1, <2>2, <3>1
  <2> QED BY <1>1, <2>1, <2>2, <2>3, <2>5, <2>6
<1> HIDE DEF f, s, l, c, t, x
<1>5. /\ Len(e) = Len(d) /\ W32 \leq Len(d)
      /\ \A k \in 1 .. Len(e) : e[k] = IF k \leq W32 THEN x[k] ELSE d[k]
  <2>1. /\ Len(t) \leq Len(c) /\ Len(t[1]) = Len(c[1])
        /\ \A k \in 2 .. Len(t) : t[k] = c[k]
        /\ l \in 1 .. Len(t) /\ c \in Seq(Seq(Byte)) /\ t \in Seq(Seq(Byte))
    BY <1>1, <1>4
  <2> HIDE DEF d, e
  <2>2. Overlaid(Prefix(t, l), Prefix(c, l), Len(c[1]), t[1])
    BY <2>1, PrefixFirst
  <2> QED BY <1>4, <2>2, Zenon DEF d, e, Overlaid
<1>6. d \in Seq(Byte)
  <2>1. l \in 0 .. Len(c)
    BY <1>1, <1>4
  <2> QED BY <1>4, <2>1, PrefixFacts
<1>7. x \in Seq(Byte)
  <2>1. f[Len(f)] \in Field
    BY <1>1
  <2> QED BY <2>1, FieldFacts DEF x
<1> DEFINE y == SubSeq(d, W32 + 1, Len(d))
<1>8. W32 \in Nat \ {0} /\ Len(d) \in Nat
  BY <1>6, SizeFacts
<1>9. /\ y \in Seq(Byte) /\ Len(y) = Len(d) - W32
      /\ \A k \in 1 .. (Len(d) - W32) : y[k] = d[W32 + k]
  <2> HIDE DEF d, e
  <2>1. y \in Seq(Byte) /\ Len(y) = Len(d) - W32
    BY <1>5, <1>6, <1>8
  <2>2. ASSUME NEW k \in 1 .. (Len(d) - W32) PROVE y[k] = d[W32 + k]
    <3>1. W32 + 1 + k - 1 = W32 + k
      BY <1>8
    <3> QED BY <1>5, <1>6, <1>8, <3>1
  <2> QED BY <2>1, <2>2
<1> HIDE DEF d, e, y
<1> DEFINE xy == x \o y
<1>10. xy \in Seq(Byte) /\ Joined(xy, x, y)
  BY <1>7, <1>9, JoinFacts
<1> HIDE DEF xy
<1>11. Len(xy) = Len(e) /\ Len(e) \in Nat
  BY <1>4, <1>5, <1>8, <1>9, <1>10 DEF Joined
<1>12. ASSUME NEW k \in 1 .. Len(e) PROVE xy[k] = e[k]
  <2>1. CASE k \leq W32
    <3>1. k \in 1 .. Len(x)
      BY <1>4, <1>11, <2>1
    <3> QED BY <1>5, <1>10, <2>1, <3>1 DEF Joined
  <2>2. CASE ~ (k \leq W32)
    <3> DEFINE q == k - W32
    <3>1. q \in 1 .. (Len(d) - W32) /\ k = W32 + q
      BY <1>5, <1>8, <1>11, <2>2
    <3> HIDE DEF q
    <3>2. xy[W32 + q] = y[q] /\ y[q] = d[W32 + q]
      BY <1>4, <1>9, <1>10, <3>1 DEF Joined
    <3> QED BY <1>5, <2>2, <3>1, <3>2
  <2> QED BY <2>1, <2>2
<1>13. xy = e
  <2>1. xy \in Seq(Byte) /\ e \in Seq(Byte)
    BY <1>3, <1>10
  <2> QED BY <1>11, <1>12, <2>1
<1>14. Len(f) - 1 = l
  BY <1>1
<1> QED BY <1>3, <1>4, <1>13, <1>14, Zenon DEF xy, y, d, x, c, f

-----------------------------------------------------------------------------
(* The reader goes through the same scalars.                               *)

LEMMA TypeOfNumber ==
  ASSUME NEW t \in DOMAIN TypeNumber
  PROVE  TypeOf(TypeNumber[t]) = t
<1>1. \A u \in DOMAIN TypeNumber : TypeNumber[u] = TypeNumber[t] => u = t
  BY CodecAssumption
<1> QED BY <1>1 DEF TypeOf

\* q is what s has from a to b.
Slice(q, s, a, b) ==
  Len(q) = b - a + 1 /\ \A k \in 1 .. (b - a + 1) : q[k] = s[a - 1 + k]

LEMMA SliceFacts ==
  ASSUME NEW T, NEW s \in Seq(T), NEW a \in Nat \ {0}, NEW b \in Nat, b \leq Len(s), a \leq b + 1
  PROVE  SubSeq(s, a, b) \in Seq(T) /\ Slice(SubSeq(s, a, b), s, a, b)
<1>1. Len(s) \in Nat
  OBVIOUS
<1>2. SubSeq(s, a, b) \in Seq(T) /\ Len(SubSeq(s, a, b)) = b - a + 1
  BY <1>1
<1>3. ASSUME NEW k \in 1 .. (b - a + 1) PROVE SubSeq(s, a, b)[k] = s[a - 1 + k]
  <2>1. a + k - 1 = a - 1 + k
    OBVIOUS
  <2> QED BY <1>1, <2>1
<1> QED BY <1>2, <1>3 DEF Slice

LEMMA FormedFacts ==
  ASSUME NEW o \in Objects, Formed(o)
  PROVE  /\ o.type \in TensorTypes => Product(Narrowed(o)) * Size(o) = Len(Data(o))
         /\ o.type = "UpdateFunction" => Len(o.dims) = Len(o.dims) % Power[W16]
<1> DEFINE l == Len(Fields(o)) - 1
<1>1. ~ FatalErrors(o, l)
  BY DEF Formed
<1> HIDE DEF l
<1>2. /\ o.type \in TensorTypes =>
           ~ (Product(SetTensor(o).dimensions) * ElemSize[SetTensor(o).dataType]
                # Len(SetTensor(o).data))
      /\ o.type = "UpdateFunction" => Len(o.dims) = Len(o.dims) % Power[W16]
  BY <1>1 DEF FatalErrors, l
<1>3. SetTensor(o).dataType = o.elemType
  BY DEF SetTensor
<1> QED BY <1>2, <1>3 DEF Narrowed, Data, Size

\* After the shape of a tensor the reader knows how long it is.
LEMMA TensorLengthFacts ==
  ASSUME NEW o \in Objects, Formed(o), o.type \in TensorTypes,
         NEW b \in Seq(Nat), 2 + Len(o.dims) \leq Len(b),
         \A k \in 1 .. (2 + Len(o.dims)) : b[k] = Tensor(o)[k].v
  PROVE  /\ b[1] = o.elemType /\ b[2] = Len(o.dims)
         /\ SubSeq(b, 3, 2 + b[2]) = Narrowed(o)
         /\ TensorLength(b) = Len(Tensor(o))
<1> DEFINE r == Len(o.dims)
           d == SubSeq(b, 3, 2 + r)
<1>1. /\ r \in Nat /\ Len(Data(o)) \in Nat /\ Len(Tensor(o)) = 2 + r + Len(Data(o))
      /\ Tensor(o)[1].v = o.elemType /\ Tensor(o)[2].v = r
      /\ \A k \in 1 .. r : Tensor(o)[2 + k].v = Narrowed(o)[k]
  BY TensorFacts
<1>2. b[1] = o.elemType /\ b[2] = r
  <2>1. 1 \in 1 .. (2 + r) /\ 2 \in 1 .. (2 + r)
    BY <1>1
  <2> QED BY <1>1, <2>1
<1>3. d \in Seq(Nat) /\ Len(d) = r /\ \A k \in 1 .. r : d[k] = b[2 + k]
  <2> DEFINE x == 2 + r
  <2>1. x \in Nat /\ 3 \in Nat \ {0} /\ 3 \leq x + 1 /\ x - 3 + 1 = r /\ x \leq Len(b)
    BY <1>1
  <2>2. d = SubSeq(b, 3, x)
    OBVIOUS
  <2> HIDE DEF x, d, r
  <2>3. d \in Seq(Nat) /\ Slice(d, b, 3, x)
    BY <2>1, <2>2, SliceFacts
  <2> QED BY <1>1, <2>1, <2>3 DEF Slice
<1>4. ASSUME NEW k \in 1 .. r PROVE b[2 + k] = Narrowed(o)[k]
  <2>1. 2 + k \in 1 .. (2 + r)
    BY <1>1
  <2> QED BY <1>1, <2>1
<1>5. Narrowed(o) \in Seq(Nat) /\ Len(Narrowed(o)) = r
  BY NarrowedFacts
<1> HIDE DEF d, r
<1>6. d = Narrowed(o)
  <2>1. \A k \in 1 .. r : d[k] = Narrowed(o)[k]
    BY <1>3, <1>4
  <2> DEFINE e == Narrowed(o)
  <2>2. d \in Seq(Nat) /\ e \in Seq(Nat) /\ Len(d) = r /\ Len(e) = r
    BY <1>3, <1>5
  <2> HIDE DEF e
  <2> QED BY <2>1, <2>2 DEF e
<1>7. SubSeq(b, 3, 2 + b[2]) = d
  BY <1>2 DEF d
<1>8. Product(Narrowed(o)) * Size(o) = Len(Data(o))
  BY FormedFacts
<1>9. TensorLength(b) = 2 + r + Product(Narrowed(o)) * Size(o)
  BY <1>2, <1>6, <1>7 DEF TensorLength, Size
<1> QED BY <1>1, <1>2, <1>6, <1>7, <1>8, <1>9 DEF r

LEMMA TensorFollows ==
  ASSUME NEW o \in Objects, Formed(o), o.type \in TensorTypes, NEW b \in Seq(Nat),
         \A k \in 1 .. Len(b) : k \leq Len(Tensor(o)) => b[k] = Tensor(o)[k].v
  PROVE  LET m == Len(Tensor(o))
         IN BodyWidth(o.type, b) =
              IF Len(b) < m THEN Tensor(o)[Len(b) + 1].w
              ELSE IF Len(b) < m + Len(TailSizes(o.type))
                   THEN TailSizes(o.type)[Len(b) - m + 1] ELSE 0
<1> DEFINE r == Len(o.dims)
           t == Tensor(o)
           m == Len(t)
           l == Len(b)
           g == TailSizes(o.type)
           z == Len(g)
<1>1. /\ r \in Nat /\ Len(Data(o)) \in Nat /\ m \in Nat /\ m = 2 + r + Len(Data(o)) /\ l \in Nat
      /\ t[1].w = W16 /\ t[2].w = W16 /\ t[2].v = r
      /\ \A k \in 1 .. r : t[2 + k].w = W32
      /\ \A k \in 1 .. Len(Data(o)) : t[2 + r + k].w = 1
  <2>1. /\ r \in Nat /\ Len(Data(o)) \in Nat /\ m = 2 + r + Len(Data(o))
        /\ t[1].w = W16 /\ t[2].w = W16 /\ t[2].v = r
        /\ \A k \in 1 .. r : t[2 + k].w = W32
        /\ \A k \in 1 .. Len(Data(o)) : t[2 + r + k].w = 1
    BY TensorFacts
  <2>2. l \in Nat
    OBVIOUS
  <2>3. m \in Nat
    <3> HIDE DEF m, r
    <3> QED BY <2>1
  <2> QED BY <2>1, <2>2, <2>3
<1>2. BodyWidth(o.type, b) =
        IF TensorWidth(b) > 0 THEN TensorWidth(b)
        ELSE TailWidth(o.type, SubSeq(b, TensorLength(b) + 1, Len(b)))
  <2>1. o.type # "UpdateFunction"
    BY DEF TensorTypes
  <2> QED BY <2>1 DEF BodyWidth
<1>3. 2 + r \leq l => b[1] = o.elemType /\ b[2] = r /\ TensorLength(b) = m
  <2> SUFFICES ASSUME 2 + r \leq l PROVE b[1] = o.elemType /\ b[2] = r /\ TensorLength(b) = m
    OBVIOUS
  <2>1. ASSUME NEW k \in 1 .. (2 + r) PROVE b[k] = t[k].v
    <3>1. k \in 1 .. l /\ k \leq m
      BY <1>1
    <3> QED BY <3>1
  <2> QED BY <2>1, TensorLengthFacts
<1>4. 2 \leq l => b[2] = r
  <2> SUFFICES ASSUME 2 \leq l PROVE b[2] = r
    OBVIOUS
  <2>1. 2 \in 1 .. l /\ 2 \leq m
    BY <1>1
  <2> QED BY <1>1, <2>1
<1>5. z \in Nat
  BY TailSizesFacts
<1>6. TensorLength(b) = m /\ m \leq l => TailWidth(o.type, SubSeq(b, TensorLength(b) + 1, Len(b))) =
                          IF l < m + z THEN g[l - m + 1] ELSE 0
  <2> SUFFICES ASSUME TensorLength(b) = m, m \leq l
               PROVE  TailWidth(o.type, SubSeq(b, m + 1, l)) = IF l < m + z THEN g[l - m + 1] ELSE 0
    OBVIOUS
  <2>1. Len(SubSeq(b, m + 1, l)) = l - m
    <3> DEFINE x == m + 1
    <3>1. l \leq Len(b) /\ l \in Nat /\ x \in Nat \ {0} /\ x \leq l + 1 /\ l - x + 1 = l - m
      <4>1. l \leq Len(b)
        BY <1>1
      <4> HIDE DEF l, m
      <4> QED BY <1>1, <4>1
    <3> HIDE DEF x, l
    <3>2. Len(SubSeq(b, x, l)) = l - x + 1
      BY <3>1, SliceFacts DEF Slice
    <3> QED BY <3>1, <3>2 DEF x
  <2>2. TailWidth(o.type, SubSeq(b, m + 1, l)) = IF l - m < z THEN g[l - m + 1] ELSE 0
    BY <2>1 DEF TailWidth
  <2>3. l - m < z <=> l < m + z
    <3> HIDE DEF l, m, z
    <3> QED BY <1>1, <1>5
  <2> QED BY <2>2, <2>3
<1> HIDE DEF t, m, r, l, g, z
<1>7. TensorWidth(b) = IF l < 2 THEN W16
                       ELSE IF l < 2 + b[2] THEN W32
                       ELSE IF l < TensorLength(b) THEN 1 ELSE 0
  BY DEF TensorWidth, l
<1>8. W16 > 0 /\ W32 > 0
  BY SizeFacts
<1>9. CASE l < 2
  <2>1. TensorWidth(b) = W16 /\ l < m
    BY <1>1, <1>7, <1>9
  <2>2. t[l + 1].w = W16
    <3>1. l + 1 = 1 \/ l + 1 = 2
      BY <1>1, <1>9
    <3> QED BY <1>1, <3>1
  <2> QED BY <1>2, <1>8, <2>1, <2>2 DEF t, m, l
<1>10. CASE 2 \leq l /\ l < 2 + r
  <2>1. TensorWidth(b) = W32 /\ l < m
    BY <1>1, <1>4, <1>7, <1>10
  <2>2. t[l + 1].w = W32
    <3> DEFINE k == l - 1
    <3>1. k \in 1 .. r /\ l + 1 = 2 + k
      BY <1>1, <1>10
    <3> HIDE DEF k
    <3> QED BY <1>1, <3>1
  <2> QED BY <1>2, <1>8, <2>1, <2>2 DEF t, m, l
<1>11. CASE 2 + r \leq l /\ l < m
  <2>1. TensorWidth(b) = 1
    BY <1>1, <1>3, <1>7, <1>11
  <2>2. t[l + 1].w = 1
    <3> DEFINE k == l - 1 - r
    <3>1. k \in 1 .. Len(Data(o)) /\ l + 1 = 2 + r + k
      BY <1>1, <1>11
    <3> HIDE DEF k
    <3> QED BY <1>1, <3>1
  <2> QED BY <1>2, <1>11, <2>1, <2>2 DEF t, m, l
<1>12. CASE m \leq l
  <2>1. TensorWidth(b) = 0 /\ TensorLength(b) = m /\ ~ (l < m)
    BY <1>1, <1>3, <1>7, <1>12
  <2>2. BodyWidth(o.type, b) = IF l < m + z THEN g[l - m + 1] ELSE 0
    BY <1>2, <1>6, <1>12, <2>1
  <2> QED BY <2>1, <2>2 DEF t, m, l, g, z
<1>13. l < 2 \/ (2 \leq l /\ l < 2 + r) \/ (2 + r \leq l /\ l < m) \/ m \leq l
  BY <1>1
<1> QED BY <1>9, <1>10, <1>11, <1>12, <1>13

LEMMA FunctionFollows ==
  ASSUME NEW o \in Objects, Formed(o), o.type = "UpdateFunction", NEW b \in Seq(Nat),
         Len(b) \leq Len(Middle(o)),
         \A k \in 1 .. Len(b) : b[k] = Middle(o)[k].v
  PROVE  BodyWidth(o.type, b) = IF Len(b) < Len(Middle(o)) THEN Middle(o)[Len(b) + 1].w ELSE 0
<1> DEFINE a == Len(o.archive)
           d == Len(o.dims)
           t == Middle(o)
           m == Len(t)
           l == Len(b)
           q == SubSeq(b, 1 + a + 1, l)
<1>1. /\ a \in Nat /\ d \in Nat /\ m = 2 + a + d /\ l \in Nat /\ m \in Nat /\ l \leq m
      /\ t[1].w = W64 /\ t[1].v = a
      /\ \A k \in 1 .. a : t[1 + k].w = 1
      /\ t[2 + a].w = W16 /\ t[2 + a].v = d
      /\ \A k \in 1 .. d : t[2 + a + k].w = W16
  <2>1. t = Cereal(o) \o InputDimensions(o)
    BY MiddleFacts
  <2>2. d = d % Power[W16]
    BY FormedFacts
  <2>3. /\ a \in Nat /\ d \in Nat /\ m = 2 + a + d
        /\ t[1].w = W64 /\ t[1].v = a
        /\ \A k \in 1 .. a : t[1 + k].w = 1
        /\ t[2 + a].w = W16 /\ t[2 + a].v = d % Power[W16]
        /\ \A k \in 1 .. d : t[2 + a + k].w = W16
    BY <2>1, FunctionFacts
  <2>4. l \in Nat /\ l \leq m
    OBVIOUS
  <2>5. m \in Nat
    <3> HIDE DEF m, a, d
    <3> QED BY <2>3
  <2> QED BY <2>2, <2>3, <2>4, <2>5, Zenon
<1>2. BodyWidth(o.type, b) =
        IF CerealWidth(b) > 0 THEN CerealWidth(b)
        ELSE InputDimensionsWidth(SubSeq(b, 2 + b[1], Len(b)))
  <2>1. "UpdateFunction" \notin TensorTypes
    BY DEF TensorTypes
  <2> QED BY <2>1 DEF BodyWidth
<1>3. \A k \in 1 .. l : b[k] = t[k].v
  OBVIOUS
<1>4. b = <<>> <=> l = 0
  OBVIOUS
<1>5. W64 > 0 /\ W16 > 0
  BY SizeFacts
<1>6. 1 + a \leq l => /\ q \in Seq(Nat) /\ Len(q) = l - (1 + a)
                      /\ \A k \in 1 .. (l - (1 + a)) : q[k] = b[1 + a + k]
  <2> SUFFICES ASSUME 1 + a \leq l
               PROVE /\ q \in Seq(Nat) /\ Len(q) = l - (1 + a)
                     /\ \A k \in 1 .. (l - (1 + a)) : q[k] = b[1 + a + k]
    OBVIOUS
  <2> DEFINE x == 1 + a + 1
  <2>1. /\ x \in Nat \ {0} /\ x \leq l + 1 /\ l \leq Len(b) /\ l \in Nat
        /\ l - x + 1 = l - (1 + a) /\ x - 1 = 1 + a
    BY <1>1
  <2>2. q = SubSeq(b, x, l)
    OBVIOUS
  <2> HIDE DEF x, q, l, a
  <2>3. q \in Seq(Nat) /\ Slice(q, b, x, l)
    BY <2>1, <2>2, SliceFacts
  <2> QED BY <2>1, <2>3, Zenon DEF Slice
<1> HIDE DEF a, d, t, m, l, q
<1>7. CerealWidth(b) = IF l = 0 THEN W64 ELSE IF l < 1 + b[1] THEN 1 ELSE 0
  BY <1>4 DEF CerealWidth, l
<1>8. l > 0 => b[1] = a
  <2>1. l > 0 => 1 \in 1 .. l
    BY <1>1
  <2> QED BY <1>1, <1>3, <2>1
<1>9. CASE l = 0
  <2>1. CerealWidth(b) = W64 /\ l < m /\ t[l + 1].w = W64
    BY <1>1, <1>7, <1>9
  <2> QED BY <1>2, <1>5, <2>1 DEF t, m, l
<1>10. CASE 0 < l /\ l < 1 + a
  <2>1. CerealWidth(b) = 1 /\ l < m
    BY <1>1, <1>7, <1>8, <1>10
  <2>2. t[l + 1].w = 1
    <3>1. l \in 1 .. a /\ l + 1 = 1 + l
      BY <1>1, <1>10
    <3> QED BY <1>1, <3>1
  <2> QED BY <1>2, <2>1, <2>2 DEF t, m, l
<1>11. CASE 1 + a \leq l
  <2>1. CerealWidth(b) = 0 /\ b[1] = a
    BY <1>1, <1>7, <1>8, <1>11
  <2>2. SubSeq(b, 2 + b[1], Len(b)) = q
    <3>1. 2 + a = 1 + a + 1
      BY <1>1
    <3> QED BY <2>1, <3>1 DEF q, l
  <2>3. BodyWidth(o.type, b) = InputDimensionsWidth(q)
    <3>1. ~ (CerealWidth(b) > 0)
      BY <2>1
    <3> QED BY <1>2, <2>2, <3>1, Zenon
  <2>4. CASE l = 1 + a
    <3>1. q = <<>>
      BY <1>1, <1>6, <2>4
    <3>2. InputDimensionsWidth(q) = W16 /\ l < m /\ l + 1 = 2 + a
      BY <1>1, <2>4, <3>1 DEF InputDimensionsWidth
    <3> QED BY <1>1, <2>3, <3>2 DEF t, m, l
  <2>5. CASE 1 + a < l
    <3> DEFINE j == l - (1 + a)
    <3>1. j \in Nat \ {0} /\ 1 \in 1 .. j /\ l = 1 + a + j /\ 2 + a \in 1 .. l /\ 1 + a + 1 = 2 + a
      BY <1>1, <2>5
    <3>2. Len(q) = j /\ q \in Seq(Nat) /\ q[1] = b[1 + a + 1]
      BY <1>6, <1>11, <3>1
    <3> HIDE DEF j
    <3>3. q[1] = d /\ q # <<>>
      BY <1>1, <1>3, <3>1, <3>2
    <3>4. InputDimensionsWidth(q) = IF j < 1 + d THEN W16 ELSE 0
      BY <3>2, <3>3 DEF InputDimensionsWidth
    <3>5. j < 1 + d <=> l < m
      BY <1>1, <3>1, SMTT(60)
    <3>6. l < m => t[l + 1].w = W16
      <4>1. l < m => j \in 1 .. d /\ l + 1 = 2 + a + j
        BY <1>1, <3>1
      <4> QED BY <1>1, <4>1
    <3> QED BY <2>3, <3>4, <3>5, <3>6 DEF t, m, l
  <2> QED BY <1>1, <1>11, <2>4, <2>5
<1> QED BY <1>1, <1>9, <1>10, <1>11

LEMMA BodyFacts ==
  ASSUME NEW v \in Seq(Nat), 5 \leq Len(v)
  PROVE  /\ Body(v) \in Seq(Nat) /\ Len(Body(v)) = Len(v) - 5 /\ Len(v) \in Nat
         /\ \A k \in 1 .. (Len(v) - 5) : Body(v)[k] = v[5 + k]
<1> DEFINE l == Len(v)
<1>1. /\ l \in Nat /\ l \leq Len(v) /\ 6 \in Nat \ {0} /\ 6 \leq l + 1 /\ l - 6 + 1 = l - 5
      /\ 6 - 1 = 5
  OBVIOUS
<1>2. Body(v) = SubSeq(v, 6, l)
  BY DEF Body
<1> HIDE DEF l
<1>3. SubSeq(v, 6, l) \in Seq(Nat) /\ Slice(SubSeq(v, 6, l), v, 6, l)
  BY <1>1, SliceFacts
<1> DEFINE b == SubSeq(v, 6, l)
<1> HIDE DEF b
<1>4. b \in Seq(Nat) /\ Len(b) = l - 5 /\ \A k \in 1 .. (l - 5) : b[k] = v[5 + k]
  BY <1>1, <1>3 DEF Slice, b
<1> QED BY <1>1, <1>2, <1>4 DEF b, l

\* What the reader asks for next is what the writer wrote next.
LEMMA ReaderFollows ==
  ASSUME NEW o \in Objects, Formed(o), NEW v \in Seq(Nat),
         Len(v) \leq Len(Sent(o)),
         \A k \in 1 .. Len(v) : v[k] = Sent(o)[k].v
  PROVE  Width(v) = IF Len(v) < Len(Sent(o)) THEN Sent(o)[Len(v) + 1].w ELSE 0
<1> DEFINE l == Len(v)
           s == Sent(o)
           t == Middle(o)
           m == Len(t)
           g == TailSizes(o.type)
           z == Len(g)
           b == Body(v)
<1>1. /\ m \in Nat /\ z \in Nat /\ Len(s) = 5 + m + z
      /\ \A k \in 1 .. 5 : s[k].w = W32
      /\ s[1].v = TypeNumber[o.type]
      /\ \A k \in 1 .. m : s[5 + k] = t[k]
      /\ \A k \in 1 .. z : s[5 + m + k].w = g[k]
  BY SentFacts
<1>2. l \in Nat /\ l \leq Len(s) /\ \A k \in 1 .. l : v[k] = s[k].v
  OBVIOUS
<1>3. CASE l < 5
  <2>1. Width(v) = W32
    BY <1>3 DEF Width
  <2> HIDE DEF l, s, m, z, t, g
  <2>2. l < Len(s) /\ l + 1 \in 1 .. 5
    BY <1>1, <1>2, <1>3
  <2> QED BY <1>1, <2>1, <2>2 DEF l, s
<1>4. CASE 5 \leq l
  <2>1. /\ b \in Seq(Nat) /\ Len(b) = l - 5 /\ \A k \in 1 .. (l - 5) : b[k] = v[5 + k]
    BY <1>4, BodyFacts
  <2>2. v[1] = TypeNumber[o.type] /\ o.type \in DOMAIN TypeNumber
    <3>1. 1 \in 1 .. l
      BY <1>4
    <3> QED BY <1>1, <1>2, <3>1, ObjectsAssumption
  <2>3. TypeOf(v[1]) = o.type
    BY <2>2, TypeOfNumber
  <2>4. Width(v) = BodyWidth(o.type, b)
    BY <1>2, <1>4, <2>3 DEF Width
  <2> HIDE DEF l, s, t, m, g, z, b
  <2>5. ASSUME NEW k \in 1 .. Len(b), k \leq m PROVE b[k] = t[k].v
    <3>1. k \in 1 .. (l - 5) /\ 5 + k \in 1 .. l /\ k \in 1 .. m
      BY <1>1, <1>2, <1>4, <2>1, <2>5
    <3> QED BY <1>1, <1>2, <2>1, <3>1
  <2> DEFINE Answer == IF Len(b) < m THEN t[Len(b) + 1].w
                       ELSE IF Len(b) < m + z THEN g[Len(b) - m + 1] ELSE 0
  <2>6. Answer = IF l < Len(s) THEN s[l + 1].w ELSE 0
    <3>1. CASE l - 5 < m
      <4> DEFINE k == l - 4
      <4>1. k \in 1 .. m /\ l + 1 = 5 + k /\ Len(b) + 1 = k /\ l < Len(s) /\ Len(b) < m
        BY <1>1, <1>2, <1>4, <2>1, <3>1
      <4> HIDE DEF k
      <4>2. s[l + 1] = t[k]
        BY <1>1, <4>1
      <4> QED BY <4>1, <4>2
    <3>2. CASE m \leq l - 5 /\ l < Len(s)
      <4> DEFINE k == l - 5 - m + 1
      <4>1. k \in 1 .. z /\ l + 1 = 5 + m + k /\ Len(b) - m + 1 = k
        BY <1>1, <1>2, <1>4, <2>1, <3>2
      <4>2. ~ (Len(b) < m) /\ Len(b) < m + z
        BY <1>1, <1>2, <1>4, <2>1, <3>2
      <4> HIDE DEF k
      <4>3. s[l + 1].w = g[k]
        BY <1>1, <4>1
      <4> QED BY <3>2, <4>1, <4>2, <4>3
    <3>3. CASE l = Len(s)
      <4>1. ~ (Len(b) < m) /\ ~ (Len(b) < m + z) /\ ~ (l < Len(s))
        BY <1>1, <1>2, <1>4, <2>1, <3>3
      <4> QED BY <4>1
    <3>4. l - 5 < m \/ (m \leq l - 5 /\ l < Len(s)) \/ l = Len(s)
      <4>1. Len(s) \in Nat /\ l \in Nat /\ l \leq Len(s)
        BY <1>1, <1>2
      <4> QED BY <1>1, <4>1
    <3> QED BY <3>1, <3>2, <3>3, <3>4
  <2>7. BodyWidth(o.type, b) = Answer
    <3>1. CASE o.type \in TensorTypes
      <4>1. t = Tensor(o)
        BY <3>1, MiddleFacts DEF t
      <4>2. \A k \in 1 .. Len(b) : k \leq Len(Tensor(o)) => b[k] = Tensor(o)[k].v
        BY <2>5, <4>1 DEF m
      <4>3. m = Len(Tensor(o))
        BY <4>1 DEF m
      <4>4. BodyWidth(o.type, b) =
              IF Len(b) < Len(Tensor(o)) THEN Tensor(o)[Len(b) + 1].w
              ELSE IF Len(b) < Len(Tensor(o)) + Len(TailSizes(o.type))
                   THEN TailSizes(o.type)[Len(b) - Len(Tensor(o)) + 1] ELSE 0
        BY <2>1, <3>1, <4>2, TensorFollows
      <4> QED BY <4>1, <4>3, <4>4, Zenon DEF g, z
    <3>2. CASE o.type = "UpdateFunction"
      <4>1. g = <<>> /\ z = 0
        <5>1. g = <<>>
          BY <3>2 DEF TailSizes, g
        <5> QED BY <5>1 DEF z
      <4>2. Len(b) \leq m
        BY <1>1, <1>2, <2>1, <4>1
      <4>3. ASSUME NEW k \in 1 .. Len(b) PROVE b[k] = t[k].v
        <5>1. k \leq m
          BY <1>1, <1>2, <1>4, <2>1, <4>2
        <5> QED BY <2>5, <5>1
      <4>4. BodyWidth(o.type, b) = IF Len(b) < m THEN t[Len(b) + 1].w ELSE 0
        BY <2>1, <3>2, <4>2, <4>3, FunctionFollows DEF t, m
      <4>5. ~ (Len(b) < m) => ~ (Len(b) < m + z)
        BY <1>1, <4>1
      <4> QED BY <4>4, <4>5, Zenon
    <3>3. CASE o.type \notin TensorTypes \cup {"UpdateFunction"}
      <4>1. t = <<>> /\ m = 0
        <5>1. t = <<>>
          BY <3>3, MiddleFacts DEF t
        <5> QED BY <5>1 DEF m
      <4>2. BodyWidth(o.type, b) = IF Len(b) < z THEN g[Len(b) + 1] ELSE 0
        BY <3>3 DEF BodyWidth, TailWidth, g, z
      <4>3. ~ (Len(b) < m) /\ m + z = z /\ Len(b) - m + 1 = Len(b) + 1
        BY <1>1, <1>2, <1>4, <2>1, <4>1
      <4> QED BY <4>2, <4>3, Zenon
    <3> QED BY <3>1, <3>2, <3>3
  <2> QED BY <2>4, <2>6, <2>7 DEF l, s
<1>5. l < 5 \/ 5 \leq l
  BY <1>2
<1> QED BY <1>3, <1>4, <1>5

\* The first sizes, whatever has been read.
LEMMA FirstWidths ==
  ASSUME NEW v \in Seq(Nat)
  PROVE  /\ Len(v) < 5 => Width(v) = W32
         /\ Len(v) \in {5, 6} /\ TypeOf(v[1]) \in TensorTypes => Width(v) = W16
<1>1. Len(v) < 5 => Width(v) = W32
  BY DEF Width
<1>2. ASSUME Len(v) \in {5, 6}, TypeOf(v[1]) \in TensorTypes PROVE Width(v) = W16
  <2> DEFINE type == TypeOf(v[1])
             b == Body(v)
  <2>0. 5 \leq Len(v) /\ ~ (Len(v) < 5)
    <3> DEFINE l == Len(v)
    <3>1. l \in {5, 6} /\ l \in Nat
      BY <1>2
    <3> HIDE DEF l
    <3>2. 5 \leq l /\ ~ (l < 5)
      BY <3>1
    <3> QED BY <3>2 DEF l
  <2>1. Len(b) = Len(v) - 5
    BY <2>0, BodyFacts
  <2>2. type \in TensorTypes /\ type # "UpdateFunction"
    BY <1>2 DEF TensorTypes
  <2>3. Width(v) = BodyWidth(type, b)
    BY <2>0 DEF Width
  <2> HIDE DEF b, type
  <2>4. Len(b) < 2
    BY <1>2, <2>1, SMTT(60)
  <2>5. TensorWidth(b) = W16 /\ W16 > 0
    BY <2>4, SizeFacts DEF TensorWidth
  <2> QED BY <2>2, <2>3, <2>5 DEF BodyWidth
<1> QED BY <1>1, <1>2

\* The reader always knows how much to read.
LEMMA WidthIsNat ==
  ASSUME NEW v \in Seq(Nat),
         Len(v) > 6 /\ TypeOf(v[1]) \in TensorTypes => v[6] \in DOMAIN ElemSize
  PROVE  Width(v) \in Nat
<1> DEFINE type == TypeOf(v[1])
           b == Body(v)
           l == Len(v)
<1>0. W16 \in Nat /\ W32 \in Nat /\ W64 \in Nat /\ 1 \in Nat /\ 0 \in Nat /\ l \in Nat
  BY SizeFacts
<1>1. ASSUME NEW r, Len(r) \in Nat PROVE TailWidth(type, r) \in Nat
  <2> DEFINE g == TailSizes(type)
  <2>1. Len(g) \in Nat /\ \A k \in 1 .. Len(g) : g[k] \in Nat
    BY TailSizesFacts
  <2>2. TailWidth(type, r) = IF Len(r) < Len(g) THEN g[Len(r) + 1] ELSE 0
    BY DEF TailWidth
  <2> HIDE DEF g, type
  <2>3. Len(r) < Len(g) => Len(r) + 1 \in 1 .. Len(g)
    BY <1>1, <2>1
  <2> QED BY <1>0, <2>1, <2>2, <2>3
<1>2. CASE l < 5
  BY <1>0, <1>2, FirstWidths
<1>3. CASE 5 \leq l
  <2>1. /\ b \in Seq(Nat) /\ Len(b) = l - 5 /\ \A k \in 1 .. (l - 5) : b[k] = v[5 + k]
    BY <1>3, BodyFacts
  <2>2. Width(v) = BodyWidth(type, b)
    BY <1>0, <1>3 DEF Width
  <2>3. type \in TensorTypes /\ 2 \leq Len(b) => b[1] \in DOMAIN ElemSize
    <3> SUFFICES ASSUME type \in TensorTypes, 2 \leq Len(b) PROVE b[1] \in DOMAIN ElemSize
      OBVIOUS
    <3> HIDE DEF b, l
    <3>1. 1 \in 1 .. (l - 5) /\ 5 + 1 = 6 /\ l > 6
      BY <1>0, <2>1
    <3>2. b[1] = v[6]
      BY <2>1, <3>1
    <3> QED BY <3>1, <3>2 DEF l
  <2> HIDE DEF b, type, l
  <2>4. CASE type \in TensorTypes
    <3> DEFINE r == b[2]
               d == SubSeq(b, 3, 2 + r)
               x == TensorLength(b)
    <3>0. Len(b) \in Nat
      BY <1>0, <1>3, <2>1
    <3>1. 2 \leq Len(b) => r \in Nat
      <4> SUFFICES ASSUME 2 \leq Len(b) PROVE b[2] \in Nat
        OBVIOUS
      <4>1. 2 \in 1 .. Len(b)
        BY <3>0
      <4> QED BY <2>1, <4>1
    <3>2. 2 \leq Len(b) /\ 2 + r \leq Len(b) => x \in Nat
      <4> SUFFICES ASSUME 2 \leq Len(b), 2 + r \leq Len(b) PROVE x \in Nat
        OBVIOUS
      <4> HIDE DEF r
      <4> DEFINE e == 2 + r
      <4>1. r \in Nat /\ e \in Nat /\ 3 \in Nat \ {0} /\ 3 \leq e + 1 /\ e \leq Len(b)
        BY <3>1
      <4> HIDE DEF e
      <4>2. SubSeq(b, 3, e) \in Seq(Nat)
        BY <2>1, <4>1, SliceFacts
      <4> DEFINE p == Product(d)
                 q == ElemSize[b[1]]
      <4>3. p \in Nat
        <5>1. d \in Seq(Nat)
          BY <4>2 DEF e
        <5> HIDE DEF d
        <5>2. Product(d) = PartProduct(d, Len(d)) /\ Len(d) \in 0 .. Len(d)
          BY <5>1, ProductFacts
        <5> QED BY <5>1, <5>2, ProductFacts
      <4>4. q \in Nat
        BY <2>3, <2>4, SizeFacts
      <4>5. x = 2 + r + p * q
        BY DEF TensorLength, r
      <4> HIDE DEF p, q, x
      <4> QED BY <4>1, <4>3, <4>4, <4>5
    <3>3. TensorWidth(b) = IF Len(b) < 2 THEN W16 ELSE IF Len(b) < 2 + r THEN W32
                           ELSE IF Len(b) < x THEN 1 ELSE 0
      BY DEF TensorWidth
    <3>4. TensorWidth(b) \in Nat
      <4> HIDE DEF r, x
      <4> QED BY <1>0, <3>3
    <3>5. ASSUME ~ (TensorWidth(b) > 0) PROVE Len(SubSeq(b, x + 1, Len(b))) \in Nat
      <4> HIDE DEF r, x
      <4>1. ~ (Len(b) < 2) /\ ~ (Len(b) < 2 + r) /\ ~ (Len(b) < x)
        BY <3>3, <3>5, SizeFacts
      <4>2. x \in Nat
        BY <3>0, <3>1, <3>2, <4>1
      <4> DEFINE y == x + 1
                 e == Len(b)
      <4>3. y \in Nat \ {0} /\ y \leq e + 1 /\ e \leq Len(b) /\ e \in Nat
        BY <3>0, <4>1, <4>2
      <4> HIDE DEF y, e
      <4>4. SubSeq(b, y, e) \in Seq(Nat)
        BY <2>1, <4>3, SliceFacts
      <4>5. Len(SubSeq(b, y, e)) \in Nat
        BY <4>4
      <4> QED BY <4>5 DEF y, e
    <3>6. type # "UpdateFunction"
      BY <2>4 DEF TensorTypes
    <3>7. BodyWidth(type, b) = IF TensorWidth(b) > 0 THEN TensorWidth(b)
                               ELSE TailWidth(type, SubSeq(b, x + 1, Len(b)))
      BY <2>4, <3>6 DEF BodyWidth
    <3> HIDE DEF x
    <3> QED BY <1>1, <2>2, <3>4, <3>5, <3>7
  <2>5. CASE type = "UpdateFunction"
    <3>1. type \notin TensorTypes
      BY <2>5 DEF TensorTypes
    <3>2. \A r : InputDimensionsWidth(r) \in Nat
      BY <1>0 DEF InputDimensionsWidth
    <3>3. CerealWidth(b) \in Nat
      BY <1>0 DEF CerealWidth
    <3> QED BY <2>2, <2>5, <3>1, <3>2, <3>3 DEF BodyWidth
  <2>6. CASE type \notin TensorTypes \cup {"UpdateFunction"}
    <3>1. Len(b) \in Nat
      BY <1>0, <1>3, <2>1
    <3> QED BY <1>1, <2>2, <2>6, <3>1 DEF BodyWidth
  <2> QED BY <2>4, <2>5, <2>6
<1> QED BY <1>0, <1>2, <1>3

-----------------------------------------------------------------------------
(* The byte loop.                                                          *)

\* At its beginning the loop has the scalar as it was copied.
LEMMA LoopStarts ==
  ASSUME NEW b \in Seq(Byte), Copied(b), InHand' = arr'
  PROVE  /\ n' = Len(b) /\ n' \in Nat /\ i' \in 0 .. n' /\ arr' \in [0 .. (n' - 1) -> Byte]
         /\ InHand' \in [0 .. (n' - 1) -> Byte] /\ Scalar!Halfway(InHand)'
<1>1. n' = Len(b) /\ n' \in Nat /\ i' = 0 /\ arr' = [k \in 0 .. (n' - 1) |-> b[k + 1]]
  BY DEF Copied
<1>2. \A k \in 0 .. (n' - 1) : b[k + 1] \in Byte
  BY <1>1
<1>3. arr' \in [0 .. (n' - 1) -> Byte]
  BY <1>1, <1>2
<1>4. ASSUME NEW k \in 0 .. (n' - 1) PROVE ~ (k < 0) /\ ~ (n' - k - 1 < 0)
  BY <1>1
<1>5. Scalar!Halfway(InHand)'
  BY <1>1, <1>4 DEF Scalar!Halfway, Scalar!Moved, Scalar!Index, Scalar!Mirror
<1> QED BY <1>1, <1>3, <1>5

\* Half way it goes on.
LEMMA LoopGoesOn ==
  ASSUME n \in Nat, i \in 0 .. n, arr \in [0 .. (n - 1) -> Byte],
         InHand \in [0 .. (n - 1) -> Byte], Scalar!Halfway(InHand), Swap
  PROVE  /\ InHand' = InHand /\ n' = n /\ i' \in 0 .. n /\ arr' \in [0 .. (n - 1) -> Byte]
         /\ Scalar!Halfway(InHand)'
<1>1. /\ n' = n /\ i < n /\ i' = i + 1 /\ arr' = Loop!Swapped
      /\ UNCHANGED <<object, stage, vals, data, ptr>>
  BY DEF Swap, Loop!Swap
<1>2. InHand' = InHand
  BY <1>1 DEF InHand
<1>3. Scalar!TypeOK
  BY DEF Scalar!TypeOK, Scalar!Index
<1>4. Scalar!Swap
  BY <1>1, <1>2 DEF Swap, Loop!Swap, Scalar!Swap, Loop!Swapped, Loop!Mirror, Scalar!Swapped,
                    Scalar!Mirror
<1>5. Scalar!Halfway(InHand)'
  BY <1>3, <1>4, Scalar!SwapStep
<1>6. arr' \in [0 .. (n - 1) -> Byte]
  <2>1. i \in 0 .. (n - 1) /\ n - i - 1 \in 0 .. (n - 1)
    BY <1>1
  <2> QED BY <1>1, <2>1 DEF Loop!Swapped, Loop!Mirror
<1>7. i' \in 0 .. n
  BY <1>1
<1> QED BY <1>1, <1>2, <1>5, <1>6, <1>7

\* At its end it has given back what it was given.
LEMMA LoopEnds ==
  ASSUME n \in Nat, i = n, arr \in [0 .. (n - 1) -> Byte],
         InHand \in [0 .. (n - 1) -> Byte], Scalar!Halfway(InHand),
         NEW b \in Seq(Byte), Len(b) = n, InHand = [k \in 0 .. (n - 1) |-> b[k + 1]]
  PROVE  Looped = b
<1>1. Scalar!TypeOK
  BY DEF Scalar!TypeOK, Scalar!Index
<1>2. arr = InHand
  BY <1>1, Scalar!LoopIsIdentity
<1>3. ASSUME NEW k \in 1 .. n PROVE arr[k - 1] = b[k]
  <2>1. k - 1 \in 0 .. (n - 1) /\ (k - 1) + 1 = k
    OBVIOUS
  <2> QED BY <1>2, <2>1
<1>4. Looped = [k \in 1 .. n |-> b[k]]
  BY <1>3 DEF Looped
<1> QED BY <1>4

-----------------------------------------------------------------------------
(* Writing.                                                                *)

LEMMA WriterFacts ==
  ASSUME NEW o \in Objects
  PROVE  /\ Len(Fields(o)) \in Nat /\ 6 \leq Len(Fields(o)) /\ Len(Sent(o)) = Len(Fields(o)) - 1
         /\ Prefix(Chunks(Fields(o)), 0) = <<>>
         /\ \A m \in 1 .. Len(Fields(o)) :
              LET x == Fields(o)[m]
              IN /\ x \in Field
                 /\ Prefix(Chunks(Fields(o)), m) =
                      Prefix(Chunks(Fields(o)), m - 1) \o BytesOf(x.v, x.w)
<1> DEFINE f == Fields(o)
           m == Len(Middle(o))
           z == Len(TailSizes(o.type))
           c == Chunks(f)
<1>1. m \in Nat /\ z \in Nat /\ Len(Sent(o)) = 5 + m + z /\ Len(f) = 6 + m + z
  BY SentFacts
<1>2. f \in Seq(Field)
  BY FieldsFacts
<1> HIDE DEF f, m, z
<1>3. Len(f) \in Nat /\ 6 \leq Len(f) /\ Len(Sent(o)) = Len(f) - 1
  BY <1>1
<1>4. /\ c \in Seq(Seq(Byte)) /\ Len(c) = Len(f)
      /\ \A k \in 1 .. Len(f) : f[k] \in Field /\ c[k] = BytesOf(f[k].v, f[k].w)
  BY <1>2, ChunksFacts
<1> HIDE DEF c
<1>5. Prefix(c, 0) = <<>> /\ \A k \in 1 .. Len(c) : Prefix(c, k) = Prefix(c, k - 1) \o c[k]
  BY <1>4, PrefixFacts
<1> QED BY <1>3, <1>4, <1>5, Zenon DEF c, f

LEMMA InitHolds ==
  ASSUME Init
  PROVE  IInv
<1> USE DEF Init
<1>1. /\ vals = <<>> /\ Len(vals) = 0 /\ data = <<>> /\ n = 0 /\ stage = "write" /\ ptr = 0 /\ whole
      /\ object \in Objects
  OBVIOUS
<1>2. TypeOK
  <2>1. <<>> \in Seq(Nat) /\ <<>> \in Seq(Byte) /\ Len(<<>>) = 0
    OBVIOUS
  <2> QED BY <1>1, <2>1 DEF TypeOK
<1>3. Writing
  <2>1. 0 \leq Len(Fields(object)) /\ 0 # Len(Fields(object)) /\ Prefix(Chunks(Fields(object)), 0) = <<>>
    BY <1>1, WriterFacts
  <2> QED BY <1>1, <2>1 DEF Writing
<1> QED BY <1>1, <1>2, <1>3 DEF IInv

LEMMA ThrowHolds ==
  ASSUME IInv, Throw
  PROVE  IInv'
<1>1. TypeOK' /\ n' = 0 /\ stage' = "thrown"
  BY DEF IInv, TypeOK, Throw
<1> QED BY <1>1 DEF IInv

LEMMA WriteScalarHolds ==
  ASSUME IInv, WriteScalar
  PROVE  IInv'
<1> DEFINE f == Fields(object)
           x == f[Len(vals) + 1]
           b == BytesOf(x.v, x.w)
<1>1. /\ stage = "write" /\ n = 0 /\ Len(vals) < Len(f) /\ ~ FatalErrors(object, Len(vals))
      /\ Copied(b)
      /\ UNCHANGED <<object, stage, vals, data, ptr, whole>>
  BY DEF WriteScalar
<1>2. TypeOK /\ Writing
  BY <1>1 DEF IInv
<1>3. object \in Objects /\ vals \in Seq(Nat) /\ Len(vals) \in Nat /\ Len(f) \in Nat
  BY <1>2, WriterFacts DEF TypeOK
<1>4. x \in Field
  <2> DEFINE m == Len(vals) + 1
  <2>1. m \in 1 .. Len(f)
    BY <1>1, <1>3
  <2> HIDE DEF m
  <2> QED BY <1>3, <2>1, WriterFacts DEF m
<1>5. x.w \in Nat \ {0} /\ b \in Seq(Byte) /\ Len(b) = x.w
  BY <1>4, FieldFacts
<1>6. InHand' = arr'
  <2>1. InHand' = [k \in 0 .. (n' - 1) |-> b[k + 1]]
    BY <1>1 DEF InHand
  <2>2. n' = Len(b) /\ arr' = [k \in 0 .. (Len(b) - 1) |-> b[k + 1]]
    BY <1>1 DEF Copied
  <2> HIDE DEF b
  <2> QED BY <2>1, <2>2
<1> HIDE DEF b, x
<1>7. /\ n' = x.w /\ n' \in Nat /\ i' \in 0 .. n' /\ arr' \in [0 .. (n' - 1) -> Byte]
      /\ InHand' \in [0 .. (n' - 1) -> Byte] /\ Scalar!Halfway(InHand)'
  BY <1>1, <1>5, <1>6, LoopStarts
<1>8. TypeOK'
  BY <1>1, <1>2, <1>7 DEF TypeOK
<1>9. Writing'
  <2>1. /\ object' = object /\ vals' = vals /\ data' = data /\ whole' = whole /\ ptr' = ptr
    BY <1>1
  <2>2. Len(vals) # Len(f)
    BY <1>1, <1>3
  <2> QED BY <1>1, <1>2, <1>7, <2>1, <2>2 DEF Writing, f, x
<1> QED BY <1>1, <1>7, <1>8, <1>9 DEF IInv

LEMMA EndWriteHolds ==
  ASSUME IInv, EndWrite
  PROVE  IInv'
<1> DEFINE f == Fields(object)
           l == Len(vals)
           x == f[l + 1]
           b == BytesOf(x.v, x.w)
           c == Chunks(f)
<1>1. /\ stage = "write" /\ n > 0 /\ i = n
      /\ data' = Written
      /\ vals' = Append(vals, x.v)
      /\ n' = 0
      /\ UNCHANGED <<object, stage, ptr, arr, i, whole>>
  BY DEF EndWrite
<1>2. TypeOK /\ Writing /\ InHand \in [0 .. (n - 1) -> Byte] /\ Scalar!Halfway(InHand)
  BY <1>1 DEF IInv
<1>3. /\ object \in Objects /\ vals \in Seq(Nat) /\ l \in Nat /\ Len(f) \in Nat /\ n \in Nat
      /\ arr \in [0 .. (n - 1) -> Byte] /\ data \in Seq(Byte)
  BY <1>1, <1>2, WriterFacts DEF TypeOK
<1>4. /\ l < Len(f) /\ n = x.w /\ ~ FatalErrors(object, l) /\ whole /\ ptr = 0
      /\ data = Prefix(c, l)
  <2>1. /\ l < Len(f) /\ n = x.w /\ ~ FatalErrors(object, l) /\ whole /\ ptr = 0
        /\ data = IF l = Len(f) THEN Wire(object) ELSE Prefix(c, l)
    BY <1>1, <1>2 DEF Writing
  <2> HIDE DEF l, c
  <2>2. l # Len(f)
    BY <1>3, <2>1
  <2> QED BY <2>1, <2>2
<1>5. x \in Field /\ Prefix(c, l + 1) = Prefix(c, l) \o b
  <2> DEFINE m == l + 1
  <2>1. m \in 1 .. Len(f) /\ m - 1 = l
    BY <1>3, <1>4
  <2> HIDE DEF m
  <2>2. f[m] \in Field /\ Prefix(c, m) = Prefix(c, m - 1) \o BytesOf(f[m].v, f[m].w)
    BY <1>3, <2>1, WriterFacts
  <2> QED BY <2>1, <2>2, Zenon DEF m
<1>6. x.w \in Nat \ {0} /\ x.v \in Nat /\ b \in Seq(Byte) /\ Len(b) = n
  BY <1>4, <1>5, FieldFacts
<1>7. Looped = b
  <2>1. InHand = [k \in 0 .. (n - 1) |-> b[k + 1]]
    BY <1>1 DEF InHand
  <2> HIDE DEF b
  <2> QED BY <1>1, <1>2, <1>3, <1>6, <2>1, LoopEnds
<1> HIDE DEF l
<1>8. data' = IF l + 1 = Len(f) THEN Wire(object) ELSE Prefix(c, l + 1)
  <2>1. CASE l + 1 = Len(f)
    <3>1. data' = b \o SubSeq(data, n + 1, Len(data))
      BY <1>1, <1>7, <2>1 DEF Written, l
    <3>2. l = Len(f) - 1 /\ Len(b) = n
      BY <1>3, <1>6, <2>1
    <3> DEFINE d == Prefix(c, Len(f) - 1)
               y == BytesOf(f[Len(f)].v, f[Len(f)].w)
    <3>3. y \o SubSeq(d, Len(y) + 1, Len(d)) = Wire(object)
      BY <1>3, Overwritten
    <3>4. y = b /\ d = data
      BY <1>4, <2>1, <3>2, Zenon
    <3> HIDE DEF b, d, y
    <3>5. b \o SubSeq(data, Len(b) + 1, Len(data)) = Wire(object)
      BY <3>3, <3>4, Zenon
    <3> QED BY <2>1, <3>1, <3>2, <3>5
  <2>2. CASE l + 1 # Len(f)
    <3>1. data' = data \o b
      BY <1>1, <1>7, <2>2 DEF Written, l
    <3> QED BY <1>4, <1>5, <2>2, <3>1
  <2> QED BY <2>1, <2>2
<1>9. vals' \in Seq(Nat) /\ Len(vals') = l + 1
  <2> DEFINE y == x.v
  <2>1. y \in Nat /\ vals' = Append(vals, y)
    BY <1>1, <1>6
  <2> HIDE DEF y
  <2> QED BY <1>3, <2>1 DEF l
<1>10. data' \in Seq(Byte) /\ Len(data') \in Nat
  <2>1. data' \in Seq(Byte)
    <3>1. CASE l + 1 = Len(f)
      BY <1>3, <1>8, <3>1, WireFacts
    <3>2. CASE l + 1 # Len(f)
      <4>1. data' = data \o b
        BY <1>4, <1>5, <1>8, <3>2
      <4> HIDE DEF b
      <4> QED BY <1>3, <1>6, <4>1, JoinFacts
    <3> QED BY <3>1, <3>2
  <2> QED BY <2>1
<1>11. TypeOK'
  <2>1. ptr' = 0 /\ 0 \in 0 .. Len(data')
    BY <1>1, <1>4, <1>10
  <2> QED BY <1>1, <1>2, <1>9, <1>10, <2>1 DEF TypeOK
<1>12. Formed(object) \/ l + 1 # Len(f)
  <2>1. l + 1 = Len(f) => l = Len(f) - 1
    BY <1>3
  <2> QED BY <1>4, <2>1 DEF Formed
<1>13. Writing'
  <2>1. l + 1 \leq Len(f)
    BY <1>3, <1>4
  <2> QED BY <1>1, <1>4, <1>8, <1>9, <1>12, <2>1 DEF Writing
<1> QED BY <1>1, <1>11, <1>13 DEF IInv

LEMMA TransmitHolds ==
  ASSUME IInv, Transmit
  PROVE  IInv'
<1> DEFINE w == Wire(object)
<1>1. /\ stage = "write" /\ n = 0
      /\ Len(vals) = Len(Fields(object))
      /\ vals' = <<>> /\ stage' = "read"
      /\ object' = object /\ ptr' = ptr /\ n' = n /\ arr' = arr /\ i' = i
  BY DEF Transmit
<1>2. PICK j \in 0 .. Len(data) : data' = SubSeq(data, 1, j) /\ whole' = (j = Len(data))
  BY DEF Transmit
<1>3. TypeOK /\ Writing
  BY <1>1 DEF IInv
<1>4. object \in Objects /\ ptr = 0 /\ Formed(object) /\ data = w
  BY <1>1, <1>3 DEF Writing, TypeOK
<1>5. w \in Seq(Byte) /\ Len(w) \in Nat /\ Offset(object, 0) = 0 /\ Len(Sent(object)) \in Nat
  BY <1>4, WireFacts
<1> HIDE DEF w
<1>6. /\ data' \in Seq(Byte) /\ Len(data') = j /\ j \leq Len(w) /\ j \in Nat
      /\ \A k \in 1 .. j : data'[k] = w[k]
  <2>1. data' = SubSeq(w, 1, j) /\ j \in 0 .. Len(w)
    BY <1>2, <1>4
  <2>2. data' \in Seq(Byte) /\ Slice(data', w, 1, j) /\ j \in Nat
    BY <1>5, <2>1, SliceFacts
  <2>3. j - 1 + 1 = j /\ \A k \in 1 .. j : 1 - 1 + k = k
    BY <2>1
  <2> QED BY <2>1, <2>2, <2>3 DEF Slice
<1>7. whole' <=> Len(data') = Len(w)
  BY <1>2, <1>4, <1>6
<1>8. /\ vals' = <<>> /\ Len(vals') = 0 /\ vals' \in Seq(Nat)
  BY <1>1
<1>9. TypeOK'
  <2>1. 0 \in 0 .. Len(data')
    BY <1>6
  <2>2. whole' \in BOOLEAN
    BY <1>2
  <2> QED BY <1>1, <1>3, <1>4, <1>6, <1>8, <2>1, <2>2 DEF TypeOK
<1>10. Arrived'
  BY <1>1, <1>4, <1>6, <1>7 DEF Arrived, w
<1>11. InStep'
  <2>1. ptr' = 0 /\ 0 \leq Len(Sent(object)) /\ object' = object
    BY <1>1, <1>4, <1>5
  <2> QED BY <1>5, <1>8, <2>1 DEF InStep
<1>12. Read'
  BY <1>1, <1>8, <1>11 DEF Read
<1> QED BY <1>1, <1>9, <1>10, <1>12 DEF IInv

-----------------------------------------------------------------------------
(* Reading.                                                                *)

LEMMA AppendFacts ==
  ASSUME NEW s \in Seq(Nat), NEW x \in Nat
  PROVE  /\ Append(s, x) \in Seq(Nat) /\ Len(Append(s, x)) = Len(s) + 1 /\ Len(s) \in Nat
         /\ Append(s, x)[Len(s) + 1] = x
         /\ \A k \in 1 .. Len(s) : Append(s, x)[k] = s[k]
OBVIOUS

LEMMA DefaultFacts ==
  ASSUME NEW v
  PROVE  /\ Default(v) \in Nat
         /\ 5 \leq Len(v) /\ TypeOf(v[1]) \in TensorTypes => Default(v) = 0
<1> DEFINE p == Power[W32]
<1>1. p - 1 \in Nat /\ CONFIG_HASH \in Nat
  <2>1. p \in Nat \ {0}
    BY SizeFacts, PowerFacts
  <2>2. CONFIG_HASH \in Nat
    <3>1. Power[W64] \in Nat /\ CONFIG_HASH \in 0 .. (Power[W64] - 1)
      BY SizeFacts, PowerFacts, CodecAssumption
    <3> QED BY <3>1
  <2> HIDE DEF p
  <2> QED BY <2>1, <2>2
<1> DEFINE type == TypeOf(v[1])
           l == Len(v)
<1>2. Default(v) = CASE l \in {1, 2} -> p - 1
                     [] l = 5 /\ type = "ConnectInfo" -> CONFIG_HASH
                     [] OTHER -> 0
  BY DEF Default
<1>3. type \in TensorTypes => type # "ConnectInfo"
  BY DEF TensorTypes
<1> HIDE DEF type, l, p
<1>4. 5 \leq l => l \notin {1, 2}
  OBVIOUS
<1> QED BY <1>1, <1>2, <1>3, <1>4 DEF type, l

\* What is left as it was keeps what the reader has.
LEMMA ReadKept ==
  ASSUME UNCHANGED <<object, vals, data, ptr>>
  PROVE  /\ InStep => InStep'
         /\ \A m : CutAt(m) => CutAt(m)'
<1>1. InStep => InStep'
  BY DEF InStep
<1>2. ASSUME NEW m, CutAt(m) PROVE CutAt(m)'
  BY <1>2 DEF CutAt, ReadsTensor
<1> QED BY <1>1, <1>2

LEMMA SwapHolds ==
  ASSUME IInv, Swap
  PROVE  IInv'
<1>1. /\ n > 0 /\ UNCHANGED <<object, stage, vals, data, ptr, whole>>
  BY DEF Swap
<1>2. TypeOK /\ InHand \in [0 .. (n - 1) -> Byte] /\ Scalar!Halfway(InHand)
  BY <1>1 DEF IInv
<1>3. n \in Nat /\ i \in 0 .. n /\ arr \in [0 .. (n - 1) -> Byte]
  BY <1>1, <1>2 DEF TypeOK
<1>4. /\ InHand' = InHand /\ n' = n /\ i' \in 0 .. n /\ arr' \in [0 .. (n - 1) -> Byte]
      /\ Scalar!Halfway(InHand)'
  BY <1>2, <1>3, LoopGoesOn
<1>5. TypeOK'
  BY <1>1, <1>2, <1>4 DEF TypeOK
<1>6. stage = "write" => Writing'
  BY <1>1, <1>4 DEF IInv, Writing
<1>7. stage \in {"read", "accepted", "rejected", "terminated"} => Arrived'
  BY <1>1, <1>4 DEF IInv, Arrived
<1>8. stage \in {"read", "accepted", "rejected", "terminated"} => Read'
  <2> SUFFICES ASSUME stage \in {"read", "accepted", "rejected", "terminated"} PROVE Read'
    OBVIOUS
  <2>1. Read
    BY DEF IInv
  <2>2. InStep' \/ \E m \in 1 .. Len(vals') : CutAt(m)'
    BY <1>1, <2>1, ReadKept DEF Read
  <2> QED BY <1>1, <1>4, <2>1, <2>2 DEF Read, ReadsTensor, UnknownElemType
<1> QED BY <1>1, <1>2, <1>4, <1>5, <1>6, <1>7, <1>8 DEF IInv

\* What a read step finds.
LEMMA ReadingFacts ==
  ASSUME IInv, stage = "read"
  PROVE  /\ TypeOK /\ Arrived /\ Read
         /\ object \in Objects /\ vals \in Seq(Nat) /\ Len(vals) \in Nat
         /\ data \in Seq(Byte) /\ Len(data) \in Nat /\ ptr \in Nat /\ ptr \leq Len(data)
         /\ n \in Nat /\ Width(vals) \in Nat
<1>1. TypeOK /\ Arrived /\ Read
  BY DEF IInv
<1>2. /\ object \in Objects /\ vals \in Seq(Nat) /\ data \in Seq(Byte) /\ ptr \in 0 .. Len(data)
      /\ n \in Nat
  BY <1>1 DEF TypeOK
<1>3. Len(vals) \in Nat /\ Len(data) \in Nat /\ ptr \in Nat /\ ptr \leq Len(data)
  BY <1>2
<1>4. Len(vals) > 6 /\ TypeOf(vals[1]) \in TensorTypes => vals[6] \in DOMAIN ElemSize
  BY <1>1 DEF Read, ReadsTensor
<1>5. Width(vals) \in Nat
  BY <1>2, <1>4, WidthIsNat
<1> QED BY <1>1, <1>2, <1>3, <1>5

LEMMA ReadScalarHolds ==
  ASSUME IInv, ReadScalar
  PROVE  IInv'
<1> DEFINE w == Width(vals)
           b == SubSeq(data, ptr + 1, ptr + w)
<1>1. /\ stage = "read" /\ n = 0 /\ ~ UnknownElemType(vals)
      /\ w > 0 /\ ptr + w \leq Len(data) /\ Copied(b)
      /\ UNCHANGED <<object, stage, vals, data, ptr, whole>>
  BY DEF ReadScalar, Reading
<1>2. /\ TypeOK /\ Arrived /\ Read
      /\ object \in Objects /\ vals \in Seq(Nat) /\ Len(vals) \in Nat
      /\ data \in Seq(Byte) /\ Len(data) \in Nat /\ ptr \in Nat /\ ptr \leq Len(data)
      /\ w \in Nat
  BY <1>1, ReadingFacts
<1> HIDE DEF w
<1>3. b \in Seq(Byte) /\ Len(b) = w
  <2> DEFINE p == ptr + 1
             q == ptr + w
  <2>1. p \in Nat \ {0} /\ q \in Nat /\ q \leq Len(data) /\ p \leq q + 1 /\ q - p + 1 = w
    BY <1>1, <1>2
  <2> HIDE DEF p, q
  <2>2. SubSeq(data, p, q) \in Seq(Byte) /\ Len(SubSeq(data, p, q)) = w
    BY <1>2, <2>1, SliceFacts DEF Slice
  <2> QED BY <2>2 DEF p, q
<1>4. InHand' = arr'
  <2>1. n' = w /\ arr' = [k \in 0 .. (w - 1) |-> b[k + 1]]
    BY <1>1, <1>3 DEF Copied
  <2>2. InHand' = [k \in 0 .. (n' - 1) |-> SubSeq(data, ptr + 1, ptr + n')[k + 1]]
    BY <1>1 DEF InHand
  <2> QED BY <2>1, <2>2, Zenon
<1> HIDE DEF b
<1>5. /\ n' = w /\ n' \in Nat /\ i' \in 0 .. n' /\ arr' \in [0 .. (n' - 1) -> Byte]
      /\ InHand' \in [0 .. (n' - 1) -> Byte] /\ Scalar!Halfway(InHand)'
  BY <1>1, <1>3, <1>4, LoopStarts
<1>6. TypeOK'
  BY <1>1, <1>2, <1>5 DEF TypeOK
<1>7. Arrived'
  BY <1>1, <1>2, <1>5 DEF Arrived, w
<1>8. Read'
  <2>1. InStep' \/ \E m \in 1 .. Len(vals') : CutAt(m)'
    BY <1>1, <1>2, ReadKept DEF Read
  <2>2. Len(vals) > 6 \/ Len(vals) = 6 => (ReadsTensor => vals[6] \in DOMAIN ElemSize)
    BY <1>1, <1>2 DEF Read, ReadsTensor, UnknownElemType
  <2> QED BY <1>1, <2>1, <2>2 DEF Read, ReadsTensor
<1> QED BY <1>1, <1>5, <1>6, <1>7, <1>8 DEF IInv

LEMMA EndDeserializeHolds ==
  ASSUME IInv, EndDeserialize
  PROVE  IInv'
<1>1. /\ stage = "read" /\ n = 0 /\ ~ UnknownElemType(vals) /\ Width(vals) = 0
      /\ stage' = IF ptr = Len(data) THEN "accepted" ELSE "rejected"
      /\ UNCHANGED <<object, vals, data, ptr, n, arr, i, whole>>
  BY DEF EndDeserialize, Reading
<1>2. TypeOK /\ Arrived /\ Read
  BY <1>1, ReadingFacts
<1>3. TypeOK'
  BY <1>1, <1>2 DEF TypeOK
<1>4. Arrived'
  BY <1>1, <1>2 DEF Arrived
<1>5. Read'
  <2>1. InStep' \/ \E m \in 1 .. Len(vals') : CutAt(m)'
    BY <1>1, <1>2, ReadKept DEF Read
  <2> QED BY <1>1, <1>2, <2>1 DEF Read, ReadsTensor, UnknownElemType
<1> QED BY <1>1, <1>3, <1>4, <1>5 DEF IInv

LEMMA TerminateHolds ==
  ASSUME IInv, Terminate
  PROVE  IInv'
<1>1. /\ stage = "read" /\ n = 0 /\ UnknownElemType(vals) /\ stage' = "terminated"
      /\ UNCHANGED <<object, vals, data, ptr, n, arr, i, whole>>
  BY DEF Terminate
<1>2. TypeOK /\ Arrived /\ Read
  BY <1>1, ReadingFacts
<1>3. TypeOK'
  BY <1>1, <1>2 DEF TypeOK
<1>4. Arrived'
  BY <1>1, <1>2 DEF Arrived
<1>5. Read'
  <2>1. InStep' \/ \E m \in 1 .. Len(vals') : CutAt(m)'
    BY <1>1, <1>2, ReadKept DEF Read
  <2> QED BY <1>1, <1>2, <2>1 DEF Read, ReadsTensor, UnknownElemType
<1> QED BY <1>1, <1>3, <1>4, <1>5 DEF IInv

\* In step, the reader asks for the next scalar that was written.
LEMMA InStepFacts ==
  ASSUME object \in Objects, vals \in Seq(Nat), Formed(object), InStep
  PROVE  /\ Width(vals) = IF Len(vals) < Len(Sent(object)) THEN Sent(object)[Len(vals) + 1].w ELSE 0
         /\ Len(vals) \leq Len(Sent(object)) /\ Len(Sent(object)) \in Nat /\ Len(vals) \in Nat
         /\ Width(vals) > 0 => Len(vals) + 1 \in 1 .. Len(Sent(object))
<1>1. /\ Len(vals) \leq Len(Sent(object)) /\ \A k \in 1 .. Len(vals) : vals[k] = Sent(object)[k].v
  BY DEF InStep
<1>2. Width(vals) = IF Len(vals) < Len(Sent(object)) THEN Sent(object)[Len(vals) + 1].w ELSE 0
  BY <1>1, ReaderFollows
<1>3. Len(Sent(object)) \in Nat /\ Len(vals) \in Nat
  BY WireFacts
<1>4. Width(vals) > 0 => Len(vals) < Len(Sent(object))
  BY <1>2
<1> QED BY <1>1, <1>2, <1>3, <1>4

LEMMA ReadNothingHolds ==
  ASSUME IInv, ReadNothing
  PROVE  IInv'
<1> DEFINE w == Width(vals)
           x == Default(vals)
           l == Len(vals)
           s == Sent(object)
<1>1. /\ stage = "read" /\ n = 0 /\ ~ UnknownElemType(vals)
      /\ w > 0 /\ ptr + w > Len(data) /\ vals' = Append(vals, x)
      /\ UNCHANGED <<object, stage, data, ptr, n, arr, i, whole>>
  BY DEF ReadNothing, Reading
<1>2. /\ TypeOK /\ Arrived /\ Read
      /\ object \in Objects /\ vals \in Seq(Nat) /\ l \in Nat
      /\ data \in Seq(Byte) /\ Len(data) \in Nat /\ ptr \in Nat /\ ptr \leq Len(data)
      /\ w \in Nat
  BY <1>1, ReadingFacts
<1>3. x \in Nat /\ (5 \leq l /\ TypeOf(vals[1]) \in TensorTypes => x = 0)
  BY DefaultFacts
<1>4. Formed(object)
  BY <1>2 DEF Arrived
<1>5. l < 5 => w = W32
  BY <1>2, FirstWidths
<1>6. l \in {5, 6} /\ TypeOf(vals[1]) \in TensorTypes => w = W16
  BY <1>2, FirstWidths
<1> HIDE DEF w, x
<1>7. /\ vals' \in Seq(Nat) /\ Len(vals') = l + 1 /\ vals'[l + 1] = x
      /\ \A k \in 1 .. l : vals'[k] = vals[k]
  BY <1>1, <1>2, <1>3, AppendFacts
<1>8. TypeOK'
  BY <1>1, <1>2, <1>7 DEF TypeOK
<1>9. Arrived'
  BY <1>1, <1>2 DEF Arrived
<1>10. l \geq 1 => (ReadsTensor' <=> ReadsTensor)
  <2>1. l \geq 1 => 1 \in 1 .. l
    BY <1>2
  <2> QED BY <1>7, <2>1 DEF ReadsTensor
<1> HIDE DEF l, s
<1>11. ASSUME InStep PROVE \E m \in 1 .. Len(vals') : CutAt(m)'
  <2>0. PICK m \in Nat : m = l + 1
    BY <1>2
  <2>1. /\ w = IF l < Len(s) THEN s[m].w ELSE 0
        /\ m \in 1 .. Len(s) /\ Len(s) \in Nat /\ l < Len(s)
    <3>1. /\ w = IF l < Len(s) THEN s[l + 1].w ELSE 0
          /\ l \leq Len(s) /\ Len(s) \in Nat
          /\ w > 0 => l + 1 \in 1 .. Len(s)
      BY <1>2, <1>4, <1>11, InStepFacts DEF l, s, w
    <3>2. l + 1 \in 1 .. Len(s)
      BY <1>1, <3>1
    <3> QED BY <1>2, <2>0, <3>1, <3>2
  <2>2. ptr = Offset(object, l) /\ \A k \in 1 .. l : vals[k] = s[k].v
    BY <1>11 DEF InStep, l, s
  <2>3. m - 1 = l
    BY <1>2, <2>0
  <2>4. Offset(object, m) = Offset(object, l) + s[m].w /\ s[m].w = w
    <3>1. Offset(object, m) = Offset(object, m - 1) + s[m].w
      BY <1>2, <2>1, WireFacts DEF s
    <3> QED BY <2>1, <2>3, <3>1
  <2>5. Len(data) < Offset(object, m) /\ Len(data) - ptr < s[m].w
    BY <1>1, <1>2, <2>2, <2>4
  <2>6. \A k \in 1 .. (m - 1) : vals'[k] = s[k].v
    BY <1>7, <2>2, <2>3
  <2>7. m \in 1 .. Len(vals') /\ m \leq Len(s) /\ Len(vals') = m
    BY <1>2, <1>7, <2>0, <2>1
  <2>8. ReadsTensor' => /\ m > 5 => vals'[m] = 0
                        /\ m < 7 /\ Len(vals') > 5 => Len(data) - ptr < W16
                        /\ m < 7 /\ Len(vals') > 6 => vals'[7] = 0
    <3> SUFFICES ASSUME ReadsTensor'
                 PROVE  /\ m > 5 => vals'[m] = 0
                        /\ m < 7 /\ Len(vals') > 5 => Len(data) - ptr < W16
                        /\ m < 7 /\ Len(vals') > 6 => vals'[7] = 0
      OBVIOUS
    <3>1. ASSUME m > 5 PROVE vals'[m] = 0
      <4>1. 5 \leq l /\ l \geq 1
        BY <1>2, <2>0, <3>1
      <4>2. l \geq 1
        BY <4>1
      <4>3. ReadsTensor
        BY <1>10, <4>2
      <4>4. x = 0
        BY <1>3, <4>1, <4>3 DEF ReadsTensor
      <4> QED BY <1>7, <2>0, <4>4
    <3>2. ASSUME m < 7, Len(vals') > 5 PROVE Len(data) - ptr < W16
      <4>1. l = 5
        BY <1>2, <1>7, <2>0, <3>2
      <4>2. l \geq 1
        BY <4>1
      <4>3. ReadsTensor
        BY <1>10, <4>2
      <4>4. w = W16
        BY <1>6, <4>1, <4>3 DEF ReadsTensor
      <4> QED BY <2>4, <2>5, <4>4
    <3>3. ~ (m < 7 /\ Len(vals') > 6)
      BY <1>2, <1>7, <2>0
    <3> QED BY <3>1, <3>2, <3>3
  <2>9. CutAt(m)'
    BY <1>1, <2>5, <2>6, <2>7, <2>8 DEF CutAt, s
  <2> QED BY <2>7, <2>9
<1>12. ASSUME ~ InStep PROVE \E m \in 1 .. Len(vals') : CutAt(m)'
  <2>1. PICK m \in 1 .. l : CutAt(m)
    BY <1>2, <1>12 DEF Read, l
  <2>2. /\ m \in 1 .. l /\ m \leq Len(s)
        /\ \A k \in 1 .. (m - 1) : vals[k] = s[k].v
        /\ Len(data) < Offset(object, m)
        /\ Len(data) - ptr < s[m].w
        /\ ReadsTensor => /\ m > 5 => vals[m] = 0
                          /\ m < 7 /\ l > 5 => Len(data) - ptr < W16
                          /\ m < 7 /\ l > 6 => vals[7] = 0
    BY <2>1 DEF CutAt, l, s
  <2>3. m \in 1 .. Len(vals') /\ vals'[m] = vals[m] /\ l \geq 1
    BY <1>2, <1>7, <2>2
  <2>4. \A k \in 1 .. (m - 1) : vals'[k] = s[k].v
    <3>1. \A k \in 1 .. (m - 1) : k \in 1 .. l
      BY <1>2, <2>2
    <3> QED BY <1>7, <2>2, <3>1
  <2>5. ReadsTensor' => /\ m > 5 => vals'[m] = 0
                        /\ m < 7 /\ Len(vals') > 5 => Len(data) - ptr < W16
                        /\ m < 7 /\ Len(vals') > 6 => vals'[7] = 0
    <3> SUFFICES ASSUME ReadsTensor'
                 PROVE  /\ m > 5 => vals'[m] = 0
                        /\ m < 7 /\ Len(vals') > 5 => Len(data) - ptr < W16
                        /\ m < 7 /\ Len(vals') > 6 => vals'[7] = 0
      OBVIOUS
    <3>0. ReadsTensor
      BY <1>10, <2>3
    <3>1. m > 5 => vals'[m] = 0
      BY <2>2, <2>3, <3>0
    <3>2. ASSUME m < 7, Len(vals') > 5 PROVE Len(data) - ptr < W16
      <4>1. CASE l = 5
        <5>1. w = W16
          BY <1>6, <3>0, <4>1 DEF ReadsTensor
        <5> QED BY <1>1, <1>2, <5>1
      <4>2. CASE l > 5
        BY <2>2, <3>0, <3>2, <4>2
      <4> QED BY <1>2, <1>7, <3>2, <4>1, <4>2
    <3>3. ASSUME m < 7, Len(vals') > 6 PROVE vals'[7] = 0
      <4>1. CASE l = 6
        <5>1. x = 0
          BY <1>3, <3>0, <4>1 DEF ReadsTensor
        <5> QED BY <1>7, <4>1, <5>1
      <4>2. CASE l > 6
        <5>1. 7 \in 1 .. l
          BY <1>2, <4>2
        <5> QED BY <1>7, <2>2, <3>0, <3>3, <4>2, <5>1
      <4> QED BY <1>2, <1>7, <3>3, <4>1, <4>2
    <3> QED BY <3>1, <3>2, <3>3
  <2>6. CutAt(m)'
    BY <1>1, <2>2, <2>3, <2>4, <2>5 DEF CutAt, s
  <2> QED BY <2>3, <2>6
<1>13. Len(vals') > 6 => (ReadsTensor' => vals'[6] \in DOMAIN ElemSize)
  <2> SUFFICES ASSUME Len(vals') > 6, ReadsTensor' PROVE vals'[6] \in DOMAIN ElemSize
    OBVIOUS
  <2>1. l \geq 6 /\ l \geq 1 /\ 6 \in 1 .. l
    BY <1>2, <1>7
  <2>2. ReadsTensor /\ vals'[6] = vals[6]
    BY <1>7, <1>10, <2>1
  <2>3. l = 6 => vals[6] \in DOMAIN ElemSize
    BY <1>1, <2>2 DEF UnknownElemType, ReadsTensor, l
  <2>4. l > 6 => vals[6] \in DOMAIN ElemSize
    BY <1>2, <2>2 DEF Read, l
  <2> QED BY <1>2, <2>1, <2>2, <2>3, <2>4
<1>14. Read'
  <2>1. InStep' \/ \E m \in 1 .. Len(vals') : CutAt(m)'
    BY <1>11, <1>12
  <2>2. n' = 0 /\ stage' = "read"
    BY <1>1
  <2> QED BY <1>13, <2>1, <2>2 DEF Read
<1>15. stage' = "read" /\ n' = 0
  BY <1>1
<1> QED BY <1>8, <1>9, <1>14, <1>15 DEF IInv

LEMMA EndReadHolds ==
  ASSUME IInv, EndRead
  PROVE  IInv'
<1> DEFINE w == Width(vals)
           l == Len(vals)
           s == Sent(object)
           b == SubSeq(data, ptr + 1, ptr + n)
           x == Value(b)
<1>1. /\ stage = "read" /\ n > 0 /\ i = n
      /\ vals' = Append(vals, Value(Looped)) /\ ptr' = ptr + n /\ n' = 0
      /\ UNCHANGED <<object, stage, data, arr, i, whole>>
  BY DEF EndRead
<1>2. /\ TypeOK /\ Arrived /\ Read
      /\ object \in Objects /\ vals \in Seq(Nat) /\ l \in Nat
      /\ data \in Seq(Byte) /\ Len(data) \in Nat /\ ptr \in Nat /\ ptr \leq Len(data)
      /\ n \in Nat
  BY <1>1, ReadingFacts
<1>3. Formed(object) /\ n = w /\ ptr + n \leq Len(data)
  BY <1>1, <1>2 DEF Arrived
<1>4. /\ b \in Seq(Byte) /\ Len(b) = n /\ \A k \in 1 .. n : b[k] = data[ptr + k]
  <2> DEFINE p == ptr + 1
             q == ptr + n
  <2>1. /\ p \in Nat \ {0} /\ q \in Nat /\ q \leq Len(data) /\ p \leq q + 1 /\ q - p + 1 = n
        /\ p - 1 = ptr
    BY <1>2, <1>3
  <2>2. b = SubSeq(data, p, q)
    OBVIOUS
  <2> HIDE DEF p, q, b
  <2>3. b \in Seq(Byte) /\ Slice(b, data, p, q)
    BY <1>2, <2>1, <2>2, SliceFacts
  <2> QED BY <2>1, <2>3, Zenon DEF Slice
<1>5. Looped = b
  <2>1. InHand = [k \in 0 .. (n - 1) |-> b[k + 1]]
    BY <1>1 DEF InHand
  <2>2. /\ arr \in [0 .. (n - 1) -> Byte] /\ InHand \in [0 .. (n - 1) -> Byte]
        /\ Scalar!Halfway(InHand)
    BY <1>1, <1>2 DEF IInv, TypeOK
  <2> HIDE DEF b
  <2> QED BY <1>1, <1>2, <1>4, <2>1, <2>2, LoopEnds
<1> HIDE DEF b
<1>6. x \in Nat
  <2>1. b \in Seq(Nat)
    BY <1>4, SizeFacts, SeqMonotonic DEF Byte
  <2>2. Value(b) = PartValue(b, Len(b)) /\ Len(b) \in 0 .. Len(b)
    BY <2>1, ValueFacts
  <2> QED BY <2>1, <2>2, ValueFacts
<1>7. l < 5 => w = W32
  BY <1>2, FirstWidths
<1>8. l \in {5, 6} /\ TypeOf(vals[1]) \in TensorTypes => w = W16
  BY <1>2, FirstWidths
<1>9. vals' = Append(vals, x)
  BY <1>1, <1>5
<1> HIDE DEF x, w
<1>10. /\ vals' \in Seq(Nat) /\ Len(vals') = l + 1 /\ vals'[l + 1] = x
       /\ \A k \in 1 .. l : vals'[k] = vals[k]
  BY <1>2, <1>6, <1>9, AppendFacts
<1>11. TypeOK'
  <2>1. ptr' \in 0 .. Len(data')
    BY <1>1, <1>2, <1>3
  <2> QED BY <1>1, <1>2, <1>10, <2>1 DEF TypeOK
<1>12. Arrived'
  BY <1>1, <1>2 DEF Arrived
<1>13. l \geq 1 => (ReadsTensor' <=> ReadsTensor)
  <2>1. l \geq 1 => 1 \in 1 .. l
    BY <1>2
  <2> QED BY <1>10, <2>1 DEF ReadsTensor
<1> HIDE DEF l, s
<1>14. ASSUME InStep PROVE InStep'
  <2>0. PICK m \in Nat : m = l + 1
    BY <1>2
  <2>1. /\ w = IF l < Len(s) THEN s[l + 1].w ELSE 0
        /\ l \leq Len(s) /\ Len(s) \in Nat
        /\ w > 0 => l + 1 \in 1 .. Len(s)
    BY <1>2, <1>3, <1>14, InStepFacts DEF l, s, w
  <2>2. m \in 1 .. Len(s) /\ l < Len(s) /\ s[m].w = n /\ m - 1 = l
    BY <1>1, <1>2, <1>3, <2>0, <2>1
  <2>3. ptr = Offset(object, l) /\ \A k \in 1 .. l : vals[k] = s[k].v
    BY <1>14 DEF InStep, l, s
  <2>4. /\ s[m] \in Field /\ Offset(object, m) = Offset(object, m - 1) + s[m].w
        /\ Offset(object, m) \leq Len(Wire(object))
        /\ \A k \in 1 .. s[m].w :
             Wire(object)[Offset(object, m - 1) + k] = BytesOf(s[m].v, s[m].w)[k]
    BY <1>2, <2>2, WireFacts DEF s
  <2> DEFINE c == BytesOf(s[m].v, s[m].w)
  <2>5. c \in Seq(Byte) /\ Len(c) = n /\ Value(c) = s[m].v
    BY <2>2, <2>4, FieldFacts
  <2>6. ASSUME NEW k \in 1 .. n PROVE b[k] = c[k]
    <3>1. ptr + k \in 1 .. Len(data)
      BY <1>2, <1>3
    <3>2. data[ptr + k] = Wire(object)[ptr + k]
      BY <1>2, <3>1 DEF Arrived
    <3>3. Wire(object)[ptr + k] = c[k]
      BY <2>2, <2>3, <2>4
    <3> QED BY <1>4, <3>2, <3>3
  <2> HIDE DEF c
  <2>7. b = c
    BY <1>2, <1>4, <2>5, <2>6
  <2>8. x = s[m].v
    BY <2>5, <2>7 DEF x
  <2>9. ASSUME NEW k \in 1 .. Len(vals') PROVE vals'[k] = s[k].v
    <3>1. k \in 1 .. l \/ k = m
      BY <1>2, <1>10, <2>0
    <3> QED BY <1>10, <2>0, <2>3, <2>8, <3>1
  <2>10. ptr' = Offset(object, m) /\ Len(vals') = m /\ m \leq Len(s)
    BY <1>1, <1>10, <2>0, <2>2, <2>3, <2>4
  <2> QED BY <1>1, <2>9, <2>10 DEF InStep, s
<1>15. ASSUME ~ InStep PROVE \E m \in 1 .. Len(vals') : CutAt(m)'
  <2>1. PICK m \in 1 .. l : CutAt(m)
    BY <1>2, <1>15 DEF Read, l
  <2>2. /\ m \in 1 .. l /\ m \leq Len(s)
        /\ \A k \in 1 .. (m - 1) : vals[k] = s[k].v
        /\ Len(data) < Offset(object, m)
        /\ Len(data) - ptr < s[m].w
        /\ ReadsTensor => /\ m > 5 => vals[m] = 0
                          /\ m < 7 /\ l > 5 => Len(data) - ptr < W16
                          /\ m < 7 /\ l > 6 => vals[7] = 0
    BY <2>1 DEF CutAt, l, s
  <2>3. m \in 1 .. Len(vals') /\ vals'[m] = vals[m] /\ l \geq 1
    BY <1>2, <1>10, <2>2
  <2>4. \A k \in 1 .. (m - 1) : vals'[k] = s[k].v
    <3>1. \A k \in 1 .. (m - 1) : k \in 1 .. l
      BY <1>2, <2>2
    <3> QED BY <1>10, <2>2, <3>1
  <2>5. Len(data) - ptr' < s[m].w
    <3>1. s[m].w \in Nat
      <4>1. m \in 1 .. Len(s)
        BY <2>2, <1>2, WireFacts DEF s
      <4>2. s[m] \in Field
        BY <1>2, <4>1, WireFacts DEF s
      <4> QED BY <4>2, FieldFacts
    <3> QED BY <1>1, <1>2, <2>2, <3>1
  <2>6. ReadsTensor' => /\ m > 5 => vals'[m] = 0
                        /\ m < 7 /\ Len(vals') > 5 => Len(data) - ptr' < W16
                        /\ m < 7 /\ Len(vals') > 6 => vals'[7] = 0
    <3> SUFFICES ASSUME ReadsTensor'
                 PROVE  /\ m > 5 => vals'[m] = 0
                        /\ m < 7 /\ Len(vals') > 5 => Len(data) - ptr' < W16
                        /\ m < 7 /\ Len(vals') > 6 => vals'[7] = 0
      OBVIOUS
    <3>0. ReadsTensor /\ W16 \in Nat /\ W32 \in Nat /\ W32 \leq 2 * W16
      BY <1>13, <2>3, SizeFacts
    <3>1. m > 5 => vals'[m] = 0
      BY <2>2, <2>3, <3>0
    <3>2. ASSUME m < 7, Len(vals') > 5 PROVE Len(data) - ptr' < W16
      <4>1. CASE l = 5
        <5>1. n = W16
          BY <1>3, <1>8, <3>0, <4>1 DEF ReadsTensor
        <5>2. s[m].w = W32
          <6>1. m \in 1 .. 5
            BY <2>2, <4>1
          <6> QED BY <1>2, <6>1, SentFacts DEF s
        <5> QED BY <1>1, <1>2, <2>2, <3>0, <5>1, <5>2
      <4>2. CASE l > 5
        <5>1. Len(data) - ptr < W16
          BY <2>2, <3>0, <3>2, <4>2
        <5> QED BY <1>1, <1>2, <3>0, <5>1
      <4> QED BY <1>2, <1>10, <3>2, <4>1, <4>2
    <3>3. ASSUME m < 7, Len(vals') > 6 PROVE vals'[7] = 0
      <4>1. CASE l = 6
        <5>1. n = W16
          BY <1>3, <1>8, <3>0, <4>1 DEF ReadsTensor
        <5>2. Len(data) - ptr < W16
          BY <2>2, <3>0, <3>3, <4>1
        <5> QED BY <1>2, <1>3, <3>0, <5>1, <5>2
      <4>2. CASE l > 6
        <5>1. 7 \in 1 .. l
          BY <1>2, <4>2
        <5> QED BY <1>10, <2>2, <3>0, <3>3, <4>2, <5>1
      <4> QED BY <1>2, <1>10, <3>3, <4>1, <4>2
    <3> QED BY <3>1, <3>2, <3>3
  <2>7. CutAt(m)'
    BY <1>1, <2>2, <2>3, <2>4, <2>5, <2>6 DEF CutAt, s
  <2> QED BY <2>3, <2>7
<1>16. Len(vals') > 6 => (ReadsTensor' => vals'[6] \in DOMAIN ElemSize)
  <2> SUFFICES ASSUME Len(vals') > 6, ReadsTensor' PROVE vals'[6] \in DOMAIN ElemSize
    OBVIOUS
  <2>1. l \geq 6 /\ l \geq 1 /\ 6 \in 1 .. l
    BY <1>2, <1>10
  <2>2. ReadsTensor /\ vals'[6] = vals[6]
    BY <1>10, <1>13, <2>1
  <2>3. l = 6 \/ l > 6
    BY <1>2, <2>1
  <2>4. vals[6] \in DOMAIN ElemSize
    BY <1>1, <1>2, <2>2, <2>3 DEF Read, l
  <2> QED BY <2>2, <2>4
<1>17. Read'
  <2>1. InStep' \/ \E m \in 1 .. Len(vals') : CutAt(m)'
    BY <1>14, <1>15
  <2>2. n' = 0 /\ stage' = "read"
    BY <1>1
  <2> QED BY <1>16, <2>1, <2>2 DEF Read
<1>18. stage' = "read" /\ n' = 0
  BY <1>1
<1> QED BY <1>11, <1>12, <1>17, <1>18 DEF IInv

LEMMA StutterHolds ==
  ASSUME IInv, UNCHANGED vars
  PROVE  IInv'
<1>1. UNCHANGED <<object, stage, vals, data, ptr, n, arr, i, whole>>
  BY DEF vars
<1>2. TypeOK'
  BY <1>1 DEF IInv, TypeOK
<1>3. stage = "write" => Writing'
  BY <1>1 DEF IInv, Writing
<1>4. stage \in {"read", "accepted", "rejected", "terminated"} => Arrived'
  BY <1>1 DEF IInv, Arrived
<1>5. stage \in {"read", "accepted", "rejected", "terminated"} => Read'
  <2> SUFFICES ASSUME stage \in {"read", "accepted", "rejected", "terminated"} PROVE Read'
    OBVIOUS
  <2>1. Read
    BY DEF IInv
  <2>2. InStep' \/ \E m \in 1 .. Len(vals') : CutAt(m)'
    BY <1>1, <2>1, ReadKept DEF Read
  <2> QED BY <1>1, <2>1, <2>2 DEF Read, ReadsTensor, UnknownElemType
<1>6. InHand' = InHand
  BY <1>1 DEF InHand
<1>7. n > 0 => Scalar!Halfway(InHand)'
  BY <1>1, <1>6 DEF IInv, Scalar!Halfway, Scalar!Moved, Scalar!Index, Scalar!Mirror
<1> QED BY <1>1, <1>2, <1>3, <1>4, <1>5, <1>6, <1>7 DEF IInv

LEMMA Inductive == Spec => []IInv
<1>1. Init => IInv
  BY InitHolds
<1>2. IInv /\ [Next]_vars => IInv'
  <2> SUFFICES ASSUME IInv, [Next]_vars PROVE IInv'
    OBVIOUS
  <2>1. CASE Throw
    BY <2>1, ThrowHolds
  <2>2. CASE WriteScalar
    BY <2>2, WriteScalarHolds
  <2>3. CASE Swap
    BY <2>3, SwapHolds
  <2>4. CASE EndWrite
    BY <2>4, EndWriteHolds
  <2>5. CASE Transmit
    BY <2>5, TransmitHolds
  <2>6. CASE ReadScalar
    BY <2>6, ReadScalarHolds
  <2>7. CASE ReadNothing
    BY <2>7, ReadNothingHolds
  <2>8. CASE EndRead
    BY <2>8, EndReadHolds
  <2>9. CASE EndDeserialize
    BY <2>9, EndDeserializeHolds
  <2>10. CASE Terminate
    BY <2>10, TerminateHolds
  <2>11. CASE UNCHANGED vars
    BY <2>11, StutterHolds
  <2> QED BY <2>1, <2>2, <2>3, <2>4, <2>5, <2>6, <2>7, <2>8, <2>9, <2>10, <2>11 DEF Next
<1> QED BY <1>1, <1>2, PTL DEF Spec

-----------------------------------------------------------------------------
(* What follows.                                                           *)

\* The scalars, the bytes and the loop's index are what the code declares them to
\* be, and deserializePtr stays within the buffer.
THEOREM CodecTypeCorrect == Spec => []TypeOK
<1>1. IInv => TypeOK
  BY DEF IInv
<1> QED BY <1>1, Inductive, PTL

\* The number of elements is the product of the shape that is sent.
LEMMA ElementsFacts ==
  ASSUME NEW o \in Objects, o.type \in TensorTypes, Formed(o)
  PROVE  Product(Narrowed(o)) = Len(o.elems) /\ Product(o.dims) = Len(o.elems)
<1> DEFINE p == Product(Narrowed(o))
           z == Size(o)
           c == Len(o.elems)
<1>1. p * z = c * z /\ z \in Nat \ {0} /\ c \in Nat
  BY FormedFacts, DataFacts
<1>2. p \in Nat
  <2>1. Narrowed(o) \in Seq(Nat)
    BY NarrowedFacts
  <2>2. Product(Narrowed(o)) = PartProduct(Narrowed(o), Len(Narrowed(o)))
        /\ Len(Narrowed(o)) \in 0 .. Len(Narrowed(o))
    BY <2>1, ProductFacts
  <2> QED BY <2>1, <2>2, ProductFacts
<1> HIDE DEF p, z, c
<1>3. p = c
  <2> DEFINE v == c * z
  <2>1. v \in Nat /\ 0 \in 0 .. (z - 1) /\ v = z * p + 0 /\ v = z * c + 0
    BY <1>1, <1>2
  <2> HIDE DEF v
  <2>2. v \div z = p /\ v \div z = c
    BY <1>1, <1>2, <2>1, DivisionUnique
  <2> QED BY <2>2
<1> QED BY <1>3, ObjectsAssumption DEF p, c

\* Where there are elements, no dimension was cut to 32 bits.
LEMMA ShapeFits ==
  ASSUME NEW o \in Objects, o.type \in TensorTypes, Formed(o), Len(o.elems) > 0
  PROVE  (\A k \in 1 .. Len(o.dims) : o.dims[k] < Power[W32]) /\ Narrowed(o) = o.dims
<1> DEFINE s == o.dims
           t == Narrowed(o)
           p == Power[W32]
<1>1. /\ t \in Seq(Nat) /\ Len(t) = Len(s) /\ Len(s) \in Nat
      /\ \A k \in 1 .. Len(s) :
           s[k] \in Nat /\ t[k] = s[k] % p /\ t[k] \in Nat /\ t[k] < p
  BY NarrowedFacts
<1>2. s \in Seq(Nat) /\ p \in Nat \ {0}
  BY ObjectsAssumption, SizeFacts, PowerFacts
<1>3. Product(t) = Product(s) /\ Product(s) > 0 /\ Product(s) \in Nat
  <2>1. Len(o.elems) \in Nat
    BY DataFacts
  <2> QED BY <2>1, ElementsFacts
<1> HIDE DEF s, t, p
<1>4. ASSUME NEW k \in 1 .. Len(s) PROVE t[k] \leq s[k] /\ 0 < s[k] /\ (s[k] < p => t[k] = s[k])
  <2> DEFINE x == s[k]
  <2>1. x \in Nat /\ t[k] = x % p
    BY <1>1
  <2> HIDE DEF x
  <2>2. x % p \leq x /\ (x < p => x % p = x)
    <3>1. /\ x \div p \in Nat /\ x % p \in 0 .. (p - 1)
          /\ x = p * (x \div p) + (x % p)
      BY <1>2, <2>1, Division
    <3> DEFINE q == x \div p
               r == x % p
               a == p * q
    <3>2. q \in Nat /\ r \in 0 .. (p - 1) /\ x = a + r
      BY <3>1
    <3> HIDE DEF q
    <3>3. a \in Nat
      BY <1>2, <3>2
    <3> HIDE DEF a, r
    <3>4. r \leq x
      BY <2>1, <3>2, <3>3
    <3> QED BY <1>2, <2>1, <3>4, ModuloLess DEF r
  <2>3. x # 0
    <3> SUFFICES ASSUME x = 0 PROVE FALSE
      OBVIOUS
    <3>1. Product(s) = 0
      BY <1>2, ZeroProduct DEF x
    <3> QED BY <1>3, <3>1
  <2> QED BY <2>1, <2>2, <2>3 DEF x
<1>5. ASSUME NEW j \in 1 .. Len(s) PROVE s[j] < p
  <2> SUFFICES ASSUME ~ (s[j] < p) PROVE FALSE
    OBVIOUS
  <2>1. t[j] < s[j]
    BY <1>1, <1>2
  <2>2. Product(t) < Product(s)
    BY <1>1, <1>2, <1>4, <2>1, SmallerProduct
  <2> QED BY <1>3, <2>2
<1>6. t = s
  <2>1. \A k \in 1 .. Len(s) : t[k] = s[k]
    BY <1>4, <1>5
  <2> QED BY <1>1, <1>2, <2>1
<1> QED BY <1>5, <1>6 DEF s, t, p

\* SetTensor narrows each dimension to 32 bits, and the check of the number of
\* elements finds it: however large the shape, it is not sent in another.
THEOREM NarrowedShapesAreNotSent == Spec => []NarrowedIsNotSent
<1>1. IInv => NarrowedIsNotSent
  <2> SUFFICES ASSUME IInv, stage # "write", object.type \in TensorTypes, object.elems # <<>>,
                      stage # "thrown"
               PROVE  \A k \in DOMAIN object.dims : object.dims[k] < Power[W32]
    BY DEF NarrowedIsNotSent
  <2>1. object \in Objects /\ Formed(object)
    BY DEF IInv, TypeOK, Arrived
  <2>2. Len(object.elems) > 0
    <3>1. object.elems \in Seq(0 .. (Power[ElemSize[object.elemType]] - 1))
      BY <2>1, ObjectsAssumption
    <3> DEFINE E == 0 .. (Power[ElemSize[object.elemType]] - 1)
               c == object.elems
    <3>2. c \in Seq(E) /\ c # <<>>
      BY <3>1
    <3> HIDE DEF E, c
    <3>3. Len(c) > 0
      BY <3>2
    <3> QED BY <3>3 DEF c
  <2>3. \A k \in 1 .. Len(object.dims) : object.dims[k] < Power[W32]
    BY <2>1, <2>2, ShapeFits
  <2>4. DOMAIN object.dims = 1 .. Len(object.dims)
    <3>1. object.dims \in Seq(Nat)
      BY <2>1, ObjectsAssumption
    <3> QED BY <3>1
  <2> QED BY <2>3, <2>4
<1> QED BY <1>1, Inductive, PTL

\* Nothing is reversed on the way: each scalar is on the wire in the order of its
\* bytes in memory, and the type's number is in front.
THEOREM WireHoldsNativeBytes == Spec => []WireIsNative
<1>1. IInv => WireIsNative
  <2> DEFINE s == Sent(object)
  <2> SUFFICES ASSUME IInv, stage = "read", whole
               PROVE  data = Concat([k \in DOMAIN s |-> BytesOf(s[k].v, s[k].w)])
    BY DEF WireIsNative
  <2>1. object \in Objects /\ Arrived /\ data \in Seq(Byte)
    BY DEF IInv, TypeOK
  <2>2. data = Wire(object)
    <3>1. Wire(object) \in Seq(Byte)
      BY <2>1, WireFacts
    <3> DEFINE w == Wire(object)
    <3>2. Len(data) = Len(w) /\ \A k \in 1 .. Len(data) : data[k] = w[k]
      BY <2>1 DEF Arrived
    <3> HIDE DEF w
    <3>3. w \in Seq(Byte)
      BY <3>1 DEF w
    <3>4. data = w
      BY <2>1, <3>2, <3>3
    <3> QED BY <3>4 DEF w
  <2>3. Wire(object) = Concat([k \in DOMAIN s |-> BytesOf(s[k].v, s[k].w)])
    BY DEF Wire, Chunks
  <2> QED BY <2>2, <2>3
<1> QED BY <1>1, Inductive, PTL

\* Bytes that arrive whole are all read, and each scalar is the one written.
LEMMA WholeFacts ==
  ASSUME IInv, whole, Ended
  PROVE  /\ stage = "accepted" /\ object \in Objects /\ vals \in Seq(Nat) /\ Formed(object)
         /\ Len(vals) = Len(Sent(object)) /\ Len(vals) \in Nat
         /\ \A k \in 1 .. Len(vals) : vals[k] = Sent(object)[k].v
<1> DEFINE o == object
           s == Sent(o)
           t == TypeNumber[o.type]
<1>1. o \in Objects /\ vals \in Seq(Nat) /\ data \in Seq(Byte) /\ Arrived /\ Read
  BY DEF IInv, Ended, TypeOK
<1>2. Formed(o) /\ Len(data) = Len(Wire(o))
  BY <1>1 DEF Arrived
<1>3. InStep
  <2> SUFFICES ASSUME NEW m \in 1 .. Len(vals), CutAt(m) PROVE FALSE
    BY <1>1 DEF Read
  <2>1. m \in 1 .. Len(vals) /\ m \leq Len(s) /\ Len(data) < Offset(o, m)
    BY DEF CutAt
  <2>2. Len(s) \in Nat /\ Len(Wire(o)) \in Nat
    BY <1>1, WireFacts
  <2>3. m \in 1 .. Len(s)
    BY <2>1, <2>2
  <2>4. Offset(o, m) \leq Len(Wire(o)) /\ Offset(o, m - 1) \in Nat
        /\ Offset(o, m) = Offset(o, m - 1) + s[m].w /\ s[m] \in Field
    BY <1>1, <2>3, WireFacts
  <2>5. s[m].w \in Nat
    BY <2>4 DEF Field
  <2> DEFINE x == Offset(o, m)
             y == Len(Wire(o))
  <2>6. x \in Nat /\ x \leq y /\ y < x
    BY <1>2, <2>1, <2>4, <2>5
  <2> HIDE DEF x, y
  <2> QED BY <2>2, <2>6 DEF y
<1>4. /\ Len(vals) \leq Len(s) /\ ptr = Offset(o, Len(vals))
      /\ \A k \in 1 .. Len(vals) : vals[k] = s[k].v
  BY <1>3 DEF InStep
<1>5. ~ UnknownElemType(vals)
  <2> SUFFICES ASSUME UnknownElemType(vals) PROVE FALSE
    OBVIOUS
  <2>1. Len(vals) = 6 /\ TypeOf(vals[1]) \in TensorTypes /\ vals[6] \notin DOMAIN ElemSize
    BY DEF UnknownElemType
  <2>2. vals[1] = s[1].v /\ vals[6] = s[6].v
    BY <1>4, <2>1
  <2>3. s[1].v = t /\ o.type \in DOMAIN TypeNumber
    BY <1>1, SentFacts, ObjectsAssumption
  <2>4. o.type \in TensorTypes
    BY <2>1, <2>2, <2>3, TypeOfNumber
  <2>5. /\ Middle(o) = Tensor(o) /\ Len(Tensor(o)) \in Nat /\ 1 \leq Len(Tensor(o))
        /\ Tensor(o)[1].v = o.elemType
    <3>1. Middle(o) = Tensor(o)
      BY <1>1, <2>4, MiddleFacts
    <3>2. /\ Len(o.dims) \in Nat /\ Len(Data(o)) \in Nat
          /\ Len(Tensor(o)) = 2 + Len(o.dims) + Len(Data(o)) /\ Tensor(o)[1].v = o.elemType
      BY <1>1, <2>4, TensorFacts
    <3> QED BY <3>1, <3>2
  <2>6. s[5 + 1] = Middle(o)[1]
    <3>1. 1 \in 1 .. Len(Middle(o))
      BY <2>5
    <3> QED BY <1>1, <3>1, SentFacts
  <2>7. o.elemType \in DOMAIN ElemSize
    BY <1>1, <2>4, ObjectsAssumption
  <2> QED BY <2>1, <2>2, <2>5, <2>6, <2>7
<1>6. stage \in {"accepted", "rejected"} /\ Width(vals) = 0
  BY <1>1, <1>5 DEF Ended, Read
<1>7. Len(vals) = Len(s) /\ Len(vals) \in Nat
  <2>1. /\ Width(vals) = IF Len(vals) < Len(s) THEN s[Len(vals) + 1].w ELSE 0
        /\ Len(s) \in Nat /\ Len(vals) \in Nat
    BY <1>1, <1>2, <1>3, InStepFacts
  <2>2. ASSUME Len(vals) < Len(s) PROVE FALSE
    <3>1. Len(vals) + 1 \in 1 .. Len(s)
      BY <2>1, <2>2
    <3>2. s[Len(vals) + 1] \in Field
      BY <1>1, <3>1, WireFacts
    <3>3. s[Len(vals) + 1].w \in Nat \ {0}
      BY <3>2 DEF Field
    <3> QED BY <1>6, <2>1, <2>2, <3>3
  <2> QED BY <1>4, <2>1, <2>2
<1>8. ptr = Len(data)
  BY <1>1, <1>2, <1>4, <1>7, WireFacts
<1>9. stage = "accepted"
  BY <1>1, <1>6, <1>8 DEF Read
<1> QED BY <1>1, <1>2, <1>4, <1>7, <1>9

\* The reader does not end within a tensor: the shape is there, and the elements.
LEMMA CompleteTensor ==
  ASSUME NEW v \in Seq(Nat), Width(v) = 0, TypeOf(v[1]) \in TensorTypes
  PROVE  /\ 7 \leq Len(v) /\ 2 + Body(v)[2] \leq Len(Body(v))
         /\ ~ (Len(Body(v)) < TensorLength(Body(v)))
<1> DEFINE b == Body(v)
           l == Len(v)
           type == TypeOf(v[1])
<1>1. W16 \in Nat \ {0} /\ W32 \in Nat \ {0} /\ l \in Nat
  BY SizeFacts
<1>2. ~ (l < 5) /\ l \notin {5, 6}
  <2>1. (l < 5 => Width(v) = W32) /\ (l \in {5, 6} => Width(v) = W16)
    BY FirstWidths
  <2> QED BY <1>1, <2>1
<1>3. 7 \leq l
  <2> HIDE DEF l
  <2> QED BY <1>1, <1>2
<1>4. b \in Seq(Nat) /\ Len(b) = l - 5 /\ \A k \in 1 .. (l - 5) : b[k] = v[5 + k]
  BY <1>3, BodyFacts
<1>5. BodyWidth(type, b) = 0
  BY <1>2 DEF Width
<1>6. ~ (TensorWidth(b) > 0)
  <2> SUFFICES ASSUME TensorWidth(b) > 0 PROVE FALSE
    OBVIOUS
  <2>1. type \in TensorTypes /\ type # "UpdateFunction"
    BY DEF TensorTypes
  <2> HIDE DEF b, type
  <2>2. BodyWidth(type, b) = TensorWidth(b)
    BY <2>1 DEF BodyWidth
  <2> QED BY <1>5, <2>2
<1> HIDE DEF b, l, type
<1>7. ~ (Len(b) < 2) /\ Len(b) \in Nat
  BY <1>1, <1>3, <1>4
<1>8. b[2] \in Nat
  BY <1>4, <1>7
<1>9. ~ (Len(b) < 2 + b[2])
  BY <1>1, <1>6, <1>7 DEF TensorWidth
<1>10. ~ (Len(b) < TensorLength(b))
  BY <1>6, <1>7, <1>9 DEF TensorWidth
<1>11. 2 + b[2] \leq Len(b)
  BY <1>7, <1>8, <1>9
<1> QED BY <1>3, <1>10, <1>11 DEF b, l

\* The characters of the tensor in a body.
Chars(b) == SubSeq(b, 3 + b[2], TensorLength(b))

\* If its shape has arrived, the handler's tensor has this shape, and the elements
\* that the sender's had.
LEMMA ShapeArrived ==
  ASSUME object \in Objects, Formed(object), object.type \in TensorTypes, vals \in Seq(Nat),
         Width(vals) = 0, TypeOf(vals[1]) \in TensorTypes,
         7 + Len(object.dims) \leq Len(vals),
         \A k \in 6 .. (7 + Len(object.dims)) : vals[k] = Sent(object)[k].v
  PROVE  LET b == Body(vals)
             c == Chars(b)
             size == Size(object)
         IN /\ Len(b) \in Nat /\ b[1] = object.elemType /\ b[2] = Len(object.dims)
            /\ GetTensor(b).dims = Narrowed(object)
            /\ TensorLength(b) = Len(Tensor(object)) /\ Len(Tensor(object)) \leq Len(b)
            /\ c \in Seq(Nat) /\ Len(c) = Len(object.elems) * size
            /\ \A k \in 1 .. Len(c) : c[k] = b[2 + Len(object.dims) + k]
            /\ GetTensor(b).elems =
                 [k \in 1 .. Len(object.elems) |->
                    Value(ToBigEndian(SubSeq(c, (k - 1) * size + 1, k * size)))]
            /\ Len(GetTensor(b).elems) = Len(object.elems)
<1> DEFINE o == object
           b == Body(vals)
           c == Chars(b)
           r == Len(o.dims)
           z == Len(Data(o))
           t == Tensor(o)
           size == Size(o)
           e == Len(o.elems)
<1>1. /\ r \in Nat /\ z \in Nat /\ t \in Seq(Field) /\ Len(t) = 2 + r + z
  BY TensorFacts
<1>2. z = e * size /\ size \in Nat \ {0} /\ e \in Nat
  BY DataFacts
<1>3. /\ ~ (Len(b) < TensorLength(b))
  BY CompleteTensor
<1>4. /\ b \in Seq(Nat) /\ Len(b) = Len(vals) - 5 /\ Len(vals) \in Nat
      /\ \A k \in 1 .. (Len(vals) - 5) : b[k] = vals[5 + k]
  <2>1. 5 \leq Len(vals)
    <3> DEFINE l == Len(vals)
    <3>1. l \in Nat /\ 7 + r \leq l
      OBVIOUS
    <3> HIDE DEF l, r
    <3> QED BY <1>1, <3>1 DEF l
  <2> QED BY <2>1, BodyFacts
<1>5. 2 + r \leq Len(b) /\ Len(b) \in Nat
  <2> DEFINE l == Len(vals)
  <2>1. l \in Nat /\ 7 + r \leq l /\ Len(b) = l - 5
    BY <1>4
  <2> HIDE DEF l, r, b
  <2> QED BY <1>1, <2>1
<1>6. ASSUME NEW k \in 1 .. (2 + r) PROVE b[k] = t[k].v
  <2>1. k \in 1 .. (Len(vals) - 5) /\ 5 + k \in 6 .. (7 + r)
    <3> DEFINE l == Len(vals)
    <3>1. l \in Nat /\ 7 + r \leq l
      BY <1>4
    <3> HIDE DEF l, r
    <3> QED BY <1>1, <3>1 DEF l
  <2>2. b[k] = vals[5 + k] /\ vals[5 + k] = Sent(o)[5 + k].v
    BY <1>4, <2>1
  <2>3. Middle(o) = t
    BY MiddleFacts
  <2>4. k \in 1 .. Len(Middle(o))
    <3> HIDE DEF r, z, t
    <3> QED BY <1>1, <2>3
  <2>5. Sent(o)[5 + k] = Middle(o)[k]
    BY <2>4, SentFacts
  <2> QED BY <2>2, <2>3, <2>5
<1>7. b[1] = o.elemType /\ b[2] = r /\ SubSeq(b, 3, 2 + b[2]) = Narrowed(o)
      /\ TensorLength(b) = Len(t)
  <2> HIDE DEF b
  <2> QED BY <1>4, <1>5, <1>6, TensorLengthFacts
<1>8. c \in Seq(Nat) /\ Len(c) = z /\ \A k \in 1 .. z : c[k] = b[2 + r + k]
  <2> DEFINE x == 2 + r + z
             y == 3 + r
  <2>1. c = SubSeq(b, y, x)
    BY <1>1, <1>7 DEF Chars
  <2>2. x \leq Len(b)
    BY <1>1, <1>3, <1>5, <1>7
  <2> HIDE DEF b, c, r, z
  <2>3. y \in Nat \ {0} /\ x \in Nat /\ y \leq x + 1 /\ x - y + 1 = z /\ y - 1 = 2 + r
    BY <1>1
  <2> HIDE DEF x, y
  <2>4. c \in Seq(Nat) /\ Slice(c, b, y, x)
    BY <1>4, <2>1, <2>2, <2>3, SliceFacts
  <2> QED BY <2>3, <2>4 DEF Slice
<1>9. Len(c) \div size = e
  <2> DEFINE v == z
  <2>1. v \in Nat /\ 0 \in 0 .. (size - 1) /\ v = size * e + 0
    <3> HIDE DEF z, size, e
    <3> QED BY <1>1, <1>2
  <2> HIDE DEF v, size, e
  <2>2. v \div size = e
    BY <1>2, <2>1, DivisionUnique
  <2> QED BY <1>8, <2>2 DEF v
<1>10. GetTensor(b) = [dims |-> Narrowed(o), elems |-> DataAsType(b, o.elemType)]
  BY <1>7 DEF GetTensor
<1>11. DataAsType(b, o.elemType) =
         [k \in 1 .. e |-> Value(ToBigEndian(SubSeq(c, (k - 1) * size + 1, k * size)))]
  <2>1. DataAsType(b, o.elemType) =
          [k \in 1 .. (Len(c) \div size) |-> Value(ToBigEndian(SubSeq(c, (k - 1) * size + 1, k * size)))]
    BY <1>7 DEF DataAsType, Chars, Size
  <2> QED BY <1>9, <2>1
<1>12. Len(DataAsType(b, o.elemType)) = e
  <2> DEFINE g == [k \in 1 .. e |-> Value(ToBigEndian(SubSeq(c, (k - 1) * size + 1, k * size)))]
  <2>1. DOMAIN g = 1 .. e
    OBVIOUS
  <2> HIDE DEF g, e
  <2>2. Len(g) = e
    BY <1>2, <2>1
  <2> QED BY <1>11, <2>2 DEF g
<1>13. Len(t) \leq Len(b)
  <2> HIDE DEF t, b, z, r
  <2> QED BY <1>1, <1>3, <1>5, <1>7
<1> QED BY <1>2, <1>5, <1>7, <1>8, <1>10, <1>11, <1>12, <1>13

\* The elements are read out of the characters of the sender's.
LEMMA ElementsOfData ==
  ASSUME NEW o \in Objects, o.type \in TensorTypes, NEW c \in Seq(Nat),
         Len(c) = Len(Data(o)), \A k \in 1 .. Len(c) : c[k] = Data(o)[k],
         NEW m \in 1 .. Len(o.elems)
  PROVE  Value(ToBigEndian(SubSeq(c, (m - 1) * Size(o) + 1, m * Size(o)))) = o.elems[m]
<1> DEFINE size == Size(o)
           e == Len(o.elems)
           d == Data(o)
           x == BytesOf(o.elems[m], size)
           off == (m - 1) * size
           l == off + size
           q == SubSeq(c, off + 1, m * size)
<1>1. /\ Len(d) = e * size /\ size \in Nat \ {0} /\ e \in Nat
      /\ o.elems[m] \in 0 .. (Power[size] - 1)
      /\ \A k \in 1 .. size : d[off + k] = x[k]
  BY DataFacts
<1>2. o.elems[m] \in Nat
  <2>1. Power[size] \in Nat
    BY <1>1, PowerFacts
  <2> HIDE DEF size
  <2> QED BY <1>1, <2>1
<1>3. x \in Seq(Byte) /\ Len(x) = size /\ Value(x) = o.elems[m]
  BY <1>1, <1>2, BytesOfFacts, ValueOfBytes
<1>4. off \in Nat /\ m * size = l /\ l \leq Len(c) /\ l \in Nat
  <2> HIDE DEF size, e, d
  <2>1. m \in Nat /\ m - 1 \in Nat /\ m \leq e
    BY <1>1, SMTT(60) DEF e
  <2>2. off \in Nat /\ m * size = off + size
    BY <1>1, <2>1
  <2>3. m * size \leq e * size
    <3>1. size \in Nat /\ size \leq size
      BY <1>1
    <3> QED BY <1>1, <2>1, <3>1, MultiplyLess
  <2>4. Len(c) = e * size
    BY <1>1 DEF d
  <2> DEFINE x1 == m * size
             x2 == e * size
  <2>5. off \in Nat /\ size \in Nat /\ x1 = off + size /\ x1 \leq x2 /\ Len(c) = x2
    BY <1>1, <2>2, <2>3, <2>4
  <2> HIDE DEF off, x1, x2, size
  <2>6. x1 = l /\ l \leq Len(c) /\ l \in Nat
    BY <2>5
  <2> QED BY <2>2, <2>6 DEF x1
<1> HIDE DEF off, size, d, x
<1>5. q \in Seq(Nat) /\ Slice(q, c, off + 1, l)
  <2>1. off + 1 \in Nat \ {0} /\ off + 1 \leq l + 1
    BY <1>1, <1>4
  <2>2. q = SubSeq(c, off + 1, l)
    BY <1>4
  <2> HIDE DEF q, l
  <2> QED BY <1>4, <2>1, <2>2, SliceFacts
<1> HIDE DEF q
<1>6. Len(q) = size /\ \A k \in 1 .. size : q[k] = c[off + k]
  <2> DEFINE a == off + 1
  <2>1. l - a + 1 = size /\ a - 1 = off
    BY <1>1, <1>4
  <2>2. Slice(q, c, a, l)
    BY <1>5
  <2> HIDE DEF l, a
  <2> QED BY <2>1, <2>2 DEF Slice
<1>7. ASSUME NEW k \in 1 .. size PROVE q[k] = x[k]
  <2>1. off + k \in 1 .. Len(c)
    BY <1>1, <1>4
  <2>2. c[off + k] = d[off + k]
    BY <2>1 DEF d
  <2> QED BY <1>1, <1>6, <2>2
<1>8. q = x
  <2>1. x \in Seq(Nat)
    <3>1. Byte \subseteq Nat
      BY SizeFacts DEF Byte
    <3> QED BY <1>3, <3>1, SeqMonotonic
  <2> QED BY <1>3, <1>5, <1>6, <1>7, <2>1
<1>9. ToBigEndian(q) = q
  BY <1>5, LoopReturns
<1> QED BY <1>3, <1>8, <1>9 DEF q, off, size

\* A tensor that arrives whole has the elements it was sent with.
LEMMA ElementsArrive ==
  ASSUME IInv, whole, Ended, object.type \in TensorTypes
  PROVE  GetTensor(Body(vals)).elems = object.elems
<1> DEFINE o == object
           b == Body(vals)
           c == Chars(b)
           r == Len(o.dims)
           z == Len(Data(o))
           t == Tensor(o)
           size == Size(o)
           e == Len(o.elems)
           s == Sent(o)
<1>1. /\ stage = "accepted" /\ o \in Objects /\ vals \in Seq(Nat) /\ Formed(o)
      /\ Len(vals) = Len(s) /\ Len(vals) \in Nat
      /\ \A k \in 1 .. Len(vals) : vals[k] = s[k].v
  BY WholeFacts
<1>2. /\ r \in Nat /\ z \in Nat /\ Len(t) = 2 + r + z
      /\ \A k \in 1 .. z : t[2 + r + k].v = Data(o)[k]
  BY <1>1, TensorFacts
<1>3. z = e * size /\ size \in Nat \ {0} /\ e \in Nat
  BY <1>1, DataFacts
<1>4. Middle(o) = t /\ o.type \in DOMAIN TypeNumber
  BY <1>1, MiddleFacts, ObjectsAssumption
<1>5. /\ 5 + Len(t) \leq Len(s) /\ s[1].v = TypeNumber[o.type]
      /\ \A k \in 1 .. Len(t) : s[5 + k] = t[k]
  <2> DEFINE m == Len(Middle(o))
             g == Len(TailSizes(o.type))
  <2>1. m \in Nat /\ g \in Nat /\ Len(s) = 5 + m + g /\ s[1].v = TypeNumber[o.type]
        /\ \A k \in 1 .. m : s[5 + k] = Middle(o)[k]
    BY <1>1, SentFacts
  <2>2. Len(t) = m
    BY <1>4
  <2> HIDE DEF m, g, t, s
  <2>3. 5 + Len(t) \leq Len(s)
    BY <2>1, <2>2
  <2> QED BY <1>4, <2>1, <2>2, <2>3
<1>6. 7 + r \leq Len(vals) /\ 1 \in 1 .. Len(vals)
  <2> HIDE DEF r, z, t, s
  <2> QED BY <1>1, <1>2, <1>5
<1>7. TypeOf(vals[1]) \in TensorTypes /\ Width(vals) = 0
  <2>1. vals[1] = TypeNumber[o.type]
    BY <1>1, <1>5, <1>6
  <2>2. Width(vals) = 0
    BY <1>1 DEF IInv, Read, Ended
  <2> QED BY <1>4, <2>1, <2>2, TypeOfNumber
<1>8. \A k \in 6 .. (7 + r) : vals[k] = s[k].v
  <2>1. \A k \in 6 .. (7 + r) : k \in 1 .. Len(vals)
    <3> HIDE DEF r
    <3> QED BY <1>1, <1>2, <1>6
  <2> QED BY <1>1, <2>1
<1>9. /\ Len(b) \in Nat /\ Len(t) \leq Len(b)
      /\ c \in Seq(Nat) /\ Len(c) = e * size
      /\ \A k \in 1 .. Len(c) : c[k] = b[2 + r + k]
      /\ GetTensor(b).elems = [k \in 1 .. e |-> Value(ToBigEndian(SubSeq(c, (k - 1) * size + 1, k * size)))]
  BY <1>1, <1>6, <1>7, <1>8, ShapeArrived
<1>10. ASSUME NEW k \in 1 .. Len(c) PROVE c[k] = Data(o)[k]
  <2> DEFINE j == 2 + r + k
  <2>1. k \in 1 .. z
    BY <1>3, <1>9
  <2>2. j \in 1 .. Len(t) /\ j \in 1 .. (Len(vals) - 5) /\ 5 + j \in 1 .. Len(vals)
        /\ 5 \leq Len(vals)
    <3> DEFINE x == Len(t)
               l == Len(vals)
    <3>1. r \in Nat /\ z \in Nat /\ l \in Nat /\ x = 2 + r + z /\ 5 + x \leq l
      BY <1>1, <1>2, <1>5
    <3> HIDE DEF r, z, t, s, x, l
    <3>2. j \in 1 .. x /\ j \in 1 .. (l - 5) /\ 5 + j \in 1 .. l /\ 5 \leq l
      BY <2>1, <3>1
    <3> QED BY <3>2 DEF x, l
  <2>3. b[j] = vals[5 + j]
    BY <1>1, <2>2, BodyFacts
  <2>4. vals[5 + j] = s[5 + j].v /\ s[5 + j] = t[j]
    BY <1>1, <1>5, <2>2
  <2> QED BY <1>2, <1>9, <2>1, <2>3, <2>4
<1>11. \A m \in 1 .. e : Value(ToBigEndian(SubSeq(c, (m - 1) * size + 1, m * size))) = o.elems[m]
  <2>1. Len(c) = z
    BY <1>3, <1>9
  <2> HIDE DEF c
  <2> QED BY <1>1, <1>9, <1>10, <2>1, ElementsOfData
<1>12. GetTensor(b).elems = [m \in 1 .. e |-> o.elems[m]]
  BY <1>9, <1>11
<1>13. o.elems = [m \in 1 .. e |-> o.elems[m]]
  <2> DEFINE E == 0 .. (Power[size] - 1)
             w == o.elems
  <2>1. w \in Seq(E)
    BY <1>1, ObjectsAssumption DEF Size
  <2> HIDE DEF E, w
  <2>2. w = [m \in 1 .. Len(w) |-> w[m]]
    BY <2>1
  <2> QED BY <2>2 DEF w
<1> QED BY <1>12, <1>13

\* A message that arrives whole is accepted as what was sent: for each class, each
\* value of its fields and each size of the tensor, the list of scalars that the
\* reader works out from what it has read is the one that the writer wrote.
THEOREM WholeMessagesRoundTrip == Spec => []RoundTrip
<1>1. IInv => RoundTrip
  <2> DEFINE f == Fields(object)
             s == Sent(object)
             x == [k \in 1 .. (Len(f) - 2) |-> f[k + 1].v]
             t == TypeNumber[object.type]
             y == <<t>>
  <2> SUFFICES ASSUME IInv, whole, Ended
               PROVE  /\ stage = "accepted" /\ vals = y \o x
                      /\ object.type \in TensorTypes => GetTensor(Body(vals)).elems = object.elems
    BY DEF RoundTrip
  <2>1. /\ stage = "accepted" /\ object \in Objects /\ vals \in Seq(Nat)
        /\ Len(vals) = Len(s) /\ Len(vals) \in Nat
        /\ \A k \in 1 .. Len(vals) : vals[k] = s[k].v
    BY WholeFacts
  <2>2. /\ Len(f) \in Nat /\ 6 \leq Len(f) /\ Len(s) = Len(f) - 1 /\ f \in Seq(Field)
        /\ s[1].v = t /\ t \in Nat
        /\ s = [k \in 1 .. (Len(f) - 1) |-> IF k = 1 THEN f[Len(f)] ELSE f[k]]
    BY <2>1, WriterFacts, FieldsFacts, SentFacts, ObjectsAssumption, SizeFacts DEF Sent
  <2> DEFINE l == Len(f)
  <2> HIDE DEF s, f
  <2>3. l - 2 \in Nat /\ l \in Nat
    BY <2>2
  <2>4. ASSUME NEW k \in 1 .. (l - 2) PROVE f[k + 1].v \in Nat /\ f[k + 1] = s[k + 1]
    <3>1. k + 1 \in 1 .. l /\ k + 1 \in 1 .. (l - 1) /\ k + 1 # 1
      BY <2>3
    <3>2. f[k + 1] \in Field
      BY <2>2, <3>1
    <3> QED BY <2>2, <3>1, <3>2 DEF Field
  <2>5. x \in Seq(Nat) /\ Len(x) = l - 2
    <3>1. x \in [1 .. (l - 2) -> Nat]
      BY <2>4
    <3> HIDE DEF x, l
    <3> QED BY <2>3, <3>1, SequenceOf
  <2>6. y \in Seq(Nat) /\ Len(y) = 1 /\ y[1] = t
    BY <2>2
  <2> DEFINE z == y \o x
  <2> HIDE DEF y
  <2>7. z \in Seq(Nat) /\ Joined(z, y, x)
    BY <2>5, <2>6, JoinFacts
  <2>8. \A k \in 1 .. (l - 2) : x[k] = f[k + 1].v
    OBVIOUS
  <2> HIDE DEF x, z
  <2>9. Len(z) = l - 1 /\ z[1] = t /\ \A k \in 1 .. (l - 2) : z[1 + k] = x[k]
    <3>1. Len(z) = 1 + (l - 2) /\ z[1] = t /\ \A k \in 1 .. (l - 2) : z[1 + k] = x[k]
      BY <2>5, <2>6, <2>7 DEF Joined
    <3> QED BY <2>3, <3>1
  <2>10. ASSUME NEW k \in 1 .. (l - 1) PROVE z[k] = vals[k]
    <3>1. vals[k] = s[k].v
      BY <2>1, <2>2
    <3>2. CASE k = 1
      BY <2>2, <2>9, <3>1, <3>2
    <3>3. CASE k # 1
      <4> DEFINE j == k - 1
      <4>1. j \in 1 .. (l - 2) /\ j + 1 = k /\ 1 + j = k
        BY <2>3, <3>3
      <4> HIDE DEF j
      <4>2. z[k] = x[j] /\ x[j] = f[k].v /\ f[k] = s[k]
        BY <2>4, <2>8, <2>9, <4>1
      <4> QED BY <3>1, <4>2
    <3> QED BY <3>2, <3>3
  <2>11. vals = z
    <3>1. Len(vals) = l - 1
      BY <2>1, <2>2
    <3> HIDE DEF l
    <3> QED BY <2>1, <2>3, <2>7, <2>9, <2>10, <3>1
  <2> QED BY <2>1, <2>11, ElementsArrive DEF z
<1> QED BY <1>1, Inductive, PTL

\* If the bytes end within the shape, there are no elements.
LEMMA ShapeCut ==
  ASSUME object \in Objects, Formed(object), object.type \in TensorTypes, vals \in Seq(Nat),
         Width(vals) = 0, TypeOf(vals[1]) \in TensorTypes,
         NEW m \in 8 .. (7 + Len(object.dims)), m \leq Len(vals), vals[m] = 0,
         vals[6] = Sent(object)[6].v, vals[7] = Sent(object)[7].v
  PROVE  LET t == GetTensor(Body(vals)) IN Len(t.elems) = 0 /\ Product(t.dims) = 0
<1> DEFINE o == object
           b == Body(vals)
           c == Chars(b)
           r == Len(o.dims)
           d == SubSeq(b, 3, 2 + b[2])
           l == Len(vals)
           size == Size(o)
           s == Sent(o)
<1>1. r \in Nat /\ m \in Nat /\ 8 \leq m /\ m \leq 7 + r /\ l \in Nat /\ m \leq l
  BY TensorFacts, SMTT(60)
<1>2. size \in Nat \ {0} /\ o.elemType \in DOMAIN ElemSize
  BY DataFacts, ObjectsAssumption
<1>3. /\ 2 + b[2] \leq Len(b) /\ ~ (Len(b) < TensorLength(b))
  BY CompleteTensor
<1>4. 5 \leq l
  <2> HIDE DEF l, r
  <2> QED BY <1>1
<1>5. b \in Seq(Nat) /\ Len(b) = l - 5 /\ \A k \in 1 .. (l - 5) : b[k] = vals[5 + k]
  BY <1>4, BodyFacts
<1>6. s[6].v = o.elemType /\ s[7].v = r
  <2>1. Middle(o) = Tensor(o)
    BY MiddleFacts
  <2>2. /\ Len(Data(o)) \in Nat /\ Len(Tensor(o)) = 2 + r + Len(Data(o))
        /\ Tensor(o)[1].v = o.elemType /\ Tensor(o)[2].v = r
    BY TensorFacts
  <2>3. 1 \in 1 .. Len(Middle(o)) /\ 2 \in 1 .. Len(Middle(o))
    <3> DEFINE z == Len(Data(o))
               y == Len(Middle(o))
    <3>1. r \in Nat /\ z \in Nat /\ y = 2 + r + z
      BY <1>1, <2>1, <2>2
    <3> HIDE DEF r, z, y
    <3>2. 1 \in 1 .. y /\ 2 \in 1 .. y
      BY <3>1
    <3> QED BY <3>2 DEF y
  <2>4. s[5 + 1] = Middle(o)[1] /\ s[5 + 2] = Middle(o)[2]
    BY <2>3, SentFacts
  <2>5. s[6] = Middle(o)[1] /\ s[7] = Middle(o)[2]
    BY <2>4
  <2> QED BY <2>1, <2>2, <2>5
<1>7. b[1] = o.elemType /\ b[2] = r /\ b[m - 5] = 0
  <2>1. 1 \in 1 .. (l - 5) /\ 2 \in 1 .. (l - 5) /\ m - 5 \in 1 .. (l - 5)
        /\ 5 + (m - 5) = m
    <3> HIDE DEF l, r
    <3> QED BY <1>1
  <2>2. b[1] = vals[5 + 1] /\ b[2] = vals[5 + 2] /\ b[m - 5] = vals[m]
    BY <1>5, <2>1
  <2>3. b[1] = vals[6] /\ b[2] = vals[7]
    BY <2>2
  <2> QED BY <1>6, <2>2, <2>3
<1>8. d \in Seq(Nat) /\ Len(d) = r /\ \A k \in 1 .. r : d[k] = b[2 + k]
  <2> DEFINE x == 2 + r
  <2>0. x \leq Len(b) /\ r \in Nat
    BY <1>1, <1>3, <1>7
  <2>2. d = SubSeq(b, 3, x)
    BY <1>7
  <2> HIDE DEF d, r, b
  <2>1. x \in Nat /\ 3 \in Nat \ {0} /\ 3 \leq x + 1 /\ x - 3 + 1 = r /\ x \leq Len(b)
    BY <2>0
  <2> HIDE DEF x
  <2>3. d \in Seq(Nat) /\ Slice(d, b, 3, x)
    BY <1>5, <2>1, <2>2, SliceFacts
  <2> QED BY <1>1, <2>1, <2>3 DEF Slice
<1>9. Product(d) = 0
  <2> DEFINE j == m - 7
  <2>1. j \in 1 .. r /\ 2 + j = m - 5
    <3> HIDE DEF r
    <3> QED BY <1>1
  <2> HIDE DEF j, d, b, r
  <2>2. d[j] = 0
    BY <1>7, <1>8, <2>1
  <2> QED BY <1>8, <2>1, <2>2, ZeroProduct
<1>10. TensorLength(b) = 2 + r
  <2>1. TensorLength(b) = 2 + r + Product(d) * size
    BY <1>7 DEF TensorLength, Size
  <2> HIDE DEF d, size, r
  <2>2. 0 * size = 0
    BY <1>2
  <2> QED BY <1>1, <1>9, <2>1, <2>2
<1>11. Len(c) = 0
  <2> DEFINE x == 2 + r
             y == 3 + r
  <2>1. c = SubSeq(b, y, x) /\ x \leq Len(b)
    BY <1>3, <1>7, <1>10 DEF Chars
  <2> HIDE DEF b, c, r
  <2>2. y \in Nat \ {0} /\ x \in Nat /\ y \leq x + 1 /\ x - y + 1 = 0
    BY <1>1
  <2> HIDE DEF x, y
  <2>3. Slice(c, b, y, x)
    BY <1>5, <2>1, <2>2, SliceFacts
  <2> QED BY <2>2, <2>3 DEF Slice
<1>12. Len(c) \div size = 0
  <2> HIDE DEF size
  <2>1. 0 \in 0 .. (size - 1) /\ 0 = size * 0 + 0
    BY <1>2
  <2> HIDE DEF c
  <2>2. 0 \div size = 0
    BY <1>2, <2>1, DivisionUnique
  <2> QED BY <1>11, <2>2
<1> DEFINE g == [k \in 1 .. (Len(c) \div size) |-> Value(ToBigEndian(SubSeq(c, (k - 1) * size + 1, k * size)))]
<1>13. GetTensor(b) = [dims |-> d, elems |-> g]
  BY <1>7 DEF GetTensor, DataAsType, Chars, Size
<1>14. Len(g) = 0
  <2>1. DOMAIN g = 1 .. 0
    BY <1>12
  <2> HIDE DEF g
  <2> QED BY <2>1
<1>15. GetTensor(b).dims = d /\ GetTensor(b).elems = g
  <2> HIDE DEF d, g
  <2> QED BY <1>13
<1> HIDE DEF d, g
<1> QED BY <1>9, <1>14, <1>15

\* What the handler makes of an accepted tensor: the sender's shape and as many elements
\* as it has, or no elements and a shape without any, or nothing.
LEMMA AcceptedTensor ==
  ASSUME IInv, stage = "accepted", IsTensor
  PROVE  LET t == GetTensor(Body(vals)) IN
           \/ t = [dims |-> <<>>, elems |-> <<>>]
           \/ t.dims = Narrowed(object) /\ Len(t.elems) = Len(object.elems)
           \/ Len(t.elems) = 0 /\ Product(t.dims) = 0
<1> DEFINE o == object
           b == Body(vals)
           r == Len(o.dims)
           l == Len(vals)
           s == Sent(o)
<1>1. /\ o \in Objects /\ vals \in Seq(Nat) /\ Formed(o) /\ o.type \in TensorTypes
      /\ TypeOf(vals[1]) \in TensorTypes /\ Width(vals) = 0 /\ Read
  BY DEF IInv, TypeOK, Arrived, Read, IsTensor
<1>2. r \in Nat \ {0} /\ l \in Nat
  <2>1. r \in Nat /\ r \in 1 .. (Power[W16] - 1)
    BY <1>1, TensorFacts, ObjectsAssumption
  <2> HIDE DEF r
  <2>2. r # 0
    <3> DEFINE p == Power[W16] - 1
    <3>1. r \in 1 .. p
      BY <2>1
    <3>2. p \in Int
      BY SizeFacts, PowerFacts
    <3> HIDE DEF p
    <3> QED BY <3>1, <3>2
  <2> QED BY <1>1, <2>1, <2>2
<1>3. 7 \leq l
  BY <1>1, CompleteTensor
<1>4. Len(s) \in Nat /\ 7 + r \leq Len(s)
  <2>1. /\ Middle(o) = Tensor(o) /\ Len(Data(o)) \in Nat
        /\ Len(Tensor(o)) = 2 + r + Len(Data(o))
    BY <1>1, MiddleFacts, TensorFacts
  <2> DEFINE m == Len(Middle(o))
             g == Len(TailSizes(o.type))
  <2>2. m \in Nat /\ g \in Nat /\ Len(s) = 5 + m + g
    BY <1>1, SentFacts
  <2>3. m = 2 + r + Len(Data(o))
    BY <2>1
  <2> HIDE DEF m, g, r, s
  <2> QED BY <1>2, <2>1, <2>2, <2>3
<1>5. ASSUME 7 + r \leq l, \A k \in 6 .. (7 + r) : vals[k] = s[k].v
      PROVE  GetTensor(b).dims = Narrowed(o) /\ Len(GetTensor(b).elems) = Len(o.elems)
  BY <1>1, <1>5, ShapeArrived
<1>6. CASE InStep
  <2>1. l \leq Len(s) /\ \A k \in 1 .. l : vals[k] = s[k].v
    BY <1>6 DEF InStep
  <2>2. Width(vals) = IF l < Len(s) THEN s[l + 1].w ELSE 0
    BY <1>1, <1>6, InStepFacts
  <2>3. ~ (l < Len(s))
    <3> SUFFICES ASSUME l < Len(s) PROVE FALSE
      OBVIOUS
    <3>1. l + 1 \in 1 .. Len(s)
      BY <1>2, <1>4
    <3>2. s[l + 1] \in Field
      BY <1>1, <3>1, WireFacts
    <3>3. s[l + 1].w \in Nat \ {0}
      BY <3>2 DEF Field
    <3> QED BY <1>1, <2>2, <3>3
  <2> HIDE DEF l, r, s, b, o
  <2>4. 7 + r \leq l /\ \A k \in 6 .. (7 + r) : k \in 1 .. l
    BY <1>2, <1>4, <2>1, <2>3
  <2>5. \A k \in 6 .. (7 + r) : vals[k] = s[k].v
    BY <2>1, <2>4
  <2> QED BY <1>5, <2>4, <2>5 DEF b, o
<1>7. ASSUME NEW m \in 1 .. l, CutAt(m)
      PROVE  \/ GetTensor(b) = [dims |-> <<>>, elems |-> <<>>]
             \/ GetTensor(b).dims = Narrowed(o) /\ Len(GetTensor(b).elems) = Len(o.elems)
             \/ Len(GetTensor(b).elems) = 0 /\ Product(GetTensor(b).dims) = 0
  <2>1. /\ \A k \in 1 .. (m - 1) : vals[k] = s[k].v
        /\ m > 5 => vals[m] = 0
        /\ m < 7 /\ l > 6 => vals[7] = 0
    BY <1>1, <1>7 DEF CutAt, ReadsTensor
  <2>2. m \in Nat /\ m \leq l
    BY <1>2
  <2>3. CASE m \leq 7
    <3>1. vals[7] = 0
      <4> HIDE DEF l
      <4>1. l > 6
        BY <1>2, <1>3
      <4> QED BY <2>1, <2>2, <2>3, <4>1
    <3>2. b[2] = vals[7]
      <4>1. 5 \leq l /\ 2 \in 1 .. (l - 5)
        <5> HIDE DEF l
        <5> QED BY <1>2, <1>3
      <4>2. b[2] = vals[5 + 2]
        BY <1>1, <4>1, BodyFacts
      <4> QED BY <4>2
    <3>3. b[2] # r
      BY <1>2, <3>1, <3>2
    <3> QED BY <3>3 DEF GetTensor
  <2>4. CASE 8 \leq m /\ m \leq 7 + r
    <3>1. m \in 8 .. (7 + r) /\ m \leq l /\ 6 \in 1 .. (m - 1) /\ 7 \in 1 .. (m - 1)
      <4> HIDE DEF l, r
      <4> QED BY <1>2, <2>2, <2>4
    <3>2. vals[m] = 0 /\ vals[6] = s[6].v /\ vals[7] = s[7].v
      BY <2>1, <2>2, <2>4, <3>1
    <3> QED BY <1>1, <3>1, <3>2, ShapeCut
  <2>5. CASE 7 + r < m
    <3>1. 7 + r \leq l /\ \A k \in 6 .. (7 + r) : k \in 1 .. (m - 1)
      <4> HIDE DEF l, r
      <4> QED BY <1>2, <2>2, <2>5
    <3>2. \A k \in 6 .. (7 + r) : vals[k] = s[k].v
      BY <2>1, <3>1
    <3> QED BY <1>5, <3>1, <3>2
  <2>6. m \leq 7 \/ (8 \leq m /\ m \leq 7 + r) \/ 7 + r < m
    <3> HIDE DEF r
    <3> QED BY <1>2, <2>2
  <2> QED BY <2>3, <2>4, <2>5, <2>6
<1> QED BY <1>1, <1>6, <1>7 DEF Read

\* Wherever a tensor is cut, the handler does not get its elements in another shape: a
\* dimension that is missing is 0, and with it the number of the elements.
THEOREM ShapesStay == Spec => []ShapeOrNothing
<1>1. IInv => ShapeOrNothing
  <2> DEFINE t == GetTensor(Body(vals))
  <2> SUFFICES ASSUME IInv, stage = "accepted", IsTensor, Len(t.elems) > 0
               PROVE  t.dims = object.dims
    BY DEF ShapeOrNothing
  <2>1. \/ t = [dims |-> <<>>, elems |-> <<>>]
        \/ t.dims = Narrowed(object) /\ Len(t.elems) = Len(object.elems)
        \/ Len(t.elems) = 0 /\ Product(t.dims) = 0
    BY AcceptedTensor
  <2>2. object \in Objects /\ Formed(object) /\ object.type \in TensorTypes
    BY DEF IInv, TypeOK, Arrived, IsTensor
  <2> HIDE DEF t
  <2>3. t # [dims |-> <<>>, elems |-> <<>>]
    <3>1. Len(<<>>) = 0
      OBVIOUS
    <3> SUFFICES ASSUME t = [dims |-> <<>>, elems |-> <<>>] PROVE FALSE
      OBVIOUS
    <3>2. t.elems = <<>>
      OBVIOUS
    <3> QED BY <3>1, <3>2
  <2>4. t.dims = Narrowed(object) /\ Len(object.elems) > 0
    BY <2>1, <2>3
  <2> QED BY <2>2, <2>4, ShapeFits
<1> QED BY <1>1, Inductive, PTL

\* The elements that Armadillo copies are there: as many as the shape says, also of a
\* tensor that was cut and accepted.
THEOREM TensorsAreFilled == Spec => []TensorIsFilled
<1>1. IInv => TensorIsFilled
  <2> DEFINE t == GetTensor(Body(vals))
  <2> SUFFICES ASSUME IInv, stage = "accepted", IsTensor, t.dims # <<>>
               PROVE  Len(t.elems) = Product(t.dims)
    BY DEF TensorIsFilled
  <2>1. \/ t = [dims |-> <<>>, elems |-> <<>>]
        \/ t.dims = Narrowed(object) /\ Len(t.elems) = Len(object.elems)
        \/ Len(t.elems) = 0 /\ Product(t.dims) = 0
    BY AcceptedTensor
  <2>2. object \in Objects /\ Formed(object) /\ object.type \in TensorTypes
    BY DEF IInv, TypeOK, Arrived, IsTensor
  <2>3. Product(Narrowed(object)) = Len(object.elems)
    BY <2>2, ElementsFacts
  <2> HIDE DEF t
  <2> QED BY <2>1, <2>3
<1> QED BY <1>1, Inductive, PTL
=============================================================================
