-------------------------------- MODULE Codec --------------------------------
(***************************************************************************)
(* A message from its object to bytes and back: Base::Serialize and        *)
(* Deserialize with the Serialize function of each message class           *)
(* (Common/Message/), over mons::Serialize (Common/serialize.hpp), and what *)
(* StartRecieve makes of the bytes it gets.                                 *)
(*                                                                         *)
(* A class has one Serialize for both directions: a list of scalars.  When *)
(* writing, the list comes from the object (Fields); when reading, the     *)
(* next scalar depends on those before it (Width).  A scalar that is not   *)
(* there any more keeps its default, and the reader goes on.               *)
(*                                                                         *)
(* Each scalar goes through the byte loop of Endian, at both ends.  What   *)
(* arrives may be cut short: Socket's LateError.                           *)
(***************************************************************************)
EXTENDS Integers, Sequences

CONSTANTS
  Base,           \* values of a byte: 256
  W16, W32, W64,  \* sizes of the integers
  TypeNumber,     \* message types and their numbers
  ElemSize,       \* the registered element types and their sizes
  ElemType,       \* MONS_ELEM_TYPE
  CONFIG_HASH,    \* of the receiver
  Objects         \* the messages to send

\* How many values an integer of k bytes has: Base^k.
Power[k \in Nat] == IF k = 0 THEN 1 ELSE Base * Power[k - 1]

ASSUME CodecAssumption ==
  /\ {Base, W16, W32, W64} \subseteq Nat \ {0} /\ W32 \leq 2 * W16
  /\ CONFIG_HASH \in 0 .. (Power[W64] - 1)
  /\ DOMAIN ElemSize \subseteq 0 .. (Power[W16] - 1) /\ ElemType \in DOMAIN ElemSize
  /\ \A e \in DOMAIN ElemSize : ElemSize[e] \in Nat \ {0}
  /\ \A t \in DOMAIN TypeNumber : TypeNumber[t] \in 0 .. (Power[W32] - 1)
  /\ \A t, u \in DOMAIN TypeNumber : TypeNumber[t] = TypeNumber[u] => t = u

VARIABLES
  object,  \* the message that is sent
  stage,   \* "write", "read", "accepted", "rejected", "thrown", "terminated"
  vals,    \* the scalars written or read so far
  data,    \* MessageBuffer::data
  ptr,     \* MessageBuffer::deserializePtr
  n,       \* size of the scalar in the byte loop, 0 if there is none
  arr, i,  \* the loop's bytes and index
  whole    \* the bytes were not cut on the way

vars == <<object, stage, vals, data, ptr, n, arr, i, whole>>

-----------------------------------------------------------------------------
(* Numbers and bytes.                                                      *)

Byte == 0 .. (Base - 1)

\* The bytes of v, in the order they have in memory.
BytesOf(v, w) == [k \in 1 .. w |-> (v \div Power[k - 1]) % Base]

Value(b) ==
  LET low[k \in 0 .. Len(b)] == IF k = 0 THEN 0 ELSE low[k - 1] + b[k] * Power[k - 1]
  IN low[Len(b)]

Product(s) ==
  LET p[k \in 0 .. Len(s)] == IF k = 0 THEN 1 ELSE p[k - 1] * s[k]
  IN p[Len(s)]

\* The byte loop of Endian, on its own: step k changes places of byte k and its mirror.
ToBigEndian(b) ==
  LET loop[k \in 0 .. Len(b)] ==
        IF k = 0 THEN b
        ELSE [loop[k - 1] EXCEPT ![k] = loop[k - 1][Len(b) + 1 - k],
                                 ![Len(b) + 1 - k] = loop[k - 1][k]]
  IN loop[Len(b)]

Concat(s) ==
  LET c[k \in 0 .. Len(s)] == IF k = 0 THEN <<>> ELSE c[k - 1] \o s[k]
  IN c[Len(s)]

-----------------------------------------------------------------------------
(* What the classes write.                                                 *)

TensorTypes == {"UpdatePredictors", "UpdateResponses", "UpdateWeights",
                "EvaluateWithGradient", "Gradient", "UpdateParameters"}

\* Numbers s as integers of size w: what does not fit is cut off.
Scalars(w, s) == [k \in DOMAIN s |-> [w |-> w, v |-> s[k] % Power[w]]]

\* sender, reciever, id, responseTo; messageType is overwritten at the end.
Header(o) == Scalars(W32, <<0>> \o o.header)

\* Mutant: columns before rows.
SetTensor_Transposed(o) ==
  [dataType |-> o.elemType,
   dimensions |-> [k \in DOMAIN o.dims |-> o.dims[Len(o.dims) + 1 - k] % Power[W32]],
   data |-> Concat([k \in DOMAIN o.elems |->
                      ToBigEndian(BytesOf(o.elems[k], ElemSize[o.elemType]))])]

\* Mutant: as many elements as the shape in 32 bits says.
SetTensor_AsShaped(o) ==
  LET dimensions == [k \in DOMAIN o.dims |-> o.dims[k] % Power[W32]]
  IN [dataType |-> o.elemType, dimensions |-> dimensions,
      data |-> Concat([k \in 1 .. Product(dimensions) |->
                         ToBigEndian(BytesOf(o.elems[k], ElemSize[o.elemType]))])]

\* The shape in 32 bits each, the elements one after the other, each through the loop.
SetTensor(o) ==
  [dataType |-> o.elemType,
   dimensions |-> [k \in DOMAIN o.dims |-> o.dims[k] % Power[W32]],
   data |-> Concat([k \in DOMAIN o.elems |->
                      ToBigEndian(BytesOf(o.elems[k], ElemSize[o.elemType]))])]

Tensor(o) ==
  LET t == SetTensor(o)
  IN Scalars(W16, <<t.dataType, Len(t.dimensions)>>) \o Scalars(W32, t.dimensions)
       \o Scalars(1, t.data)

\* Cerealize, and the length in front.
Cereal(o) == Scalars(W64, <<Len(o.archive)>>) \o Scalars(1, o.archive)

\* SetInputDimension: both the number of dimensions and each are 16 bits wide.
InputDimensions(o) == Scalars(W16, <<Len(o.dims)>> \o o.dims)

\* Sizes of the numbers that a class adds to those of its base.
TailSizes(type) ==
  CASE type = "Gradient" -> <<ElemSize[ElemType]>>
    [] type = "EvaluateWithGradient" -> <<W64, W64>>
    [] type = "OperationStatus" -> <<W16>>
    [] type = "ConnectInfo" -> <<W64>>
    [] OTHER -> <<>>

\* What the messages are made of.  An Armadillo object has as many elements as its
\* dimensions say, each of the bytes of its type; an archive fits into memory.
ASSUME ObjectsAssumption ==
  \A o \in Objects :
    /\ o.type \in DOMAIN TypeNumber
    /\ o.header \in Seq(Nat) /\ Len(o.header) = 4
    /\ o.tail \in Seq(Nat) /\ Len(TailSizes(o.type)) \leq Len(o.tail)
    /\ o.type \in TensorTypes =>
         /\ o.elemType \in DOMAIN ElemSize
         /\ o.dims \in Seq(Nat) /\ Len(o.dims) \in 1 .. (Power[W16] - 1)
         /\ o.elems \in Seq(0 .. (Power[ElemSize[o.elemType]] - 1))
         /\ Len(o.elems) = Product(o.dims)
    /\ o.type = "UpdateFunction" =>
         /\ o.archive \in Seq(Byte) /\ Len(o.archive) < Power[W64]
         /\ o.dims \in Seq(Nat)

TailFields(o) ==
  [k \in DOMAIN TailSizes(o.type) |-> Scalars(TailSizes(o.type)[k], o.tail)[k]]

\* All that is written; messageType comes last, to offset 0.
Fields(o) ==
  Header(o)
    \o (CASE o.type \in TensorTypes -> Tensor(o)
          [] o.type = "UpdateFunction" -> Cereal(o) \o InputDimensions(o)
          [] OTHER -> <<>>)
    \o TailFields(o) \o Scalars(W32, <<TypeNumber[o.type]>>)

\* "Incorrect number of elements in tensor", when dataType has been written; at the
\* end of the body Expect looks at the same again, and at the dimensions of
\* UpdateFunction.
FatalErrors(o, written) ==
  \/ /\ o.type \in TensorTypes /\ written \in {6, Len(Fields(o)) - 1}
     /\ LET t == SetTensor(o)
        IN Product(t.dimensions) * ElemSize[t.dataType] # Len(t.data)
  \/ /\ o.type = "UpdateFunction" /\ written = Len(Fields(o)) - 1
     /\ Len(o.dims) # Len(o.dims) % Power[W16]

-----------------------------------------------------------------------------
(* What the classes read.  b: the scalars of the body so far.  The result  *)
(* is the size of the next one, 0 at the end.                              *)

\* Mutant: the data is resized to the number of elements.
TensorLength_Elements(b) ==
  LET dimensions == SubSeq(b, 3, 2 + b[2])
  IN 2 + b[2] + Product(dimensions)

TensorLength(b) ==
  LET dimensions == SubSeq(b, 3, 2 + b[2])
  IN 2 + b[2] + Product(dimensions) * ElemSize[b[1]]

TensorWidth(b) ==
  IF Len(b) < 2 THEN W16
  ELSE IF Len(b) < 2 + b[2] THEN W32
  ELSE IF Len(b) < TensorLength(b) THEN 1 ELSE 0

CerealWidth(b) == IF b = <<>> THEN W64 ELSE IF Len(b) < 1 + b[1] THEN 1 ELSE 0

InputDimensionsWidth(r) == IF r = <<>> \/ Len(r) < 1 + r[1] THEN W16 ELSE 0

\* r: the scalars after those of the base class.
TailWidth(type, r) == IF Len(r) < Len(TailSizes(type)) THEN TailSizes(type)[Len(r) + 1] ELSE 0

BodyWidth(type, b) ==
  CASE type \in TensorTypes ->
         IF TensorWidth(b) > 0 THEN TensorWidth(b)
         ELSE TailWidth(type, SubSeq(b, TensorLength(b) + 1, Len(b)))
    [] type = "UpdateFunction" ->
         IF CerealWidth(b) > 0 THEN CerealWidth(b)
         ELSE InputDimensionsWidth(SubSeq(b, 2 + b[1], Len(b)))
    [] OTHER -> TailWidth(type, b)

\* StartRecieve: the class for a number.
TypeOf(number) == CHOOSE t \in DOMAIN TypeNumber : TypeNumber[t] = number

Body(v) == SubSeq(v, 6, Len(v))
Width(v) == IF Len(v) < 5 THEN W32 ELSE BodyWidth(TypeOf(v[1]), Body(v))

\* What the next scalar holds before it is read: sender and reciever are -1, a
\* ConnectInfo has the hash of its own machine, make_shared sets the rest to 0.
Default(v) ==
  CASE Len(v) \in {1, 2} -> Power[W32] - 1
    [] Len(v) = 5 /\ TypeOf(v[1]) = "ConnectInfo" -> CONFIG_HASH
    [] OTHER -> 0

UnknownElemType(v) == /\ Len(v) = 6 /\ TypeOf(v[1]) \in TensorTypes
                      /\ v[6] \notin DOMAIN ElemSize

-----------------------------------------------------------------------------
Init ==
  /\ object \in Objects
  /\ stage = "write"
  /\ vals = <<>>
  /\ data = <<>>
  /\ ptr = 0
  /\ n = 0 /\ arr = <<>> /\ i = 0
  /\ whole = TRUE

\* memcpy into the buffer, or out of it.
Copied(b) == n' = Len(b) /\ arr' = [k \in 0 .. (Len(b) - 1) |-> b[k + 1]] /\ i' = 0
Looped == [k \in 1 .. n |-> arr[k - 1]]

Throw ==
  /\ stage = "write" /\ n = 0
  /\ FatalErrors(object, Len(vals))
  /\ stage' = "thrown"
  /\ UNCHANGED <<object, vals, data, ptr, n, arr, i, whole>>

WriteScalar ==
  /\ stage = "write" /\ n = 0
  /\ Len(vals) < Len(Fields(object))
  /\ ~ FatalErrors(object, Len(vals))
  /\ LET f == Fields(object)[Len(vals) + 1] IN Copied(BytesOf(f.v, f.w))
  /\ UNCHANGED <<object, stage, vals, data, ptr, whole>>

\* The loop of Endian, on the scalar in hand.
Loop == INSTANCE Endian
          WITH Bytes <- Byte, Sizes <- Nat, orig <- vals, wire <- data,
               stage <- IF stage = "write" THEN "send" ELSE "receive"

Swap ==
  /\ UNCHANGED <<object, stage, vals, data, ptr, whole>>
  /\ n > 0 /\ Loop!Swap

\* Mutant: messageType is appended instead of written to offset 0.
Written_Appended == data \o Looped

\* A scalar is appended, messageType goes to offset 0.
Written ==
  IF Len(vals) + 1 = Len(Fields(object)) THEN Looped \o SubSeq(data, n + 1, Len(data))
                                         ELSE data \o Looped

EndWrite ==
  /\ stage = "write" /\ n > 0 /\ i = n
  /\ data' = Written
  /\ vals' = Append(vals, Fields(object)[Len(vals) + 1].v)
  /\ n' = 0
  /\ UNCHANGED <<object, stage, ptr, arr, i, whole>>

\* The bytes arrive, or the first of them do.
Transmit ==
  /\ stage = "write" /\ n = 0
  /\ Len(vals) = Len(Fields(object))
  /\ \E k \in 0 .. Len(data) :
       data' = SubSeq(data, 1, k) /\ whole' = (k = Len(data))
  /\ vals' = <<>>
  /\ stage' = "read"
  /\ UNCHANGED <<object, ptr, n, arr, i>>

Reading == stage = "read" /\ n = 0 /\ ~ UnknownElemType(vals)

\* (In a vector mons::Serialize copies from a position of its own.  It is ptr as
\* long as the elements are there.)
ReadScalar ==
  /\ Reading /\ Width(vals) > 0
  /\ ptr + Width(vals) \leq Len(data)
  /\ Copied(SubSeq(data, ptr + 1, ptr + Width(vals)))
  /\ UNCHANGED <<object, stage, vals, data, ptr, whole>>

\* Mutant: deserializePtr is advanced before the check.
ReadNothing_Advances ==
  /\ Reading /\ Width(vals) > 0
  /\ ptr + Width(vals) > Len(data)
  /\ vals' = Append(vals, Default(vals))
  /\ ptr' = ptr + Width(vals)
  /\ UNCHANGED <<object, stage, data, n, arr, i, whole>>

\* "Size check": return.
ReadNothing ==
  /\ Reading /\ Width(vals) > 0
  /\ ptr + Width(vals) > Len(data)
  /\ vals' = Append(vals, Default(vals))
  /\ UNCHANGED <<object, stage, data, ptr, n, arr, i, whole>>

EndRead ==
  /\ stage = "read" /\ n > 0 /\ i = n
  /\ vals' = Append(vals, Value(Looped))
  /\ ptr' = ptr + n
  /\ n' = 0
  /\ UNCHANGED <<object, stage, data, arr, i, whole>>

\* StartRecieve propagates the message if all bytes have been used.
EndDeserialize ==
  /\ Reading /\ Width(vals) = 0
  /\ stage' = IF ptr = Len(data) THEN "accepted" ELSE "rejected"
  /\ UNCHANGED <<object, vals, data, ptr, n, arr, i, whole>>

\* GetTypeSize throws in the receiver thread.
Terminate ==
  /\ stage = "read" /\ n = 0 /\ UnknownElemType(vals)
  /\ stage' = "terminated"
  /\ UNCHANGED <<object, vals, data, ptr, n, arr, i, whole>>

Next == Throw \/ WriteScalar \/ Swap \/ EndWrite \/ Transmit \/ ReadScalar \/ ReadNothing
          \/ EndRead \/ EndDeserialize \/ Terminate

Spec == Init /\ [][Next]_vars

-----------------------------------------------------------------------------
(* What the handler gets.                                                  *)

\* DataAsType: the elements, each through the loop; none if the type is another.
DataAsType(b, elemType) ==
  LET size == ElemSize[elemType]
      chars == SubSeq(b, 3 + b[2], TensorLength(b))
  IN IF b[1] # elemType THEN <<>>
     ELSE [k \in 1 .. (Len(chars) \div size) |->
             Value(ToBigEndian(SubSeq(chars, (k - 1) * size + 1, k * size)))]

\* GetTensor, for a variable of the shape and type the sender has too.
GetTensor(b) ==
  IF b[2] # Len(object.dims) THEN [dims |-> <<>>, elems |-> <<>>]
  ELSE [dims |-> SubSeq(b, 3, 2 + b[2]), elems |-> DataAsType(b, object.elemType)]

-----------------------------------------------------------------------------
(* Properties.                                                             *)

TypeOK ==
  /\ object \in Objects
  /\ stage \in {"write", "read", "accepted", "rejected", "thrown", "terminated"}
  /\ vals \in Seq(Nat)
  /\ data \in Seq(Byte)
  /\ ptr \in 0 .. Len(data)
  /\ n \in Nat
  /\ n > 0 => i \in 0 .. n /\ arr \in [0 .. (n - 1) -> Byte]
  /\ whole \in BOOLEAN

Ended == stage \in {"accepted", "rejected", "terminated"}
IsTensor == TypeOf(vals[1]) \in TensorTypes /\ object.type \in TensorTypes

\* message_serialization_test.cpp:2-3: "the integrity a message is preserved after
\* serializing and deserializing".  A message that arrives whole is accepted, as
\* the type it was sent as; each scalar is the one that was written, and the
\* handler's tensor has the elements of the sender's.
RoundTrip ==
  whole /\ Ended =>
    LET f == Fields(object) IN
      /\ stage = "accepted"
      /\ vals = <<TypeNumber[object.type]>> \o [k \in 1 .. (Len(f) - 2) |-> f[k + 1].v]
      /\ object.type \in TensorTypes => GetTensor(Body(vals)).elems = object.elems

\* The scalars of a message in the order of the wire, messageType first.
Sent(o) ==
  LET f == Fields(o) IN [k \in 1 .. (Len(f) - 1) |-> IF k = 1 THEN f[Len(f)] ELSE f[k]]

BigEndian(v, w) == [k \in 1 .. w |-> (v \div Power[w - k]) % Base]

\* serialize.hpp:39: "Reverses `arr` if the system does not use big endian."  The
\* bytes of each scalar go out with the most significant one first.
WireIsBigEndian ==
  stage = "read" /\ whole =>
    LET f == Sent(object)
    IN data = Concat([k \in DOMAIN f |-> BigEndian(f[k].v, f[k].w)])

\* What the loop does instead: it swaps back in its second half what it swapped in
\* the first, and each scalar goes out as it is in memory.  (Proved, for every
\* message; the runs check WireIsBigEndian.)
WireIsNative ==
  stage = "read" /\ whole =>
    LET f == Sent(object)
    IN data = Concat([k \in DOMAIN f |-> BytesOf(f[k].v, f[k].w)])

\* Of a tensor that is cut anywhere, the handler gets one of the shape it had, or
\* one without elements: never the elements in another shape.
ShapeOrNothing ==
  stage = "accepted" /\ IsTensor =>
    LET t == GetTensor(Body(vals))
    IN Len(t.elems) > 0 => t.dims = object.dims

\* Armadillo reads as many elements as the shape says, from what DataAsType
\* returned: they are there, also if the tensor was cut.
TensorIsFilled ==
  stage = "accepted" /\ IsTensor =>
    LET t == GetTensor(Body(vals))
    IN t.dims # <<>> => Len(t.elems) = Product(t.dims)

\* A tensor whose shape does not fit into 32 bits is not sent, unless it is empty.
NarrowedIsNotSent ==
  stage # "write" /\ object.type \in TensorTypes /\ object.elems # <<>> =>
    \/ stage = "thrown"
    \/ \A k \in DOMAIN object.dims : object.dims[k] < Power[W32]
=============================================================================
