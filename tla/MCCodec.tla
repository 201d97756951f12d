------------------------------ MODULE MCCodec ------------------------------
(* Instances of Codec for TLC: bytes of two values, a type of one byte and *)
(* one of two.                                                             *)
EXTENDS Codec, TLC

Numbers ==
  LET names == <<"UpdatePredictors", "UpdateResponses", "UpdateWeights", "Shuffle",
                 "EvaluateWithGradient", "Gradient", "OperationStatus",
                 "UpdateFunction", "UpdateParameters", "ConnectInfo">>
  IN [t \in {names[k] : k \in DOMAIN names} |->
        (CHOOSE k \in DOMAIN names : names[k] = t) - 1]

Sizes == 0 :> 1 @@ 1 :> 2

Message(type) == [type |-> type, header |-> <<0, 1, 7, 2>>, elemType |-> 1,
                  dims |-> <<>>, elems |-> <<>>, archive |-> <<>>, tail |-> <<5, 9>>]

\* Shapes of one, two and three dimensions; an empty one; one that is too long
\* for 32 bits, and an empty one that is.
Messages == {
  [Message("UpdatePredictors") EXCEPT !.dims = <<1, 2, 1>>, !.elems = <<1, 2>>],
  [Message("UpdateResponses") EXCEPT !.dims = <<2, 1>>, !.elems = <<3, 1>>],
  [Message("UpdateWeights") EXCEPT !.dims = <<0, 0>>],
  [Message("UpdateParameters") EXCEPT !.dims = <<3>>, !.elems = <<1, 0, 1>>, !.elemType = 0],
  [Message("UpdateParameters") EXCEPT !.dims = <<16>>, !.elemType = 0,
                                      !.elems = [k \in 1 .. 16 |-> 1]],
  [Message("UpdatePredictors") EXCEPT !.dims = <<16, 0>>],
  [Message("Gradient") EXCEPT !.dims = <<2>>, !.elems = <<2, 3>>],
  [Message("EvaluateWithGradient") EXCEPT !.dims = <<2>>, !.elems = <<2, 1>>],
  Message("Shuffle"), Message("OperationStatus"), Message("ConnectInfo"),
  [Message("UpdateFunction") EXCEPT !.archive = <<1, 0, 1>>, !.dims = <<2, 5>>],
  [Message("UpdateFunction") EXCEPT !.dims = <<1, 1, 1, 1>>] }
=============================================================================
