----------------------------- MODULE MCTraining -----------------------------
(* Instances of Training for TLC. *)
EXTENDS Training

\* A batch all clients share unevenly, and one smaller than the clients.
TwoBatches == {[begin |-> 0, size |-> 3], [begin |-> 3, size |-> 1]}
OneBatch == {[begin |-> 0, size |-> 3]}

PredictorsResponses == <<"Predictors", "Responses">>
AllKinds == <<"Predictors", "Responses", "Weights">>
=============================================================================
