----------------------------- MODULE BatchSplit -----------------------------
(***************************************************************************)
(* The loop of DistFunctionServer::EvaluateWithGradient that divides a      *)
(* batch among the connected clients: client i takes an even share of the  *)
(* columns that are left, rounded down, so the last one takes the rest.     *)
(* Training.tla uses its result (Chunk); here it is the loop itself.        *)
(***************************************************************************)
EXTENDS Integers

CONSTANTS Begins, BatchSizes, Connected  \* the arguments considered

ASSUME ArgumentsAssumption ==
  Begins \subseteq Nat /\ BatchSizes \subseteq Nat /\ Connected \subseteq Nat \ {0}

VARIABLES begin, batchSize, numConnected,  \* fixed during the call
          i, beginTemp,                    \* the loop's counters
          begins, nCols                    \* the vectors it fills

vars == <<begin, batchSize, numConnected, i, beginTemp, begins, nCols>>

Clients == 0 .. (numConnected - 1)

Init ==
  /\ begin \in Begins /\ batchSize \in BatchSizes /\ numConnected \in Connected
  /\ i = 0
  /\ beginTemp = begin
  /\ begins = [c \in Clients |-> 0]
  /\ nCols = [c \in Clients |-> 0]

\* Mutant: beginTemp is taken for a number of columns.
Left_Absolute == batchSize - beginTemp

\* Columns of the batch no client has been given yet.
Left == batchSize - (beginTemp - begin)

\* Mutants: equal shares; one client too many.
Share_Even == batchSize \div numConnected
Share_OffByOne == Left \div (numConnected - i + 1)

Share == Left \div (numConnected - i)

\* Mutant: a client's begin is computed from its own share.
Assign_Multiplied ==
  /\ i < numConnected
  /\ begins' = [begins EXCEPT ![i] = begin + i * Share]
  /\ nCols' = [nCols EXCEPT ![i] = Share]
  /\ beginTemp' = beginTemp + Share
  /\ i' = i + 1
  /\ UNCHANGED <<begin, batchSize, numConnected>>

Assign ==
  /\ i < numConnected
  /\ begins' = [begins EXCEPT ![i] = beginTemp]
  /\ nCols' = [nCols EXCEPT ![i] = Share]
  /\ beginTemp' = beginTemp + Share
  /\ i' = i + 1
  /\ UNCHANGED <<begin, batchSize, numConnected>>

\* The function returns and is called again with other arguments.
Again ==
  /\ i = numConnected
  /\ begin' \in Begins /\ batchSize' \in BatchSizes /\ numConnected' \in Connected
  /\ i' = 0
  /\ beginTemp' = begin'
  /\ begins' = [c \in 0 .. (numConnected' - 1) |-> 0]
  /\ nCols' = begins'

Next == Assign \/ Again
Spec == Init /\ [][Next]_vars

-----------------------------------------------------------------------------
TypeOK ==
  /\ begin \in Nat /\ batchSize \in Nat /\ numConnected \in Nat \ {0}
  /\ i \in 0..numConnected
  /\ beginTemp \in Nat
  /\ begins \in [Clients -> Nat] /\ nCols \in [Clients -> Nat]

Given == 0 .. (i - 1)

\* The batch is used up by one pass: the while loop around it runs once.
BatchUsedUp == i = numConnected => beginTemp = begin + batchSize

\* Each client's columns start where those of the client before it end, the
\* first at begin, and none goes past the batch.
ChunksAreAdjacent ==
  \A c \in Given :
    /\ begins[c] = IF c = 0 THEN begin ELSE begins[c - 1] + nCols[c - 1]
    /\ begins[c] + nCols[c] \leq begin + batchSize

\* No client gets more than one column more than another.
ChunksAreBalanced ==
  \A c \in Given : nCols[c] \in {batchSize \div numConnected, batchSize \div numConnected + 1}

\* A client is asked to evaluate no column at all only when there are fewer
\* columns than clients.
NoEmptyChunk ==
  batchSize \geq numConnected => \A c \in Given : nCols[c] > 0
=============================================================================
