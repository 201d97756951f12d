-------------------------- MODULE BatchSplitProofs --------------------------
(***************************************************************************)
(* For every batch and every number of clients, the split of               *)
(* EvaluateWithGradient gives out the whole batch in adjacent chunks.       *)
(***************************************************************************)
EXTENDS BatchSplit, TLAPS

\* beginTemp stays inside the batch, is the end of the last chunk given out,
\* and has reached the end of the batch when all clients have been served.
LoopInv ==
  /\ beginTemp \in begin .. (begin + batchSize)
  /\ beginTemp = IF i = 0 THEN begin ELSE begins[i - 1] + nCols[i - 1]
  /\ BatchUsedUp

IInv == TypeOK /\ LoopInv /\ ChunksAreAdjacent

\* The share of the next client is at most what is left, and the last client
\* takes all of it.
LEMMA ShareBounds ==
  ASSUME NEW l \in Nat, NEW d \in Nat \ {0}
  PROVE  /\ l \div d \in 0..l
         /\ d = 1 => l \div d = l
OBVIOUS

\* Before the first share is given out everything is left.
LEMMA NothingGiven ==
  ASSUME NEW b \in Nat, NEW s \in Nat, NEW t, t = b
  PROVE  t \in b .. (b + s) /\ s - (t - b) = s
OBVIOUS

LEMMA Inductive == Spec => []IInv
<1>1. Init => IInv
  BY ArgumentsAssumption
     DEF Init, IInv, TypeOK, LoopInv, ChunksAreAdjacent, BatchUsedUp, Given, Clients
<1>2. IInv /\ [Next]_vars => IInv'
  <2> SUFFICES ASSUME IInv, [Next]_vars PROVE IInv'
    OBVIOUS
  <2>1. CASE Assign
    <3> DEFINE s == Share
    <3>1. Left \in Nat /\ Left = begin + batchSize - beginTemp
      BY DEF IInv, TypeOK, LoopInv, Left
    <3>2. numConnected - i \in Nat \ {0} /\ i \in Clients
      BY <2>1 DEF IInv, TypeOK, Assign, Clients
    <3>3. s \in 0..Left /\ (numConnected - i = 1 => s = Left)
      BY <3>1, <3>2, ShareBounds DEF Share
    <3> HIDE DEF s
    <3>4. /\ begins' = [begins EXCEPT ![i] = beginTemp]
          /\ nCols' = [nCols EXCEPT ![i] = s]
          /\ beginTemp' = beginTemp + s /\ i' = i + 1
          /\ UNCHANGED <<begin, batchSize, numConnected>>
      BY <2>1 DEF Assign, s
    <3>5. TypeOK'
      BY <3>1, <3>2, <3>3, <3>4 DEF IInv, TypeOK, Clients
    <3>6. LoopInv'
      <4>1. i' # 0 /\ i' - 1 = i /\ begins'[i] = beginTemp /\ nCols'[i] = s
        BY <3>2, <3>4 DEF IInv, TypeOK
      <4>2. beginTemp' \in begin .. (begin + batchSize)
        BY <3>1, <3>3, <3>4 DEF IInv, TypeOK, LoopInv
      <4>3. BatchUsedUp'
        <5> SUFFICES ASSUME i + 1 = numConnected
                     PROVE  beginTemp + s = begin + batchSize
          BY <3>4 DEF BatchUsedUp
        <5> QED BY <3>1, <3>2, <3>3 DEF IInv, TypeOK
      <4> QED BY <4>1, <4>2, <4>3, <3>4 DEF LoopInv
    <3>7. ChunksAreAdjacent'
      <4> SUFFICES ASSUME NEW c \in Given'
                   PROVE  /\ begins'[c] = IF c = 0 THEN begin
                                          ELSE begins'[c - 1] + nCols'[c - 1]
                          /\ begins'[c] + nCols'[c] \leq begin + batchSize
        BY <3>4 DEF ChunksAreAdjacent
      <4>1. CASE c = i
        <5>1. begins'[i] = beginTemp /\ nCols'[i] = s
          BY <3>2, <3>4 DEF IInv, TypeOK
        <5>2. i # 0 => /\ begins'[i - 1] = begins[i - 1]
                       /\ nCols'[i - 1] = nCols[i - 1]
          BY <3>2, <3>4 DEF IInv, TypeOK, Clients
        <5>3. beginTemp = IF i = 0 THEN begin ELSE begins[i - 1] + nCols[i - 1]
          BY DEF IInv, LoopInv
        <5>4. beginTemp + s \leq begin + batchSize
          BY <3>1, <3>3 DEF IInv, TypeOK
        <5> QED BY <4>1, <5>1, <5>2, <5>3, <5>4
      <4>2. CASE c # i
        <5>1. c \in Given /\ c \in Clients /\ (c # 0 => c - 1 \in Clients /\ c - 1 # i)
          BY <4>2, <3>2, <3>4 DEF Given, IInv, TypeOK, Clients
        <5>2. begins'[c] = begins[c] /\ nCols'[c] = nCols[c]
          BY <5>1, <4>2, <3>4 DEF IInv, TypeOK
        <5>3. c # 0 => begins'[c - 1] = begins[c - 1] /\ nCols'[c - 1] = nCols[c - 1]
          BY <5>1, <3>4 DEF IInv, TypeOK
        <5> QED BY <5>1, <5>2, <5>3 DEF ChunksAreAdjacent, IInv
      <4> QED BY <4>1, <4>2
    <3> QED BY <3>5, <3>6, <3>7 DEF IInv
  <2>2. CASE Again
    <3>1. /\ begin' \in Nat /\ batchSize' \in Nat /\ numConnected' \in Nat \ {0}
          /\ i' = 0 /\ beginTemp' = begin'
          /\ begins' = [c \in 0 .. (numConnected' - 1) |-> 0] /\ nCols' = begins'
      BY <2>2, ArgumentsAssumption DEF Again
    <3>2. TypeOK'
      BY <3>1 DEF TypeOK, Clients
    <3>3. LoopInv'
      <4>1. beginTemp' \in begin' .. (begin' + batchSize')
        BY <3>1, NothingGiven
      <4>2. BatchUsedUp'
        BY <3>1 DEF BatchUsedUp
      <4> QED BY <3>1, <4>1, <4>2 DEF LoopInv
    <3>4. ChunksAreAdjacent'
      BY <3>1 DEF ChunksAreAdjacent, Given
    <3> QED BY <3>2, <3>3, <3>4 DEF IInv
  <2>3. CASE UNCHANGED vars
    <3>1. TypeOK' /\ LoopInv'
      BY <2>3 DEF vars, IInv, TypeOK, LoopInv, BatchUsedUp, Clients
    <3>2. ChunksAreAdjacent'
      BY <2>3 DEF vars, IInv, ChunksAreAdjacent, Given
    <3> QED BY <3>1, <3>2 DEF IInv
  <2> QED BY <2>1, <2>2, <2>3 DEF Next
<1> QED BY <1>1, <1>2, PTL DEF Spec

\* The loop's index never passes the last client, so begins and nCols are written
\* only where they are, and no chunk has a negative number of columns.
THEOREM SplitTypeCorrect == Spec => []TypeOK
<1>1. IInv => TypeOK
  BY DEF IInv
<1> QED BY <1>1, Inductive, PTL

\* EvaluateWithGradient's outer loop runs once: one pass gives out the batch.
THEOREM BatchIsUsedUp == Spec => []BatchUsedUp
<1>1. IInv => BatchUsedUp
  BY DEF IInv, LoopInv
<1> QED BY <1>1, Inductive, PTL

\* The chunks are adjacent and stay inside the batch: with BatchUsedUp, each
\* column of the batch is in exactly one chunk.
THEOREM ChunksArePartition == Spec => []ChunksAreAdjacent
<1>1. IInv => ChunksAreAdjacent
  BY DEF IInv
<1> QED BY <1>1, Inductive, PTL

-----------------------------------------------------------------------------
(* Fairness of the split.                                                  *)

\* Dividing what is between d * q and d * (q + 1) by d gives q or q + 1 and
\* leaves between (d - 1) * q and (d - 1) * (q + 1).
LEMMA FairShare ==
  ASSUME NEW l \in Nat, NEW d \in Nat \ {0}, NEW q \in Nat,
         d * q \leq l, l \leq d * (q + 1)
  PROVE  /\ l \div d \in {q, q + 1}
         /\ (d - 1) * q \leq l - l \div d
         /\ l - l \div d \leq (d - 1) * (q + 1)
<1> DEFINE s == l \div d
           r == l % d
<1>1. s \in Nat /\ r \in 0 .. (d - 1) /\ l = d * s + r
  OBVIOUS
<1> HIDE DEF s, r
<1>2. s \geq q
  <2> SUFFICES ASSUME s \leq q - 1 PROVE FALSE
    BY <1>1
  <2>1. d * s \leq d * (q - 1)
    BY <1>1
  <2> QED BY <1>1, <2>1
<1>3. s \leq q + 1
  <2> SUFFICES ASSUME s \geq q + 2 PROVE FALSE
    BY <1>1
  <2>1. d * s \geq d * (q + 2)
    BY <1>1
  <2> QED BY <1>1, <2>1
<1>4. CASE s = q
  BY <1>1, <1>4 DEF s
<1>5. CASE s = q + 1
  BY <1>1, <1>5 DEF s
<1> QED BY <1>1, <1>2, <1>3, <1>4, <1>5

\* What is left is always an even share, rounded down or up, for each client
\* that has not been served.
EvenlyLeft ==
  /\ (numConnected - i) * (batchSize \div numConnected) \leq Left
  /\ Left \leq (numConnected - i) * (batchSize \div numConnected + 1)

LEMMA BalanceInductive == Spec => [](EvenlyLeft /\ ChunksAreBalanced)
<1> DEFINE Inv == EvenlyLeft /\ ChunksAreBalanced
<1>1. Init => Inv
  <2> SUFFICES ASSUME Init PROVE Inv
    OBVIOUS
  <2>1. batchSize \in Nat /\ numConnected \in Nat \ {0} /\ begin \in Nat
    BY ArgumentsAssumption DEF Init
  <2>2. Left = batchSize /\ i = 0
    BY <2>1 DEF Init, Left
  <2>3. EvenlyLeft
    BY <2>1, <2>2 DEF EvenlyLeft
  <2> QED BY <2>2, <2>3 DEF ChunksAreBalanced, Given
<1>2. IInv /\ IInv' /\ Inv /\ [Next]_vars => Inv'
  <2> SUFFICES ASSUME IInv, IInv', Inv, [Next]_vars PROVE Inv'
    OBVIOUS
  <2>1. CASE Assign
    <3> DEFINE d == numConnected - i
               q == batchSize \div numConnected
    <3>1. Left \in Nat /\ d \in Nat \ {0} /\ q \in Nat
      BY <2>1 DEF IInv, TypeOK, LoopInv, Left, Assign
    <3>2. d * q \leq Left /\ Left \leq d * (q + 1)
      BY DEF EvenlyLeft
    <3>3. /\ Share \in {q, q + 1}
          /\ (d - 1) * q \leq Left - Share
          /\ Left - Share \leq (d - 1) * (q + 1)
      <4> HIDE DEF d, q
      <4>1. Share = Left \div d
        BY DEF Share, d
      <4> QED BY <3>1, <3>2, <4>1, FairShare
    <3>4. Left' = Left - Share /\ numConnected' - i' = d - 1 /\ (batchSize \div numConnected)' = q
      <4>1. Share \in Nat
        BY <3>1, <3>3
      <4> QED BY <2>1, <4>1 DEF Assign, Left, IInv, TypeOK
    <3>5. EvenlyLeft'
      BY <3>3, <3>4 DEF EvenlyLeft
    <3>6. ChunksAreBalanced'
      <4> SUFFICES ASSUME NEW c \in Given' PROVE nCols'[c] \in {q, q + 1}
        BY <3>4 DEF ChunksAreBalanced
      <4>1. nCols' = [nCols EXCEPT ![i] = Share] /\ i \in Clients
        BY <2>1 DEF Assign, IInv, TypeOK, Clients
      <4>2. CASE c = i
        BY <4>1, <4>2, <3>3 DEF IInv, TypeOK
      <4>3. CASE c # i
        <5>1. c \in Given /\ c \in Clients
          BY <4>3, <2>1 DEF Given, Assign, IInv, TypeOK, Clients
        <5> QED BY <5>1, <4>1, <4>3 DEF ChunksAreBalanced, IInv, TypeOK
      <4> QED BY <4>2, <4>3
    <3> QED BY <3>5, <3>6
  <2>2. CASE Again
    <3>1. batchSize' \in Nat /\ numConnected' \in Nat \ {0} /\ begin' \in Nat
      BY DEF IInv, TypeOK
    <3>2. Left' = batchSize' /\ i' = 0
      <4>1. beginTemp' = begin' /\ i' = 0
        BY <2>2 DEF Again
      <4>2. Left' = batchSize' - (beginTemp' - begin')
        BY DEF Left
      <4> QED BY <3>1, <4>1, <4>2, NothingGiven
    <3>3. EvenlyLeft'
      BY <3>1, <3>2 DEF EvenlyLeft
    <3> QED BY <3>2, <3>3 DEF ChunksAreBalanced, Given
  <2>3. CASE UNCHANGED vars
    BY <2>3 DEF vars, EvenlyLeft, Left, ChunksAreBalanced, Given
  <2> QED BY <2>1, <2>2, <2>3 DEF Next
<1>3. Spec => []IInv
  BY Inductive
<1> QED BY <1>1, <1>2, <1>3, PTL DEF Spec

\* No client is given more than one column more than another.
THEOREM BatchIsBalanced == Spec => []ChunksAreBalanced
BY BalanceInductive, PTL

\* With at least as many columns as clients nobody is sent an empty range.
THEOREM NobodyIsIdle == Spec => []NoEmptyChunk
<1>1. IInv /\ ChunksAreBalanced => NoEmptyChunk
  <2> SUFFICES ASSUME IInv, ChunksAreBalanced, batchSize \geq numConnected, NEW c \in Given
               PROVE  nCols[c] > 0
    BY DEF NoEmptyChunk
  <2>1. batchSize \in Nat /\ numConnected \in Nat \ {0}
    BY DEF IInv, TypeOK
  <2>2. batchSize \div numConnected \geq 1
    BY <2>1
  <2> QED BY <2>1, <2>2 DEF ChunksAreBalanced
<1> QED BY <1>1, Inductive, BalanceInductive, PTL
=============================================================================
