--------------------------- MODULE TrainingProofs ---------------------------
(***************************************************************************)
(* Theorems about distributed training, for any number of clients, any data *)
(* sets and batches, and any number of Trains, evaluations and shuffles.    *)
(* A batch is divided among the clients without a gap or an overlap, the    *)
(* phases of the server do not overlap, and so every column of a batch is   *)
(* counted once, whatever client starts late or fails.  If all clients are  *)
(* there from the beginning, what is counted was also computed on the       *)
(* current model, and on data in the same order.                            *)
(***************************************************************************)
EXTENDS Training, FiniteSetTheorems, SequenceTheorems, TLAPS

-----------------------------------------------------------------------------
(* The shares of a batch.                                                  *)

\* Every set of numbers has a least element: the library's well-foundedness of
\* the order, as it is used below.
LEMMA LeastElement ==
  ASSUME NEW S, S \subseteq Nat, S # {}
  PROVE  \E x \in S : \A y \in S : x \leq y
<1> DEFINE Less == OpToRel(<, Nat)
<1>1. \A x, y \in Nat : <<x, y>> \in Less <=> x < y
  BY DEF OpToRel
<1>2. IsWellFoundedOn(Less, Nat)
  BY NatLessThanWellFounded
<1> HIDE DEF Less
<1>3. PICK x \in S : \A y \in S : ~ (<<y, x>> \in Less)
  BY <1>2, WFMin
<1>4. ASSUME NEW y \in S PROVE x \leq y
  <2>1. ~ (y < x)
    BY <1>1, <1>3, Zenon
  <2> QED BY <2>1
<1> QED BY <1>4

\* f[k] columns are left when k of n clients have their share of size columns.
IsSplit(f, size, n) ==
  f = [k \in 0 .. n |-> IF k = 0 THEN size
                        ELSE f[k - 1] - f[k - 1] \div (n - (k - 1))]

\* A share is at most what is left, and the last client takes all of it.
LEMMA ShareIsLess ==
  ASSUME NEW l \in Nat, NEW d \in Nat \ {0}
  PROVE  l - l \div d \in 0 .. l /\ (d = 1 => l - l \div d = 0)
OBVIOUS

\* The recursion defines a function: there is one for the first m clients for
\* every m, since there is no least m without one.
LEMMA SplitExists ==
  ASSUME NEW size, NEW n \in Nat
  PROVE  \E f : IsSplit(f, size, n)
<1> DEFINE Partial(f, m) ==
             /\ f = [k \in 0 .. m |-> f[k]]
             /\ \A k \in 0 .. m : f[k] = IF k = 0 THEN size
                                         ELSE f[k - 1] - f[k - 1] \div (n - (k - 1))
           Without == {m \in Nat : ~ \E f : Partial(f, m)}
<1>1. Without = {}
  <2> SUFFICES ASSUME Without # {} PROVE FALSE
    OBVIOUS
  <2>1. PICK m \in Without : \A j \in Without : m \leq j
    BY LeastElement
  <2>2. m \in Nat /\ ~ \E f : Partial(f, m)
    OBVIOUS
  <2>3. CASE m = 0
    <3> DEFINE g == [k \in 0 .. 0 |-> size]
    <3>1. 0 .. 0 = {0}
      OBVIOUS
    <3>2. Partial(g, 0)
      BY <3>1
    <3> QED BY <2>2, <2>3, <3>2
  <2>4. CASE m # 0
    <3>1. m - 1 \in Nat /\ m - 1 \notin Without
      BY <2>1, <2>2, <2>4
    <3>2. PICK f : Partial(f, m - 1)
      BY <3>1
    <3> DEFINE g == [k \in 0 .. m |-> IF k = m THEN f[m - 1] - f[m - 1] \div (n - (m - 1))
                                               ELSE f[k]]
    <3>3. \A k \in 0 .. m : k = m \/ k \in 0 .. (m - 1)
      BY <2>2
    <3>4. ASSUME NEW k \in 0 .. m
          PROVE  g[k] = IF k = 0 THEN size ELSE g[k - 1] - g[k - 1] \div (n - (k - 1))
      <4>1. k # 0 => k - 1 \in 0 .. m /\ k - 1 # m /\ g[k - 1] = f[k - 1]
        BY <2>2
      <4>2. CASE k = m
        BY <2>4, <4>1, <4>2
      <4>3. CASE k # m
        <5>1. k \in 0 .. (m - 1) /\ g[k] = f[k]
          BY <3>3, <4>3
        <5> QED BY <3>2, <4>1, <5>1
      <4> QED BY <4>2, <4>3
    <3>5. g = [k \in 0 .. m |-> g[k]]
      OBVIOUS
    <3> HIDE DEF g
    <3>6. Partial(g, m)
      BY <3>4, <3>5
    <3> QED BY <2>2, <3>6
  <2> QED BY <2>3, <2>4
<1>2. PICK f : Partial(f, n)
  BY <1>1
<1> DEFINE h == [k \in 0 .. n |-> IF k = 0 THEN size
                                  ELSE f[k - 1] - f[k - 1] \div (n - (k - 1))]
<1>3. h = [k \in 0 .. n |-> f[k]]
  BY <1>2
<1>4. f = h
  BY <1>2, <1>3
<1> QED BY <1>4 DEF IsSplit

LEMMA ColumnsLeftIsSplit ==
  ASSUME NEW size, NEW n \in Nat
  PROVE  IsSplit(ColumnsLeft(size, n), size, n)
<1>1. ColumnsLeft(size, n) = CHOOSE f : IsSplit(f, size, n)
  BY DEF ColumnsLeft, IsSplit
<1> QED BY <1>1, SplitExists

\* What is left never grows, and nothing is left in the end.
LEMMA SplitFacts ==
  ASSUME NEW f, NEW size \in Nat, NEW n \in Nat, IsSplit(f, size, n)
  PROVE  /\ f[0] = size /\ \A k \in 0 .. n : f[k] \in Nat
         /\ \A j, k \in 0 .. n : j \leq k => f[k] \leq f[j]
         /\ n > 0 => f[n] = 0
<1>1. /\ 0 \in 0 .. n /\ f[0] = size
      /\ \A k \in 1 .. n : f[k] = f[k - 1] - f[k - 1] \div (n - (k - 1))
  <2>1. \A k \in 0 .. n : f[k] = IF k = 0 THEN size
                                 ELSE f[k - 1] - f[k - 1] \div (n - (k - 1))
    BY DEF IsSplit
  <2>2. 0 \in 0 .. n /\ \A k \in 1 .. n : k \in 0 .. n /\ k # 0
    OBVIOUS
  <2> QED BY <2>1, <2>2
<1> DEFINE Wrong == {k \in 0 .. n : f[k] \notin Nat}
<1>2. Wrong = {}
  <2> SUFFICES ASSUME Wrong # {} PROVE FALSE
    OBVIOUS
  <2>0. Wrong \subseteq Nat
    OBVIOUS
  <2> HIDE DEF Wrong
  <2>1. PICK k \in Wrong : \A j \in Wrong : k \leq j
    BY <2>0, LeastElement
  <2>2. k \in 0 .. n /\ f[k] \notin Nat /\ k # 0
    BY <1>1 DEF Wrong
  <2>3. k \in 1 .. n /\ k - 1 \in 0 .. n /\ k - 1 \notin Wrong /\ n - (k - 1) \in Nat \ {0}
    BY <2>1, <2>2
  <2>4. f[k - 1] \in Nat
    BY <2>3 DEF Wrong
  <2>5. f[k] = f[k - 1] - f[k - 1] \div (n - (k - 1))
    BY <1>1, <2>3
  <2> DEFINE l == f[k - 1]
             d == n - (k - 1)
  <2>6. l \in Nat /\ d \in Nat \ {0} /\ f[k] = l - l \div d
    BY <2>3, <2>4, <2>5
  <2> HIDE DEF l, d
  <2>7. f[k] \in 0 .. l
    BY <2>6, ShareIsLess
  <2> QED BY <2>2, <2>6, <2>7
<1>3. \A k \in 0 .. n : f[k] \in Nat
  BY <1>2
<1>4. ASSUME NEW k \in 1 .. n
      PROVE  f[k] \leq f[k - 1] /\ (k = n => f[k] = 0)
  <2>1. k - 1 \in 0 .. n /\ n - (k - 1) \in Nat \ {0} /\ (k = n => n - (k - 1) = 1)
    OBVIOUS
  <2>2. f[k - 1] \in Nat /\ f[k] = f[k - 1] - f[k - 1] \div (n - (k - 1))
    BY <1>1, <1>3, <2>1
  <2> DEFINE l == f[k - 1]
             d == n - (k - 1)
  <2>3. l \in Nat /\ d \in Nat \ {0} /\ f[k] = l - l \div d /\ (k = n => d = 1)
    BY <2>1, <2>2
  <2> HIDE DEF l, d
  <2>4. f[k] \in 0 .. l /\ (k = n => f[k] = 0)
    BY <2>3, ShareIsLess
  <2> QED BY <2>3, <2>4 DEF l
<1>5. ASSUME NEW j \in 0 .. n PROVE \A k \in 0 .. n : j \leq k => f[k] \leq f[j]
  <2> DEFINE More == {k \in j .. n : ~ (f[k] \leq f[j])}
  <2>1. More = {}
    <3> SUFFICES ASSUME More # {} PROVE FALSE
      OBVIOUS
    <3>0. More \subseteq Nat
      OBVIOUS
    <3> HIDE DEF More
    <3>1. PICK k \in More : \A i \in More : k \leq i
      BY <3>0, LeastElement
    <3>2. k \in j .. n /\ ~ (f[k] \leq f[j])
      BY DEF More
    <3>3. k # j /\ f[j] \in Nat /\ f[k] \in Nat
      BY <1>3, <3>2
    <3>4. k \in 1 .. n /\ k - 1 \in j .. n /\ k - 1 \notin More /\ k - 1 \in 0 .. n
      BY <3>1, <3>2, <3>3
    <3>5. f[k - 1] \leq f[j] /\ f[k] \leq f[k - 1] /\ f[k - 1] \in Nat
      BY <1>3, <1>4, <3>4 DEF More
    <3> QED BY <3>2, <3>3, <3>5
  <2> QED BY <2>1
<1> QED BY <1>1, <1>3, <1>4, <1>5

\* The rank of a client among the connected ones.
Rank(S, c) == Cardinality({d \in S : d < c})

\* Ranks are the numbers from 0 to n - 1, each of one client.
LEMMA RanksNumberClients ==
  ASSUME NEW S, S \subseteq Nat, IsFiniteSet(S)
  PROVE  LET n == Cardinality(S) IN
         /\ n \in Nat /\ (S # {} => n > 0)
         /\ \A c \in S : Rank(S, c) \in 0 .. (n - 1)
         /\ \A c, d \in S : Rank(S, c) = Rank(S, d) => c = d
         /\ \A r \in 0 .. (n - 1) : \E c \in S : Rank(S, c) = r
<1> DEFINE n == Cardinality(S)
           Below(c) == {d \in S : d < c}
<1>1. n \in Nat /\ (S # {} => n > 0)
  BY FS_CardinalityType, FS_EmptySet
<1>2. \A c \in S : IsFiniteSet(Below(c)) /\ Rank(S, c) \in Nat
  <2> SUFFICES ASSUME NEW c \in S PROVE IsFiniteSet(Below(c)) /\ Rank(S, c) \in Nat
    OBVIOUS
  <2>1. Below(c) \in SUBSET S
    OBVIOUS
  <2>2. IsFiniteSet(Below(c))
    BY <2>1, FS_Subset
  <2> QED BY <2>2, FS_CardinalityType DEF Rank
<1>3. ASSUME NEW c \in S PROVE Rank(S, c) \in 0 .. (n - 1)
  <2>1. Below(c) \in SUBSET S /\ Below(c) # S
    OBVIOUS
  <2>2. Cardinality(Below(c)) \leq n /\ Cardinality(Below(c)) # n
    BY <2>1, FS_Subset
  <2>3. Rank(S, c) = Cardinality(Below(c)) /\ Rank(S, c) \in Nat
    BY <1>2 DEF Rank
  <2> HIDE DEF n, Below
  <2> QED BY <1>1, <2>2, <2>3
<1>4. ASSUME NEW c \in S, NEW d \in S, c < d PROVE Rank(S, c) # Rank(S, d)
  <2>0. ~ (c < c) /\ \A e \in S : e < c => e < d
    BY <1>4
  <2>1. Below(c) \in SUBSET Below(d) /\ c \in Below(d) /\ c \notin Below(c)
    BY <1>4, <2>0
  <2>2. IsFiniteSet(Below(d))
    BY <1>2
  <2>3. Cardinality(Below(d)) = Cardinality(Below(c)) => Below(d) = Below(c)
    BY <2>1, <2>2, FS_Subset
  <2> QED BY <2>1, <2>3 DEF Rank
<1>5. \A c, d \in S : Rank(S, c) = Rank(S, d) => c = d
  <2> SUFFICES ASSUME NEW c \in S, NEW d \in S, c # d PROVE Rank(S, c) # Rank(S, d)
    OBVIOUS
  <2>1. c < d \/ d < c
    OBVIOUS
  <2> QED BY <1>4, <2>1
<1>6. \A r \in 0 .. (n - 1) : \E c \in S : Rank(S, c) = r
  <2> DEFINE rank == [c \in S |-> Rank(S, c)]
             T == 0 .. (n - 1)
  <2>1. rank \in Injection(S, T)
    BY <1>3, <1>5 DEF Injection, IsInjective
  <2>2. IsFiniteSet(T) /\ Cardinality(T) = n
    <3>1. /\ IsFiniteSet(0 .. (n - 1))
          /\ Cardinality(0 .. (n - 1)) = IF 0 > n - 1 THEN 0 ELSE (n - 1) - 0 + 1
      BY <1>1, FS_Interval, SMTT(60)
    <3> QED BY <1>1, <3>1
  <2>3. rank \in Surjection(S, T)
    <3> HIDE DEF rank, T
    <3> QED BY <2>1, <2>2, FS_Injection
  <2> QED BY <2>3 DEF Surjection
<1> QED BY <1>1, <1>3, <1>5, <1>6

\* The columns that a client is asked to evaluate.
ChunkColumns(c) == Chunk(c).begin .. (Chunk(c).begin + Chunk(c).cols - 1)

\* The chunks lie in the batch, do not overlap, and leave no column out.
LEMMA ChunksDivideTheBatch ==
  ASSUME connectedClients \subseteq Clients, batch \in [begin : Nat, size : Nat]
  PROVE  /\ \A c \in connectedClients : Chunk(c) \in [begin : Nat, cols : Nat]
         /\ \A c, d \in connectedClients, k \in Nat :
              k \in ChunkColumns(c) /\ k \in ChunkColumns(d) => c = d
         /\ connectedClients # {} => \A k \in Nat :
              k \in BatchColumns <=> \E c \in connectedClients : k \in ChunkColumns(c)
<1> DEFINE S == connectedClients
           n == Cardinality(S)
           B == batch.size
           b == batch.begin
           f == ColumnsLeft(B, n)
<1>1. S \subseteq Nat /\ IsFiniteSet(S) /\ B \in Nat /\ b \in Nat
  <2>1. S \in SUBSET Clients /\ IsFiniteSet(Clients) /\ Clients \subseteq Nat
    BY ClientsAssumption
  <2> QED BY <2>1, FS_Subset
<1>2. /\ n \in Nat /\ (S # {} => n > 0)
      /\ \A c \in S : Rank(S, c) \in 0 .. (n - 1)
      /\ \A c, d \in S : Rank(S, c) = Rank(S, d) => c = d
      /\ \A r \in 0 .. (n - 1) : \E c \in S : Rank(S, c) = r
  BY <1>1, RanksNumberClients
<1>3. /\ f[0] = B /\ \A k \in 0 .. n : f[k] \in Nat
      /\ \A j, k \in 0 .. n : j \leq k => f[k] \leq f[j]
      /\ n > 0 => f[n] = 0
  <2> HIDE DEF B, n
  <2>1. IsSplit(f, B, n)
    BY <1>1, <1>2, ColumnsLeftIsSplit
  <2> HIDE DEF f
  <2> QED BY <1>1, <1>2, <2>1, SplitFacts
<1>4. ASSUME NEW c \in S
      PROVE  Chunk(c) = [begin |-> b + (B - f[Rank(S, c)]),
                         cols |-> f[Rank(S, c)] - f[Rank(S, c) + 1]]
  BY DEF Chunk, Rank
<1> HIDE DEF S, n, B, b, f
<1>5. \A r \in 0 .. (n - 1) : /\ r \in 0 .. n /\ r + 1 \in 0 .. n
                              /\ f[r] \in Nat /\ f[r + 1] \in Nat
                              /\ f[r + 1] \leq f[r] /\ f[r] \leq B
  <2> SUFFICES ASSUME NEW r \in 0 .. (n - 1)
               PROVE  /\ r \in 0 .. n /\ r + 1 \in 0 .. n
                      /\ f[r] \in Nat /\ f[r + 1] \in Nat
                      /\ f[r + 1] \leq f[r] /\ f[r] \leq B
    OBVIOUS
  <2>1. r \in 0 .. n /\ r + 1 \in 0 .. n /\ 0 \in 0 .. n /\ r \leq r + 1 /\ 0 \leq r
    BY <1>2
  <2> QED BY <1>3, <2>1
<1>6. \A c \in S : Chunk(c) \in [begin : Nat, cols : Nat]
  <2> SUFFICES ASSUME NEW c \in S
               PROVE  b + (B - f[Rank(S, c)]) \in Nat /\ f[Rank(S, c)] - f[Rank(S, c) + 1] \in Nat
    BY <1>4
  <2> DEFINE r == Rank(S, c)
  <2>1. f[r] \in Nat /\ f[r + 1] \in Nat /\ f[r + 1] \leq f[r] /\ f[r] \leq B
    BY <1>2, <1>5
  <2> HIDE DEF r
  <2>2. b + (B - f[r]) \in Nat /\ f[r] - f[r + 1] \in Nat
    BY <1>1, <2>1
  <2> QED BY <2>2 DEF r
\* A column of a chunk, counted from the beginning of the batch.
<1>7. ASSUME NEW c \in S, NEW k \in Nat
      PROVE  k \in ChunkColumns(c) <=>
               B - f[Rank(S, c)] \leq k - b /\ k - b < B - f[Rank(S, c) + 1]
  <2> DEFINE r == Rank(S, c)
  <2>1. f[r] \in Nat /\ f[r + 1] \in Nat
    BY <1>2, <1>5
  <2>2. Chunk(c).begin = b + (B - f[r]) /\ Chunk(c).cols = f[r] - f[r + 1]
    BY <1>4
  <2> HIDE DEF r
  <2>3. (b + (B - f[r])) + (f[r] - f[r + 1]) - 1 = b + (B - f[r + 1]) - 1
    BY <1>1, <2>1
  <2>4. k \in ChunkColumns(c) <=> k \in (b + (B - f[r])) .. (b + (B - f[r + 1]) - 1)
    BY <2>2, <2>3 DEF ChunkColumns
  <2>5. k \in (b + (B - f[r])) .. (b + (B - f[r + 1]) - 1) <=>
          B - f[r] \leq k - b /\ k - b < B - f[r + 1]
    BY <1>1, <2>1
  <2> QED BY <2>4, <2>5 DEF r
<1>8. ASSUME NEW c \in S, NEW d \in S, NEW k \in Nat, Rank(S, c) < Rank(S, d),
             k \in ChunkColumns(c), k \in ChunkColumns(d)
      PROVE  FALSE
  <2> DEFINE r == Rank(S, c)
             q == Rank(S, d)
  <2>1. r \in 0 .. (n - 1) /\ q \in 0 .. (n - 1) /\ r < q
    BY <1>2, <1>8
  <2>2. k - b < B - f[r + 1] /\ B - f[q] \leq k - b
    BY <1>7, <1>8
  <2> HIDE DEF r, q
  <2>3. f[r + 1] \in Nat /\ f[q] \in Nat /\ r + 1 \in 0 .. n /\ q \in 0 .. n /\ r + 1 \leq q
    BY <1>2, <1>5, <2>1
  <2>4. f[q] \leq f[r + 1]
    BY <1>3, <2>3
  <2> QED BY <1>1, <2>2, <2>3, <2>4
<1>9. ASSUME NEW c \in S, NEW d \in S, NEW k \in Nat,
             k \in ChunkColumns(c), k \in ChunkColumns(d)
      PROVE  c = d
  <2>1. Rank(S, c) \in Int /\ Rank(S, d) \in Int
    BY <1>2
  <2>2. Rank(S, c) < Rank(S, d) \/ Rank(S, d) < Rank(S, c) \/ Rank(S, c) = Rank(S, d)
    BY <2>1
  <2>3. Rank(S, c) = Rank(S, d)
    BY <1>8, <1>9, <2>2
  <2> QED BY <1>2, <2>3
<1>10. \A k \in Nat : k \in BatchColumns <=> 0 \leq k - b /\ k - b < B
  BY <1>1 DEF BatchColumns, b, B
<1>11. ASSUME NEW c \in S, NEW k \in Nat, k \in ChunkColumns(c)
       PROVE  k \in BatchColumns
  <2> DEFINE r == Rank(S, c)
  <2>1. f[r] \in Nat /\ f[r + 1] \in Nat /\ f[r] \leq B
    BY <1>2, <1>5
  <2>2. B - f[r] \leq k - b /\ k - b < B - f[r + 1]
    BY <1>7, <1>11
  <2> HIDE DEF r
  <2>3. 0 \leq k - b /\ k - b < B
    BY <1>1, <2>1, <2>2
  <2> QED BY <1>10, <2>3
<1>12. ASSUME S # {}, NEW k \in Nat, k \in BatchColumns
       PROVE  \E c \in S : k \in ChunkColumns(c)
  <2> DEFINE T == {j \in 0 .. n : k - b < B - f[j]}
  <2>1. 0 \leq k - b /\ k - b < B /\ n > 0 /\ n \in 0 .. n /\ f[n] = 0 /\ k - b \in Int
    BY <1>1, <1>2, <1>3, <1>10, <1>12
  <2>2. T \subseteq Nat /\ n \in T
    BY <1>1, <2>1
  <2> HIDE DEF T
  <2>3. PICK j \in T : \A i \in T : j \leq i
    BY <2>2, LeastElement
  <2>4. j \in 0 .. n /\ k - b < B - f[j]
    BY DEF T
  <2>5. j # 0
    BY <1>1, <1>3, <2>1, <2>4
  <2>6. j - 1 \in 0 .. (n - 1) /\ j - 1 \in 0 .. n /\ j - 1 \notin T /\ (j - 1) + 1 = j
    BY <2>1, <2>3, <2>4, <2>5
  <2>7. B - f[j - 1] \leq k - b
    <3>1. ~ (k - b < B - f[j - 1]) /\ f[j - 1] \in Nat
      BY <1>3, <2>6 DEF T
    <3> QED BY <1>1, <2>1, <3>1
  <2>8. PICK c \in S : Rank(S, c) = j - 1
    BY <1>2, <2>6
  <2> QED BY <1>7, <2>4, <2>6, <2>7, <2>8
<1> QED BY <1>6, <1>9, <1>11, <1>12 DEF S

-----------------------------------------------------------------------------
(* The inductive invariant.                                                *)

\* The calls of the phase the server's main thread is in.
CallsOf(p) == CASE p = "function" -> {"Function"}
                [] p = "data"     -> Kinds
                [] p = "shuffle"  -> {"Shuffle"}
                [] p = "gather"   -> {"Evaluate"}
                [] p = "stepping" -> {"Parameters"}
                [] OTHER          -> {}

\* The workers make the calls of the phase, and one each to gather a batch.
PhaseWork ==
  \A c \in Clients :
    /\ \A k \in DOMAIN work[c] : work[c][k] \in CallsOf(pc)
    /\ pc = "gather" /\ work[c] # <<>> => c \in connectedClients /\ Len(work[c]) = 1

\* Of what a client is sent, only the last message may wait for an answer, and
\* then it is the call its worker is in and no answer is there yet.
Exchange ==
  \A c \in Clients :
    /\ c \in waiting => work[c] # <<>> /\ Head(work[c]) # "Shuffle"
    /\ fromClient[c] # <<>> => c \in waiting /\ Len(fromClient[c]) = 1
    /\ \A k \in DOMAIN toClient[c] : toClient[c][k].type # "Shuffle" =>
         /\ k = Len(toClient[c]) /\ c \in waiting /\ fromClient[c] = <<>>
         /\ toClient[c][k].type = Head(work[c])

\* While a batch is gathered, requests and answers carry the chunk of their
\* client, and the columns counted are those of the clients that have answered.
Answered == {c \in connectedClients : work[c] = <<>>}
ChunksTravel ==
  \A c \in Clients :
    /\ \A k \in DOMAIN toClient[c] :
         toClient[c][k].type = "Evaluate" => toClient[c][k].chunk = Chunk(c)
    /\ \A k \in DOMAIN fromClient[c] :
         /\ fromClient[c][k].type = "Gradient"
         /\ fromClient[c][k].begin = Chunk(c).begin /\ fromClient[c][k].cols = Chunk(c).cols
AnsweredAreCounted ==
  \A k \in Columns :
    counted[k] = IF \E c \in Answered : k \in ChunkColumns(c) THEN 1 ELSE 0
Gathering ==
  /\ pc = "evaluate" => \A k \in Columns : counted[k] = 0
  /\ pc = "gather" => connectedClients # {} /\ ChunksTravel /\ AnsweredAreCounted
  /\ BatchCountedOnce

IInv == TypeOK /\ PhaseWork /\ Exchange /\ Gathering

-----------------------------------------------------------------------------
(* What messages and queues are.                                           *)

LEMMA CallsAre ==
  Calls = {"Predictors", "Responses", "Weights", "Function", "Parameters", "Shuffle",
           "Evaluate"}
<1>1. DOMAIN HandlerOrder = 1 .. 7 /\ Len(HandlerOrder) = 7
  BY DEF HandlerOrder
<1>2. /\ HandlerOrder[1] = "Predictors" /\ HandlerOrder[2] = "Responses"
      /\ HandlerOrder[3] = "Weights" /\ HandlerOrder[4] = "Function"
      /\ HandlerOrder[5] = "Parameters" /\ HandlerOrder[6] = "Shuffle"
      /\ HandlerOrder[7] = "Evaluate"
  BY DEF HandlerOrder
<1>3. \A k : k \in 1 .. 7 <=> k \in {1, 2, 3, 4, 5, 6, 7}
  OBVIOUS
<1> QED BY <1>1, <1>2, <1>3 DEF Calls

LEMMA RequestFacts ==
  ASSUME NEW m \in Request
  PROVE  /\ m.type \in Calls
         /\ m.type = "Function" => m.train \in Nat /\ m.params \in Nat
         /\ m.type \in Kinds => m.train \in Nat
         /\ m.type = "Parameters" => m.params \in Nat
         /\ m.type = "Evaluate" => m.chunk \in [begin : Nat, cols : Nat]
BY CallsAre DEF Request, Kinds

LEMMA AnswerFacts ==
  ASSUME NEW m \in Answer
  PROVE  m.type = "Gradient" => m.begin \in Nat /\ m.cols \in Nat /\ m.on \in Basis
BY DEF Answer

\* The message of a call has the type of the call, and the data of the server.
LEMMA MessageFacts ==
  ASSUME NEW c, NEW type \in Calls, train \in Nat, params \in Nat,
         type = "Evaluate" => Chunk(c) \in [begin : Nat, cols : Nat]
  PROVE  /\ Message(c, type) \in Request /\ Message(c, type).type = type
         /\ type = "Evaluate" => Message(c, type).chunk = Chunk(c)
         /\ type \in {"Function"} \cup Kinds => Message(c, type).train = train
         /\ type \in {"Function", "Parameters"} => Message(c, type).params = params
<1>1. CASE type = "Function"
  <2>1. Message(c, type) = [type |-> type, train |-> train, params |-> params]
    BY <1>1 DEF Message, Kinds
  <2> QED BY <1>1, <2>1 DEF Request, Kinds
<1>2. CASE type \in Kinds
  <2>1. Message(c, type) = [type |-> type, train |-> train]
    BY <1>2 DEF Message, Kinds
  <2> QED BY <1>2, <2>1 DEF Request, Kinds
<1>3. CASE type = "Parameters"
  <2>1. Message(c, type) = [type |-> type, params |-> params]
    BY <1>3 DEF Message, Kinds
  <2> QED BY <1>3, <2>1 DEF Request, Kinds
<1>4. CASE type = "Shuffle"
  <2>1. Message(c, type) = [type |-> type]
    BY <1>4 DEF Message, Kinds
  <2> QED BY <1>4, <2>1 DEF Request, Kinds
<1>5. CASE type = "Evaluate"
  <2>1. Message(c, type) = [type |-> type, chunk |-> Chunk(c)]
    BY <1>5 DEF Message, Kinds
  <2> HIDE DEF Chunk
  <2> QED BY <1>5, <2>1 DEF Request, Kinds
<1> QED BY <1>1, <1>2, <1>3, <1>4, <1>5, CallsAre DEF Kinds

LEMMA QueueAppend ==
  ASSUME NEW S, NEW q \in Seq(S), NEW e \in S
  PROVE  /\ Append(q, e) \in Seq(S) /\ Len(q) \in Nat /\ DOMAIN q = 1 .. Len(q)
         /\ Len(Append(q, e)) = Len(q) + 1 /\ DOMAIN Append(q, e) = 1 .. Len(q) + 1
         /\ \A k \in 1 .. Len(q) : Append(q, e)[k] = q[k]
         /\ Append(q, e)[Len(q) + 1] = e
OBVIOUS

LEMMA QueueTail ==
  ASSUME NEW S, NEW q \in Seq(S), q # <<>>
  PROVE  /\ Len(q) \in Nat \ {0} /\ DOMAIN q = 1 .. Len(q) /\ 1 \in DOMAIN q
         /\ Head(q) = q[1] /\ Head(q) \in S
         /\ Tail(q) \in Seq(S) /\ Len(Tail(q)) = Len(q) - 1
         /\ DOMAIN Tail(q) = 1 .. Len(q) - 1
         /\ \A k \in 1 .. Len(q) - 1 : Tail(q)[k] = q[k + 1]
OBVIOUS

\* The calls of a phase are calls, and each phase has its own.
LEMMA CallsOfPhases ==
  /\ \A p : CallsOf(p) \subseteq Calls
  /\ \A p : "Evaluate" \in CallsOf(p) <=> p = "gather"
  /\ \A p : "Shuffle" \in CallsOf(p) <=> p = "shuffle"
  /\ \A p : "Function" \in CallsOf(p) <=> p = "function"
  /\ \A p : "Parameters" \in CallsOf(p) <=> p = "stepping"
  /\ \A p : (\E k \in Kinds : k \in CallsOf(p)) => p = "data"
  /\ CallsOf("gather") = {"Evaluate"}
  /\ \A p \in {"construct", "idle", "optimize", "evaluate", "step"} : CallsOf(p) = {}
BY CallsAre DEF CallsOf, Kinds

-----------------------------------------------------------------------------
(* The server's main thread.                                               *)

MainStep == Construct \/ StartTrain \/ Main

\* It moves only when the workers are done, and gives them the calls of the
\* next phase.
LEMMA MainMoves ==
  ASSUME TypeOK, PhaseWork, MainStep
  PROVE  /\ work = NoWork
         /\ UNCHANGED <<waiting, lost, toClient, fromClient, model, registered>>
         /\ \E cs \in SUBSET Clients, calls \in Seq(CallsOf(pc')) :
              work' = [c \in Clients |-> IF c \in cs THEN calls ELSE <<>>]
<1>1. pc \in {"construct", "idle", "optimize", "evaluate", "step"} => work = NoWork
  <2> SUFFICES ASSUME pc \in {"construct", "idle", "optimize", "evaluate", "step"}
               PROVE  work = NoWork
    OBVIOUS
  <2>1. ASSUME NEW c \in Clients PROVE work[c] = <<>>
    <3>1. work[c] \in Seq(Calls) /\ \A k \in DOMAIN work[c] : FALSE
      BY CallsOfPhases DEF TypeOK, PhaseWork
    <3> QED BY <3>1, QueueTail
  <2> QED BY <2>1 DEF TypeOK, NoWork
<1>2. work = NoWork
  BY <1>1 DEF MainStep, Construct, StartTrain, Main, SendData, Optimize, ShuffleClients,
              Evaluate, EvaluateRound, EndEvaluate, StepTaken, EndTrain, Joined
<1>3. UNCHANGED <<waiting, lost, toClient, fromClient, model, registered>>
  BY DEF MainStep, Construct, StartTrain, Main, SendData, Optimize, ShuffleClients,
         Evaluate, EvaluateRound, EndEvaluate, StepTaken, EndTrain
<1>4. ASSUME work' = work
      PROVE  \E cs \in SUBSET Clients, calls \in Seq(CallsOf(pc')) :
               work' = [c \in Clients |-> IF c \in cs THEN calls ELSE <<>>]
  <2>1. work' = [c \in Clients |-> IF c \in {} THEN <<>> ELSE <<>>]
    BY <1>2, <1>4 DEF NoWork
  <2>2. {} \in SUBSET Clients /\ <<>> \in Seq(CallsOf(pc'))
    OBVIOUS
  <2> QED BY <2>1, <2>2
<1>5. ASSUME NEW cs \in SUBSET Clients, NEW calls \in Seq(CallsOf(pc')), Iterate(cs, calls)
      PROVE  \E es \in SUBSET Clients, ds \in Seq(CallsOf(pc')) :
               work' = [c \in Clients |-> IF c \in es THEN ds ELSE <<>>]
  BY <1>5 DEF Iterate
<1>6. Reachable \in SUBSET Clients /\ connectedClients \in SUBSET Clients
  BY DEF Reachable, TypeOK
<1>7. CASE Construct \/ Optimize \/ Evaluate \/ EndEvaluate \/ EndTrain
  BY <1>2, <1>3, <1>4, <1>7 DEF Construct, Optimize, Evaluate, EndEvaluate, EndTrain
<1>8. CASE StartTrain
  <2>1. Iterate(Reachable, <<"Function">>) /\ pc' = "function"
    BY <1>8 DEF StartTrain
  <2>2. <<"Function">> \in Seq(CallsOf(pc'))
    BY <2>1 DEF CallsOf
  <2> QED BY <1>2, <1>3, <1>5, <1>6, <2>1, <2>2
<1>9. CASE SendData
  <2>1. Iterate(Reachable, DataKinds) /\ pc' = "data"
    BY <1>9 DEF SendData
  <2>2. DataKinds \in Seq(CallsOf(pc'))
    BY <2>1, KindsAssumption DEF CallsOf
  <2> QED BY <1>2, <1>3, <1>5, <1>6, <2>1, <2>2
<1>10. CASE ShuffleClients
  <2>1. Iterate(Reachable, <<"Shuffle">>) /\ pc' = "shuffle"
    BY <1>10 DEF ShuffleClients
  <2>2. <<"Shuffle">> \in Seq(CallsOf(pc'))
    BY <2>1 DEF CallsOf
  <2> QED BY <1>2, <1>3, <1>5, <1>6, <2>1, <2>2
<1>11. CASE EvaluateRound
  <2>1. CASE Reachable = {}
    BY <1>2, <1>3, <1>4, <1>11, <2>1 DEF EvaluateRound
  <2>2. CASE Reachable # {}
    <3>1. Iterate(Reachable, <<"Evaluate">>) /\ pc' = "gather"
      BY <1>11, <2>2 DEF EvaluateRound
    <3>2. <<"Evaluate">> \in Seq(CallsOf(pc'))
      BY <3>1 DEF CallsOf
    <3> QED BY <1>2, <1>3, <1>5, <1>6, <3>1, <3>2
  <2> QED BY <2>1, <2>2
<1>12. CASE StepTaken
  <2>1. Iterate(connectedClients, <<"Parameters">>) /\ pc' = "stepping"
    BY <1>12 DEF StepTaken
  <2>2. <<"Parameters">> \in Seq(CallsOf(pc'))
    BY <2>1 DEF CallsOf
  <2> QED BY <1>2, <1>3, <1>5, <1>6, <2>1, <2>2
<1> QED BY <1>7, <1>8, <1>9, <1>10, <1>11, <1>12 DEF MainStep, Main

LEMMA MainTypes ==
  ASSUME TypeOK, PhaseWork, MainStep
  PROVE  TypeOK'
<1>1. work' \in [Clients -> Seq(Calls)]
  <2>1. PICK cs \in SUBSET Clients, calls \in Seq(CallsOf(pc')) :
          work' = [c \in Clients |-> IF c \in cs THEN calls ELSE <<>>]
    BY MainMoves
  <2>2. calls \in Seq(Calls) /\ <<>> \in Seq(Calls)
    BY CallsOfPhases
  <2> QED BY <2>1, <2>2
<1>2. UNCHANGED <<waiting, lost, toClient, fromClient, model, registered>>
  BY MainMoves
<1>3. /\ phase' \in [Clients -> {"down", "listening", "up", "aborted"}]
      /\ connectedClients' \subseteq Clients
  <2>1. ConnectListening => phase' \in [Clients -> {"down", "listening", "up", "aborted"}]
    BY DEF ConnectListening, TypeOK
  <2>2. TryConnect => connectedClients' \subseteq Clients /\ ConnectListening
    BY DEF TryConnect, Reachable
  <2> HIDE DEF ConnectListening, TryConnect
  <2> QED BY <2>1, <2>2 DEF TypeOK, MainStep, Construct, StartTrain, Main, SendData, Optimize,
             ShuffleClients, Evaluate, EvaluateRound, EndEvaluate, StepTaken, EndTrain
<1>4. counted' \in [Columns -> Nat] /\ gathered' \subseteq Basis
  BY DEF TypeOK, MainStep, Construct, StartTrain, Main, SendData, Optimize,
             ShuffleClients, Evaluate, EvaluateRound, EndEvaluate, StepTaken, EndTrain
<1>5. batch' \in [begin : Nat, size : Nat]
  BY BatchAssumption DEF TypeOK, MainStep, Construct, StartTrain, Main, SendData, Optimize,
             ShuffleClients, Evaluate, EvaluateRound, EndEvaluate, StepTaken, EndTrain,
             serverVars
<1>6. /\ train' \in 0 .. MaxTrains /\ params' \in Nat
      /\ evaluations' \in 0 .. MaxEvaluations /\ shuffled' \in 0 .. MaxShuffles
  <2>1. MaxTrains \in Nat /\ MaxEvaluations \in Nat /\ MaxShuffles \in Nat
    BY OutcomesAssumption
  <2>2. train' = train \/ (train < MaxTrains /\ train' = train + 1)
    <3>1. CASE StartTrain
      BY <3>1 DEF StartTrain
    <3>2. CASE ~ StartTrain
      <4>1. train' = train
        BY <3>2 DEF MainStep, Construct, Main, SendData, Optimize, ShuffleClients, Evaluate,
                    EvaluateRound, EndEvaluate, StepTaken, EndTrain, serverVars
      <4> QED BY <4>1
    <3> QED BY <3>1, <3>2
  <2>3. params' = params \/ params' = params + 1
    BY DEF MainStep, Construct, StartTrain, Main, SendData, Optimize,
             ShuffleClients, Evaluate, EvaluateRound, EndEvaluate, StepTaken, EndTrain,
             serverVars
  <2>4. \/ evaluations' \in {evaluations, 0}
        \/ evaluations < MaxEvaluations /\ evaluations' = evaluations + 1
    BY DEF MainStep, Construct, StartTrain, Main, SendData, Optimize,
             ShuffleClients, Evaluate, EvaluateRound, EndEvaluate, StepTaken, EndTrain,
             serverVars
  <2>5. shuffled' \in {shuffled, 0} \/ (shuffled < MaxShuffles /\ shuffled' = shuffled + 1)
    <3>1. CASE ShuffleClients
      BY <3>1 DEF ShuffleClients
    <3>2. CASE ~ ShuffleClients
      <4>1. shuffled' \in {shuffled, 0}
        BY <3>2 DEF MainStep, Construct, StartTrain, Main, SendData, Optimize, Evaluate,
                    EvaluateRound, EndEvaluate, StepTaken, EndTrain, serverVars
      <4> QED BY <4>1
    <3> QED BY <3>1, <3>2
  <2> QED BY <2>1, <2>2, <2>3, <2>4, <2>5, SMTT(60) DEF TypeOK
<1>7. pc' \in {"construct", "idle", "function", "data", "optimize", "shuffle",
               "evaluate", "gather", "step", "stepping"}
  BY DEF TypeOK, MainStep, Construct, StartTrain, Main, SendData, Optimize,
             ShuffleClients, Evaluate, EvaluateRound, EndEvaluate, StepTaken, EndTrain
<1> QED BY <1>1, <1>2, <1>3, <1>4, <1>5, <1>6, <1>7 DEF TypeOK

\* Between two phases nothing is under way.
LEMMA NothingUnderWay ==
  ASSUME TypeOK, Exchange, work = NoWork
  PROVE  /\ waiting = {}
         /\ \A c \in Clients : fromClient[c] = <<>>
         /\ \A c \in Clients : \A k \in DOMAIN toClient[c] : toClient[c][k].type = "Shuffle"
<1>1. \A c \in Clients : work[c] = <<>>
  BY DEF NoWork
<1>2. \A c \in Clients : c \notin waiting
  BY <1>1 DEF Exchange
<1> QED BY <1>2 DEF Exchange, TypeOK

LEMMA MainKeepsWork ==
  ASSUME TypeOK, PhaseWork, Exchange, MainStep
  PROVE  PhaseWork' /\ Exchange'
<1>1. PICK cs \in SUBSET Clients, calls \in Seq(CallsOf(pc')) :
        work' = [c \in Clients |-> IF c \in cs THEN calls ELSE <<>>]
  BY MainMoves
<1>2. PhaseWork'
  <2> SUFFICES ASSUME NEW c \in Clients
               PROVE  /\ \A k \in DOMAIN work'[c] : work'[c][k] \in CallsOf(pc')
                      /\ pc' = "gather" /\ work'[c] # <<>> =>
                           c \in connectedClients' /\ Len(work'[c]) = 1
    BY DEF PhaseWork
  <2>1. \A k \in DOMAIN work'[c] : work'[c][k] \in CallsOf(pc')
    <3>1. work'[c] \in Seq(CallsOf(pc'))
      BY <1>1
    <3> QED BY <3>1
  <2>2. ASSUME pc' = "gather", work'[c] # <<>>
        PROVE  c \in connectedClients' /\ Len(work'[c]) = 1
    <3>1. EvaluateRound
      BY <2>2 DEF MainStep, Construct, StartTrain, Main, SendData, Optimize,
             ShuffleClients, Evaluate, EvaluateRound, EndEvaluate, StepTaken, EndTrain
    <3>2. connectedClients' = Reachable /\ Iterate(Reachable, <<"Evaluate">>)
      BY <2>2, <3>1 DEF EvaluateRound, TryConnect
    <3>3. work'[c] = <<"Evaluate">> /\ c \in Reachable
      BY <2>2, <3>2 DEF Iterate
    <3>4. Len(<<"Evaluate">>) = 1
      OBVIOUS
    <3> QED BY <3>2, <3>3, <3>4
  <2> QED BY <2>1, <2>2
<1>3. Exchange'
  <2>1. work = NoWork /\ UNCHANGED <<waiting, toClient, fromClient>>
    BY MainMoves
  <2> QED BY <2>1, NothingUnderWay DEF Exchange
<1> QED BY <1>2, <1>3

\* A batch begins with nothing counted and ends when all clients have answered.
LEMMA MainKeepsGathering ==
  ASSUME TypeOK, PhaseWork, Exchange, Gathering, MainStep
  PROVE  Gathering'
<1>1. CASE Evaluate
  BY <1>1 DEF Evaluate, Gathering, BatchCountedOnce
<1>2. CASE EvaluateRound
  <2>1. work = NoWork /\ UNCHANGED <<counted, toClient, fromClient>>
        /\ \A k \in Columns : counted[k] = 0
    BY <1>2, MainMoves DEF EvaluateRound, MainStep, Main, Gathering
  <2>2. CASE Reachable = {}
    BY <1>2, <2>1, <2>2 DEF EvaluateRound, Gathering, BatchCountedOnce
  <2>3. CASE Reachable # {}
    <3>1. /\ pc' = "gather" /\ connectedClients' = Reachable
          /\ work' = [c \in Clients |-> IF c \in Reachable THEN <<"Evaluate">> ELSE <<>>]
      BY <1>2, <2>3 DEF EvaluateRound, TryConnect, Iterate
    <3>2. \A c \in Reachable : work'[c] # <<>>
      BY <3>1 DEF Reachable
    <3>3. AnsweredAreCounted'
      BY <2>1, <3>1, <3>2 DEF AnsweredAreCounted, Answered
    <3>4. ChunksTravel'
      <4>1. /\ \A c \in Clients : fromClient[c] = <<>>
            /\ \A c \in Clients : \A k \in DOMAIN toClient[c] : toClient[c][k].type = "Shuffle"
        BY <2>1, NothingUnderWay
      <4>2. DOMAIN <<>> = {}
        OBVIOUS
      <4> QED BY <2>1, <4>1, <4>2 DEF ChunksTravel
    <3> QED BY <2>3, <3>1, <3>3, <3>4 DEF Gathering, BatchCountedOnce
  <2> QED BY <2>2, <2>3
<1>3. CASE EndEvaluate
  <2>1. /\ pc = "gather" /\ pc' = "step" /\ work = NoWork
        /\ UNCHANGED <<counted, connectedClients, batch>>
    BY <1>3 DEF EndEvaluate, Joined, serverVars
  <2>2. Answered = connectedClients
    BY <2>1 DEF Answered, NoWork, TypeOK
  <2>3. connectedClients # {} /\ AnsweredAreCounted
    BY <2>1 DEF Gathering
  <2>4. \A k \in Columns : k \in BatchColumns <=>
          \E c \in connectedClients : k \in ChunkColumns(c)
    <3>1. Columns \subseteq Nat
      BY BatchAssumption DEF Columns
    <3> QED BY <2>3, <3>1, ChunksDivideTheBatch DEF TypeOK
  <2>5. \A k \in Columns : counted'[k] = IF k \in BatchColumns THEN 1 ELSE 0
    BY <2>1, <2>2, <2>3, <2>4 DEF AnsweredAreCounted
  <2>6. BatchColumns' = BatchColumns
    BY <2>1 DEF BatchColumns
  <2> QED BY <2>1, <2>5, <2>6 DEF Gathering, BatchCountedOnce
<1>4. CASE ~ (Evaluate \/ EvaluateRound \/ EndEvaluate)
  <2>1. pc' \notin {"evaluate", "gather", "step"}
    BY <1>4 DEF MainStep, Construct, StartTrain, Main, SendData, Optimize, ShuffleClients,
                StepTaken, EndTrain
  <2> QED BY <2>1 DEF Gathering, BatchCountedOnce
<1> QED BY <1>1, <1>2, <1>3, <1>4

-----------------------------------------------------------------------------
(* The workers and the clients.                                            *)

\* As long as the main thread waits, chunks are what they are.
LEMMA SamePhase ==
  ASSUME UNCHANGED <<pc, batch, connectedClients>>
  PROVE  /\ BatchColumns' = BatchColumns
         /\ \A c : Chunk(c)' = Chunk(c) /\ ChunkColumns(c)' = ChunkColumns(c)
<1>1. BatchColumns' = BatchColumns
  BY DEF BatchColumns
<1>2. \A c : Chunk(c)' = Chunk(c)
  BY DEF Chunk
<1>3. \A c : ChunkColumns(c)' = ChunkColumns(c)
  BY <1>2 DEF ChunkColumns
<1> QED BY <1>1, <1>2, <1>3

\* What a worker's next call is.
LEMMA NextCall ==
  ASSUME TypeOK, PhaseWork, NEW c \in Clients, work[c] # <<>>
  PROVE  /\ Head(work[c]) \in Calls /\ Head(work[c]) \in CallsOf(pc)
         /\ pc = "gather" <=> Head(work[c]) = "Evaluate"
         /\ Head(work[c]) = "Evaluate" => Chunk(c) \in [begin : Nat, cols : Nat]
<1>1. Head(work[c]) \in Calls /\ Head(work[c]) \in CallsOf(pc)
  <2>1. work[c] \in Seq(Calls)
    BY DEF TypeOK
  <2> QED BY <2>1, QueueTail DEF PhaseWork
<1>2. pc = "gather" <=> Head(work[c]) = "Evaluate"
  BY <1>1, CallsOfPhases
<1>3. pc = "gather" => Chunk(c) \in [begin : Nat, cols : Nat]
  BY ChunksDivideTheBatch DEF PhaseWork, TypeOK
<1> QED BY <1>1, <1>2, <1>3

LEMMA SendKeepsInv ==
  ASSUME IInv, NEW c \in Clients, SendCall(c)
  PROVE  IInv'
<1> DEFINE q == toClient[c]
           m == Message(c, Head(work[c]))
<1>1. /\ TypeOK /\ PhaseWork /\ Exchange /\ Gathering
  BY DEF IInv
<1>2. /\ work[c] # <<>> /\ c \notin waiting /\ Head(work[c]) # "Shuffle"
      /\ toClient' = [toClient EXCEPT ![c] = Append(q, m)] /\ waiting' = waiting \cup {c}
      /\ UNCHANGED <<pc, train, params, evaluations, shuffled, batch, counted, gathered,
                     connectedClients, work, lost, phase, registered, fromClient, model>>
  BY DEF SendCall, serverVars
<1>3. /\ m \in Request /\ m.type = Head(work[c])
      /\ m.type = "Evaluate" => m.chunk = Chunk(c)
  <2>1. train \in Nat /\ params \in Nat
    BY <1>1, OutcomesAssumption DEF TypeOK
  <2> QED BY <1>1, <1>2, <2>1, NextCall, MessageFacts
<1>4. q \in Seq(Request)
  BY <1>1 DEF TypeOK
<1> HIDE DEF m
<1>5. /\ toClient'[c] \in Seq(Request) /\ Len(q) \in Nat /\ DOMAIN q = 1 .. Len(q)
      /\ Len(toClient'[c]) = Len(q) + 1 /\ DOMAIN toClient'[c] = 1 .. Len(q) + 1
      /\ \A k \in 1 .. Len(q) : toClient'[c][k] = q[k]
      /\ toClient'[c][Len(q) + 1] = m
  BY <1>1, <1>2, <1>3, <1>4, QueueAppend DEF TypeOK
<1>6. \A d \in Clients \ {c} : toClient'[d] = toClient[d]
  BY <1>1, <1>2 DEF TypeOK
<1>7. TypeOK'
  <2>1. toClient' \in [Clients -> Seq(Request)]
    BY <1>1, <1>2, <1>3, <1>4, QueueAppend DEF TypeOK
  <2> QED BY <1>1, <1>2, <2>1 DEF TypeOK
<1>8. PhaseWork'
  BY <1>1, <1>2 DEF PhaseWork
<1>9. \A k \in DOMAIN q : q[k].type = "Shuffle"
  BY <1>1, <1>2 DEF Exchange
<1>10. Exchange'
  <2> SUFFICES ASSUME NEW d \in Clients
               PROVE  /\ d \in waiting' => work[d] # <<>> /\ Head(work[d]) # "Shuffle"
                      /\ fromClient[d] # <<>> => d \in waiting' /\ Len(fromClient[d]) = 1
                      /\ \A k \in DOMAIN toClient'[d] : toClient'[d][k].type # "Shuffle" =>
                           /\ k = Len(toClient'[d]) /\ d \in waiting' /\ fromClient[d] = <<>>
                           /\ toClient'[d][k].type = Head(work[d])
    BY <1>2 DEF Exchange
  <2>1. CASE d = c
    <3>1. fromClient[c] = <<>>
      BY <1>1, <1>2 DEF Exchange
    <3>2. \A k \in DOMAIN toClient'[c] : k \in DOMAIN q \/ k = Len(q) + 1
      BY <1>5
    <3> QED BY <1>2, <1>3, <1>5, <1>9, <2>1, <3>1, <3>2
  <2>2. CASE d # c
    BY <1>1, <1>2, <1>6, <2>2 DEF Exchange
  <2> QED BY <2>1, <2>2
<1>11. Gathering'
  <2>1. pc = "gather" => ChunksTravel'
    <3> SUFFICES ASSUME pc = "gather", NEW d \in Clients
                 PROVE  /\ \A k \in DOMAIN toClient'[d] :
                             toClient'[d][k].type = "Evaluate" => toClient'[d][k].chunk = Chunk(d)
                        /\ \A k \in DOMAIN fromClient[d] :
                             /\ fromClient[d][k].type = "Gradient"
                             /\ fromClient[d][k].begin = Chunk(d).begin
                             /\ fromClient[d][k].cols = Chunk(d).cols
      BY <1>2, SamePhase DEF ChunksTravel
    <3>1. ChunksTravel
      BY <1>1 DEF Gathering
    <3>2. CASE d = c
      <4>1. \A k \in DOMAIN toClient'[c] : k \in DOMAIN q \/ k = Len(q) + 1
        BY <1>5
      <4>2. \A k \in DOMAIN q : toClient'[c][k].type = "Shuffle"
        BY <1>5, <1>9
      <4>3. \A k \in DOMAIN toClient'[c] :
              toClient'[c][k].type = "Evaluate" => toClient'[c][k].chunk = Chunk(c)
        BY <1>3, <1>5, <4>1, <4>2
      <4> HIDE DEF Chunk
      <4> QED BY <3>1, <3>2, <4>3 DEF ChunksTravel
    <3>3. CASE d # c
      BY <1>6, <3>1, <3>3 DEF ChunksTravel
    <3> QED BY <3>2, <3>3
  <2>2. AnsweredAreCounted => AnsweredAreCounted'
    BY <1>2, SamePhase DEF AnsweredAreCounted, Answered
  <2>3. BatchCountedOnce => BatchCountedOnce'
    BY <1>2, SamePhase DEF BatchCountedOnce
  <2> QED BY <1>1, <1>2, <2>1, <2>2, <2>3 DEF Gathering
<1> QED BY <1>7, <1>8, <1>10, <1>11 DEF IInv

LEMMA ShuffleKeepsInv ==
  ASSUME IInv, NEW c \in Clients, SendShuffle(c)
  PROVE  IInv'
<1> DEFINE q == toClient[c]
           m == Message(c, "Shuffle")
<1>1. /\ TypeOK /\ PhaseWork /\ Exchange /\ Gathering
  BY DEF IInv
<1>2. /\ work[c] # <<>> /\ Head(work[c]) = "Shuffle"
      /\ toClient' = [toClient EXCEPT ![c] = Append(q, m)]
      /\ work' = [work EXCEPT ![c] = Tail(work[c])]
      /\ UNCHANGED <<pc, train, params, evaluations, shuffled, batch, counted, gathered,
                     connectedClients, waiting, lost, phase, registered, fromClient, model>>
  BY DEF SendShuffle, serverVars
<1>3. m \in Request /\ m.type = "Shuffle"
  <2>1. train \in Nat /\ params \in Nat /\ "Shuffle" \in Calls
    BY <1>1, OutcomesAssumption, CallsAre DEF TypeOK
  <2> QED BY <2>1, MessageFacts
<1>4. q \in Seq(Request) /\ work[c] \in Seq(Calls)
  BY <1>1 DEF TypeOK
<1>a. pc = "shuffle" /\ c \notin waiting
  <2>1. Head(work[c]) \in CallsOf(pc)
    BY <1>1, <1>2, NextCall
  <2> QED BY <1>1, <1>2, <2>1, CallsOfPhases DEF Exchange
<1> HIDE DEF m
<1>5. /\ toClient'[c] \in Seq(Request) /\ Len(q) \in Nat /\ DOMAIN q = 1 .. Len(q)
      /\ Len(toClient'[c]) = Len(q) + 1 /\ DOMAIN toClient'[c] = 1 .. Len(q) + 1
      /\ \A k \in 1 .. Len(q) : toClient'[c][k] = q[k]
      /\ toClient'[c][Len(q) + 1] = m
  BY <1>1, <1>2, <1>3, <1>4, QueueAppend DEF TypeOK
<1>6. \A d \in Clients \ {c} : toClient'[d] = toClient[d] /\ work'[d] = work[d]
  BY <1>1, <1>2 DEF TypeOK
<1>w. /\ Tail(work[c]) \in Seq(Calls) /\ work'[c] = Tail(work[c])
      /\ \A k \in DOMAIN Tail(work[c]) :
           k + 1 \in DOMAIN work[c] /\ Tail(work[c])[k] = work[c][k + 1]
  BY <1>1, <1>2, <1>4, QueueTail DEF TypeOK
<1>7. TypeOK'
  <2>1. toClient' \in [Clients -> Seq(Request)]
    BY <1>1, <1>2, <1>3, <1>4, QueueAppend DEF TypeOK
  <2>2. work' \in [Clients -> Seq(Calls)]
    BY <1>1, <1>2, <1>w DEF TypeOK
  <2> QED BY <1>1, <1>2, <2>1, <2>2 DEF TypeOK
<1>8. PhaseWork'
  <2> SUFFICES ASSUME NEW d \in Clients
               PROVE  \A k \in DOMAIN work'[d] : work'[d][k] \in CallsOf(pc)
    BY <1>2, <1>a DEF PhaseWork
  <2>1. CASE d = c
    BY <1>1, <1>w, <2>1 DEF PhaseWork
  <2>2. CASE d # c
    BY <1>1, <1>6, <2>2 DEF PhaseWork
  <2> QED BY <2>1, <2>2
<1>9. fromClient[c] = <<>> /\ \A k \in DOMAIN q : q[k].type = "Shuffle"
  BY <1>1, <1>a DEF Exchange
<1>10. Exchange'
  <2> SUFFICES ASSUME NEW d \in Clients
               PROVE  /\ d \in waiting => work'[d] # <<>> /\ Head(work'[d]) # "Shuffle"
                      /\ fromClient[d] # <<>> => d \in waiting /\ Len(fromClient[d]) = 1
                      /\ \A k \in DOMAIN toClient'[d] : toClient'[d][k].type # "Shuffle" =>
                           /\ k = Len(toClient'[d]) /\ d \in waiting /\ fromClient[d] = <<>>
                           /\ toClient'[d][k].type = Head(work'[d])
    BY <1>2 DEF Exchange
  <2>1. CASE d = c
    <3>1. \A k \in DOMAIN toClient'[c] : k \in DOMAIN q \/ k = Len(q) + 1
      BY <1>5
    <3>2. \A k \in DOMAIN toClient'[c] : toClient'[c][k].type = "Shuffle"
      BY <1>3, <1>5, <1>9, <3>1
    <3> QED BY <1>9, <1>a, <2>1, <3>2
  <2>2. CASE d # c
    BY <1>1, <1>6, <2>2 DEF Exchange
  <2> QED BY <2>1, <2>2
<1>11. Gathering'
  BY <1>2, <1>a DEF Gathering, BatchCountedOnce
<1> QED BY <1>7, <1>8, <1>10, <1>11 DEF IInv

\* A worker's answer ends its call: its chunk is counted, which nobody else had.
LEMMA AnswerKeepsInv ==
  ASSUME IInv, NEW c \in Clients, GetAnswer(c)
  PROVE  IInv'
<1> DEFINE a == Head(fromClient[c])
<1>1. /\ TypeOK /\ PhaseWork /\ Exchange /\ Gathering
  BY DEF IInv
<1>2. /\ c \in waiting \ lost /\ fromClient[c] # <<>>
      /\ a.type = "Gradient" =>
           /\ counted' = [k \in Columns |-> counted[k] +
                IF k \in a.begin .. (a.begin + a.cols - 1) THEN 1 ELSE 0]
           /\ gathered' = gathered \cup {a.on}
      /\ a.type # "Gradient" => UNCHANGED <<counted, gathered>>
      /\ fromClient' = [fromClient EXCEPT ![c] = Tail(fromClient[c])]
      /\ waiting' = waiting \ {c}
      /\ work' = [work EXCEPT ![c] = Tail(work[c])]
      /\ UNCHANGED <<pc, train, params, evaluations, shuffled, batch,
                     connectedClients, lost, phase, registered, toClient, model>>
  BY DEF GetAnswer, serverVars
<1>3. fromClient[c] \in Seq(Answer) /\ work[c] \in Seq(Calls) /\ work[c] # <<>>
  BY <1>1, <1>2 DEF TypeOK, Exchange
<1>4. /\ a \in Answer /\ a = fromClient[c][1] /\ 1 \in DOMAIN fromClient[c]
      /\ Tail(fromClient[c]) \in Seq(Answer) /\ Len(fromClient[c]) = 1
      /\ Len(Tail(fromClient[c])) = Len(fromClient[c]) - 1
  BY <1>1, <1>2, <1>3, QueueTail DEF Exchange
<1>5. Tail(fromClient[c]) = <<>>
  <2> DEFINE r == Tail(fromClient[c])
  <2>1. r \in Seq(Answer) /\ Len(r) = 0
    BY <1>4
  <2> HIDE DEF r
  <2>2. r = <<>>
    BY <2>1
  <2> QED BY <2>2 DEF r
<1>6. \A d \in Clients \ {c} : fromClient'[d] = fromClient[d] /\ work'[d] = work[d]
  BY <1>1, <1>2 DEF TypeOK
<1>7. fromClient'[c] = <<>> /\ work'[c] = Tail(work[c])
  BY <1>1, <1>2, <1>5 DEF TypeOK
<1>w. /\ Tail(work[c]) \in Seq(Calls) /\ Len(Tail(work[c])) = Len(work[c]) - 1
      /\ \A k \in DOMAIN Tail(work[c]) :
           k + 1 \in DOMAIN work[c] /\ Tail(work[c])[k] = work[c][k + 1]
  BY <1>3, QueueTail
<1>8. \A k \in DOMAIN toClient[c] : toClient[c][k].type = "Shuffle"
  BY <1>1, <1>2 DEF Exchange
<1> HIDE DEF a
<1>9. TypeOK'
  <2>1. fromClient' \in [Clients -> Seq(Answer)]
    BY <1>1, <1>2, <1>4 DEF TypeOK
  <2>2. work' \in [Clients -> Seq(Calls)]
    BY <1>1, <1>2, <1>w DEF TypeOK
  <2>3. counted' \in [Columns -> Nat] /\ gathered' \subseteq Basis
    <3>1. CASE a.type = "Gradient"
      <4>1. a.on \in Basis
        BY <1>4, <3>1, AnswerFacts
      <4>2. \A k \in Columns : counted[k] \in Nat
        BY <1>1 DEF TypeOK
      <4>3. gathered' \subseteq Basis
        BY <1>1, <1>2, <3>1, <4>1 DEF TypeOK
      <4>4. /\ counted' \in [Columns -> Nat]
        <5>1. counted' = [k \in Columns |-> counted[k] +
                IF k \in a.begin .. (a.begin + a.cols - 1) THEN 1 ELSE 0]
          BY <1>2, <3>1
        <5> QED BY <4>2, <5>1
      <4> QED BY <4>3, <4>4
    <3>2. CASE a.type # "Gradient"
      BY <1>1, <1>2, <3>2 DEF TypeOK
    <3> QED BY <3>1, <3>2
  <2> QED BY <1>1, <1>2, <2>1, <2>2, <2>3 DEF TypeOK
<1>10. pc = "gather" => c \in connectedClients /\ work'[c] = <<>>
  <2> SUFFICES ASSUME pc = "gather" PROVE c \in connectedClients /\ work'[c] = <<>>
    OBVIOUS
  <2>1. c \in connectedClients /\ Len(work[c]) = 1
    BY <1>1, <1>3 DEF PhaseWork
  <2> QED BY <1>7, <1>w, <2>1
<1>11. PhaseWork'
  <2> SUFFICES ASSUME NEW d \in Clients
               PROVE  /\ \A k \in DOMAIN work'[d] : work'[d][k] \in CallsOf(pc)
                      /\ pc = "gather" /\ work'[d] # <<>> =>
                           d \in connectedClients /\ Len(work'[d]) = 1
    BY <1>2 DEF PhaseWork
  <2>1. CASE d = c
    BY <1>1, <1>7, <1>w, <1>10, <2>1 DEF PhaseWork
  <2>2. CASE d # c
    BY <1>1, <1>6, <2>2 DEF PhaseWork
  <2> QED BY <2>1, <2>2
<1>12. Exchange'
  <2> SUFFICES ASSUME NEW d \in Clients
               PROVE  /\ d \in waiting' => work'[d] # <<>> /\ Head(work'[d]) # "Shuffle"
                      /\ fromClient'[d] # <<>> => d \in waiting' /\ Len(fromClient'[d]) = 1
                      /\ \A k \in DOMAIN toClient[d] : toClient[d][k].type # "Shuffle" =>
                           /\ k = Len(toClient[d]) /\ d \in waiting' /\ fromClient'[d] = <<>>
                           /\ toClient[d][k].type = Head(work'[d])
    BY <1>2 DEF Exchange
  <2>1. CASE d = c
    BY <1>2, <1>7, <1>8, <2>1
  <2>2. CASE d # c
    BY <1>1, <1>2, <1>6, <2>2 DEF Exchange
  <2> QED BY <2>1, <2>2
<1>13. Gathering'
  <2>1. CASE pc # "gather"
    <3>1. Head(work[c]) # "Evaluate" /\ pc \notin {"evaluate", "step"}
      BY <1>1, <1>3, <2>1, NextCall, CallsOfPhases
    <3> QED BY <1>2, <2>1, <3>1 DEF Gathering, BatchCountedOnce
  <2>2. CASE pc = "gather"
    <3>1. connectedClients # {} /\ ChunksTravel /\ AnsweredAreCounted
      BY <1>1, <2>2 DEF Gathering
    <3>2. a.type = "Gradient" /\ a.begin = Chunk(c).begin /\ a.cols = Chunk(c).cols
      BY <1>4, <3>1 DEF ChunksTravel
    <3>3. \A k \in Columns : counted'[k] = counted[k] + IF k \in ChunkColumns(c) THEN 1 ELSE 0
      <4> HIDE DEF Chunk
      <4> QED BY <1>2, <3>2 DEF ChunkColumns
    <3>4. c \notin Answered /\ Answered' = Answered \cup {c} /\ Answered \subseteq connectedClients
      BY <1>1, <1>2, <1>3, <1>6, <1>10, <2>2, SMTT(60) DEF Answered, TypeOK
    <3>5. AnsweredAreCounted'
      <4> SUFFICES ASSUME NEW k \in Columns
                   PROVE  counted'[k] = IF \E d \in Answered' : k \in ChunkColumns(d)
                                        THEN 1 ELSE 0
        BY <1>2, SamePhase DEF AnsweredAreCounted
      <4>1. k \in Nat
        BY BatchAssumption DEF Columns
      <4>2. counted[k] = IF \E d \in Answered : k \in ChunkColumns(d) THEN 1 ELSE 0
        BY <3>1 DEF AnsweredAreCounted
      <4>3. k \in ChunkColumns(c) => ~ \E d \in Answered : k \in ChunkColumns(d)
        BY <1>1, <1>10, <2>2, <3>4, <4>1, ChunksDivideTheBatch DEF TypeOK
      <4>4. counted'[k] = counted[k] + IF k \in ChunkColumns(c) THEN 1 ELSE 0
        BY <3>3
      <4> HIDE DEF ChunkColumns
      <4>5. CASE k \in ChunkColumns(c)
        <5>1. counted[k] = 0
          BY <4>2, <4>3, <4>5
        <5>2. \E d \in Answered' : k \in ChunkColumns(d)
          BY <3>4, <4>5
        <5> QED BY <4>4, <4>5, <5>1, <5>2
      <4>6. CASE k \notin ChunkColumns(c)
        <5>1. (\E d \in Answered' : k \in ChunkColumns(d))
                <=> (\E d \in Answered : k \in ChunkColumns(d))
          BY <3>4, <4>6
        <5> QED BY <4>2, <4>4, <4>6, <5>1
      <4> QED BY <4>5, <4>6
    <3>6. ChunksTravel'
      <4> SUFFICES ASSUME NEW d \in Clients
                   PROVE  /\ \A k \in DOMAIN toClient[d] :
                               toClient[d][k].type = "Evaluate" => toClient[d][k].chunk = Chunk(d)
                          /\ \A k \in DOMAIN fromClient'[d] :
                               /\ fromClient'[d][k].type = "Gradient"
                               /\ fromClient'[d][k].begin = Chunk(d).begin
                               /\ fromClient'[d][k].cols = Chunk(d).cols
        BY <1>2, SamePhase DEF ChunksTravel
      <4>1. CASE d = c
        <5>1. DOMAIN fromClient'[c] = {}
          BY <1>7
        <5> QED BY <3>1, <4>1, <5>1 DEF ChunksTravel
      <4>2. CASE d # c
        BY <1>6, <3>1, <4>2 DEF ChunksTravel
      <4> QED BY <4>1, <4>2
    <3> QED BY <1>2, <2>2, <3>1, <3>5, <3>6 DEF Gathering, BatchCountedOnce
  <2> QED BY <2>1, <2>2
<1> QED BY <1>9, <1>11, <1>12, <1>13 DEF IInv

\* The message a client reads is a shuffle, or the call its worker is in.
LEMMA MessageRead ==
  ASSUME IInv, NEW c \in Clients, Reading(c)
  PROVE  LET m == Head(toClient[c]) IN
         /\ m \in Request
         /\ m.type # "Shuffle" =>
              /\ c \in waiting /\ fromClient[c] = <<>> /\ Len(toClient[c]) = 1
              /\ work[c] # <<>> /\ m.type = Head(work[c]) /\ m.type \in CallsOf(pc)
              /\ pc = "gather" => m.type = "Evaluate" /\ m.chunk = Chunk(c)
<1>1. toClient[c] \in Seq(Request) /\ toClient[c] # <<>>
  BY DEF IInv, TypeOK, Reading
<1>2. 1 \in DOMAIN toClient[c] /\ Head(toClient[c]) = toClient[c][1]
      /\ Head(toClient[c]) \in Request
  BY <1>1, QueueTail
<1> SUFFICES ASSUME toClient[c][1].type # "Shuffle"
             PROVE  /\ c \in waiting /\ fromClient[c] = <<>> /\ Len(toClient[c]) = 1
                    /\ work[c] # <<>> /\ toClient[c][1].type = Head(work[c])
                    /\ toClient[c][1].type \in CallsOf(pc)
                    /\ pc = "gather" => /\ toClient[c][1].type = "Evaluate"
                                        /\ toClient[c][1].chunk = Chunk(c)
  BY <1>2
<1>3. /\ 1 = Len(toClient[c]) /\ c \in waiting /\ fromClient[c] = <<>>
      /\ toClient[c][1].type = Head(work[c]) /\ work[c] # <<>>
  BY <1>2 DEF IInv, Exchange
<1>4. Head(work[c]) \in CallsOf(pc) /\ (pc = "gather" <=> Head(work[c]) = "Evaluate")
  BY <1>3, NextCall DEF IInv
<1>5. pc = "gather" => toClient[c][1].chunk = Chunk(c)
  BY <1>2, <1>3, <1>4 DEF IInv, Gathering, ChunksTravel
<1> QED BY <1>3, <1>4, <1>5

\* Reading a message keeps the invariant if only a call is answered and, while a
\* batch is gathered, with the chunk of the client.
GoodAnswer(c, a) ==
  /\ a \in Answer /\ fromClient' = [fromClient EXCEPT ![c] = Append(@, a)]
  /\ Head(toClient[c]).type # "Shuffle"
  /\ pc = "gather" => a.type = "Gradient" /\ a.begin = Chunk(c).begin /\ a.cols = Chunk(c).cols

LEMMA ReadingKeepsInv ==
  ASSUME IInv, NEW c \in Clients, Reading(c), model' \in [Clients -> ClientModel],
         phase' \in [Clients -> {"down", "listening", "up", "aborted"}],
         UNCHANGED fromClient \/ \E a : GoodAnswer(c, a)
  PROVE  IInv'
<1> DEFINE q == toClient[c]
<1>1. /\ TypeOK /\ PhaseWork /\ Exchange /\ Gathering
  BY DEF IInv
<1>2. /\ q # <<>> /\ toClient' = [toClient EXCEPT ![c] = Tail(q)]
      /\ UNCHANGED <<pc, train, params, evaluations, shuffled, batch, counted, gathered,
                     connectedClients, work, waiting, lost, registered>>
  BY DEF Reading, serverVars
<1>3. /\ q \in Seq(Request) /\ Len(q) \in Nat \ {0} /\ DOMAIN q = 1 .. Len(q) /\ Head(q) = q[1]
      /\ Tail(q) \in Seq(Request) /\ Len(Tail(q)) = Len(q) - 1
      /\ DOMAIN Tail(q) = 1 .. Len(q) - 1
      /\ \A k \in 1 .. Len(q) - 1 : Tail(q)[k] = q[k + 1]
  <2>1. q \in Seq(Request)
    BY <1>1 DEF TypeOK
  <2> QED BY <1>2, <2>1, QueueTail
<1>4. /\ toClient'[c] = Tail(q) /\ toClient' \in [Clients -> Seq(Request)]
      /\ \A d \in Clients \ {c} : toClient'[d] = toClient[d]
  BY <1>1, <1>2, <1>3 DEF TypeOK
<1>5. \A k \in DOMAIN toClient'[c] : k + 1 \in DOMAIN q /\ toClient'[c][k] = q[k + 1]
  BY <1>3, <1>4
\* Whether it is answered or not, the other clients see nothing of it.
<1>6. /\ fromClient' \in [Clients -> Seq(Answer)]
      /\ \A d \in Clients \ {c} : fromClient'[d] = fromClient[d]
      /\ \/ fromClient'[c] = fromClient[c]
         \/ /\ c \in waiting /\ Len(q) = 1 /\ Len(fromClient'[c]) = 1
            /\ pc = "gather" =>
                 \A k \in DOMAIN fromClient'[c] :
                   /\ fromClient'[c][k].type = "Gradient"
                   /\ fromClient'[c][k].begin = Chunk(c).begin
                   /\ fromClient'[c][k].cols = Chunk(c).cols
  <2>1. CASE UNCHANGED fromClient
    BY <1>1, <2>1 DEF TypeOK
  <2>2. CASE \E a : GoodAnswer(c, a)
    <3>1. PICK a : GoodAnswer(c, a)
      BY <2>2
    <3>2. c \in waiting /\ Len(q) = 1 /\ fromClient[c] = <<>>
      BY <3>1, MessageRead DEF GoodAnswer
    <3>3. a \in Answer /\ fromClient' = [fromClient EXCEPT ![c] = <<a>>]
      <4>1. Append(<<>>, a) = <<a>>
        OBVIOUS
      <4> QED BY <3>1, <3>2, <4>1 DEF GoodAnswer
    <3>4. fromClient'[c] = <<a>> /\ \A d \in Clients \ {c} : fromClient'[d] = fromClient[d]
      BY <1>1, <3>3 DEF TypeOK
    <3>5. <<a>> \in Seq(Answer) /\ Len(<<a>>) = 1 /\ DOMAIN <<a>> = {1} /\ <<a>>[1] = a
      <4>1. DOMAIN <<a>> = 1 .. 1 /\ 1 .. 1 = {1}
        OBVIOUS
      <4> QED BY <3>3, <4>1
    <3>6. fromClient' \in [Clients -> Seq(Answer)]
      BY <1>1, <3>3, <3>5 DEF TypeOK
    <3>7. pc = "gather" =>
            \A k \in DOMAIN fromClient'[c] :
              /\ fromClient'[c][k].type = "Gradient"
              /\ fromClient'[c][k].begin = Chunk(c).begin
              /\ fromClient'[c][k].cols = Chunk(c).cols
      <4> HIDE DEF Chunk
      <4> QED BY <3>1, <3>4, <3>5 DEF GoodAnswer
    <3> QED BY <3>2, <3>4, <3>5, <3>6, <3>7
  <2> QED BY <2>1, <2>2
<1> HIDE DEF Chunk
<1>7. TypeOK'
  BY <1>1, <1>2, <1>4, <1>6 DEF TypeOK
<1>8. PhaseWork'
  BY <1>1, <1>2 DEF PhaseWork
<1>9. Exchange'
  <2> SUFFICES ASSUME NEW d \in Clients
               PROVE  /\ d \in waiting => work[d] # <<>> /\ Head(work[d]) # "Shuffle"
                      /\ fromClient'[d] # <<>> => d \in waiting /\ Len(fromClient'[d]) = 1
                      /\ \A k \in DOMAIN toClient'[d] : toClient'[d][k].type # "Shuffle" =>
                           /\ k = Len(toClient'[d]) /\ d \in waiting /\ fromClient'[d] = <<>>
                           /\ toClient'[d][k].type = Head(work[d])
    BY <1>2 DEF Exchange
  <2>1. CASE d = c
    <3>1. c \in waiting => work[c] # <<>> /\ Head(work[c]) # "Shuffle"
      BY <1>1 DEF Exchange
    <3>2. fromClient'[c] # <<>> => c \in waiting /\ Len(fromClient'[c]) = 1
      BY <1>1, <1>6 DEF Exchange
    <3>3. ASSUME NEW k \in DOMAIN toClient'[c], toClient'[c][k].type # "Shuffle"
          PROVE  /\ k = Len(toClient'[c]) /\ c \in waiting /\ fromClient'[c] = <<>>
                 /\ toClient'[c][k].type = Head(work[c])
      <4>1. k + 1 \in DOMAIN q /\ toClient'[c][k] = q[k + 1]
        BY <1>5
      <4>2. /\ k + 1 = Len(q) /\ c \in waiting /\ fromClient[c] = <<>>
            /\ q[k + 1].type = Head(work[c])
        BY <1>1, <3>3, <4>1 DEF Exchange
      <4>3. k \in Nat \ {0} /\ k = Len(toClient'[c]) /\ Len(q) # 1
        BY <1>3, <1>4, <4>2
      <4> QED BY <1>6, <4>1, <4>2, <4>3
    <3> QED BY <2>1, <3>1, <3>2, <3>3
  <2>2. CASE d # c
    <3>1. toClient'[d] = toClient[d] /\ fromClient'[d] = fromClient[d]
      BY <1>4, <1>6, <2>2
    <3> QED BY <1>1, <3>1 DEF Exchange
  <2> QED BY <2>1, <2>2
<1>10. Gathering'
  <2>1. pc = "gather" => ChunksTravel'
    <3> SUFFICES ASSUME pc = "gather", NEW d \in Clients
                 PROVE  /\ \A k \in DOMAIN toClient'[d] :
                             toClient'[d][k].type = "Evaluate" => toClient'[d][k].chunk = Chunk(d)
                        /\ \A k \in DOMAIN fromClient'[d] :
                             /\ fromClient'[d][k].type = "Gradient"
                             /\ fromClient'[d][k].begin = Chunk(d).begin
                             /\ fromClient'[d][k].cols = Chunk(d).cols
      BY <1>2, SamePhase DEF ChunksTravel
    <3>1. ChunksTravel
      BY <1>1 DEF Gathering
    <3>2. CASE d = c
      <4>1. \A k \in DOMAIN toClient'[c] :
              toClient'[c][k].type = "Evaluate" => toClient'[c][k].chunk = Chunk(c)
        BY <1>5, <3>1 DEF ChunksTravel
      <4>2. \A k \in DOMAIN fromClient'[c] :
              /\ fromClient'[c][k].type = "Gradient"
              /\ fromClient'[c][k].begin = Chunk(c).begin
              /\ fromClient'[c][k].cols = Chunk(c).cols
        BY <1>6, <3>1 DEF ChunksTravel
      <4> QED BY <3>2, <4>1, <4>2
    <3>3. CASE d # c
      <4>1. toClient'[d] = toClient[d] /\ fromClient'[d] = fromClient[d]
        BY <1>4, <1>6, <3>3
      <4> QED BY <3>1, <4>1 DEF ChunksTravel
    <3> QED BY <3>2, <3>3
  <2>2. AnsweredAreCounted => AnsweredAreCounted'
    BY <1>2, SamePhase DEF AnsweredAreCounted, Answered
  <2>3. BatchCountedOnce => BatchCountedOnce'
    BY <1>2, SamePhase DEF BatchCountedOnce
  <2> QED BY <1>1, <1>2, <2>1, <2>2, <2>3 DEF Gathering
<1> QED BY <1>7, <1>8, <1>9, <1>10 DEF IInv

\* What the handlers make of a client's model is one.
LEMMA ModelFacts ==
  ASSUME TypeOK, NEW c \in Clients
  PROVE  /\ model[c] \in ClientModel
         /\ model[c].isInit \in BOOLEAN /\ model[c].function \in Nat
         /\ model[c].staged \in [Kinds -> Nat] /\ model[c].loaded \in [Kinds -> Nat]
         /\ model[c].params \in Nat /\ model[c].shuffles \in Nat
         /\ model[c] = [isInit |-> model[c].isInit, function |-> model[c].function,
                        staged |-> model[c].staged, loaded |-> model[c].loaded,
                        params |-> model[c].params, shuffles |-> model[c].shuffles]
         /\ \A m \in ClientModel : [model EXCEPT ![c] = m] \in [Clients -> ClientModel]
BY DEF TypeOK, ClientModel

LEMMA HandlersKeepInv ==
  ASSUME IInv, NEW c \in Clients, Handler(c)
  PROVE  IInv'
<1> DEFINE m == Head(toClient[c])
           Phases == {"down", "listening", "up", "aborted"}
<1>1. TypeOK /\ Reading(c)
  BY DEF IInv, Handler, DropMessage, HandleData, HandleFunction, HandleParameters,
         HandleShuffle, HandleEvaluate
<1>2. /\ m \in Request
      /\ m.type # "Shuffle" =>
           /\ c \in waiting /\ fromClient[c] = <<>> /\ Len(toClient[c]) = 1
           /\ work[c] # <<>> /\ m.type = Head(work[c]) /\ m.type \in CallsOf(pc)
           /\ pc = "gather" => m.type = "Evaluate" /\ m.chunk = Chunk(c)
  BY <1>1, MessageRead
<1>3. /\ m.type = "Function" => m.train \in Nat /\ m.params \in Nat
      /\ m.type \in Kinds => m.train \in Nat
      /\ m.type = "Parameters" => m.params \in Nat
      /\ m.type = "Evaluate" => m.chunk \in [begin : Nat, cols : Nat]
  BY <1>2, RequestFacts
<1>4. /\ model \in [Clients -> ClientModel] /\ phase \in [Clients -> Phases]
      /\ model[c] \in ClientModel
      /\ \A x \in ClientModel : [model EXCEPT ![c] = x] \in [Clients -> ClientModel]
  BY <1>1, ModelFacts DEF TypeOK
\* A status answers every call but the one that gathers a batch.
<1>5. m.type \in {"Function", "Parameters"} \cup Kinds /\ Reply(c, Status)
        => \E a : GoodAnswer(c, a)
  <2> SUFFICES ASSUME m.type \in {"Function", "Parameters"} \cup Kinds, Reply(c, Status)
               PROVE  GoodAnswer(c, Status)
    OBVIOUS
  <2>1. m.type # "Shuffle" /\ m.type # "Evaluate"
    BY DEF Kinds
  <2>2. pc # "gather"
    BY <1>2, <2>1
  <2>3. Status \in Answer
    BY DEF Status, Answer
  <2> HIDE DEF m
  <2> QED BY <2>1, <2>2, <2>3 DEF GoodAnswer, Reply, m
<1>6. CASE DropMessage(c)
  BY <1>1, <1>4, <1>6, ReadingKeepsInv DEF DropMessage
<1>7. CASE HandleData(c)
  <2>1. /\ m.type \in Kinds /\ model' = [model EXCEPT ![c].staged[m.type] = m.train]
        /\ Reply(c, Status) /\ phase' = phase
    BY <1>7 DEF HandleData
  <2>2. model' \in [Clients -> ClientModel]
    <3> DEFINE x == [model[c] EXCEPT !.staged[m.type] = m.train]
    <3>1. x \in ClientModel
      <4>1. m.train \in Nat
        BY <1>3, <2>1
      <4> HIDE DEF m
      <4>2. [model[c].staged EXCEPT ![m.type] = m.train] \in [Kinds -> Nat]
        BY <1>1, <2>1, <4>1, ModelFacts
      <4> QED BY <1>4, <4>2 DEF ClientModel
    <3>2. model' = [model EXCEPT ![c] = x]
      BY <2>1
    <3> HIDE DEF x
    <3> QED BY <1>4, <3>1, <3>2
  <2> QED BY <1>1, <1>4, <1>5, <2>1, <2>2, ReadingKeepsInv
<1>8. CASE HandleFunction(c)
  <2>1. PICK outcome \in LoadOutcomes :
          /\ m.type = "Function" /\ Reply(c, Status) /\ phase' = phase
          /\ model' = [model EXCEPT ![c] =
              IF outcome = "ok"
              THEN [model[c] EXCEPT !.isInit = FALSE, !.function = m.train, !.params = m.params]
              ELSE [model[c] EXCEPT !.isInit = FALSE]]
    BY <1>8 DEF HandleFunction
  <2>2. model' \in [Clients -> ClientModel]
    <3> DEFINE x == IF outcome = "ok"
                    THEN [model[c] EXCEPT !.isInit = FALSE, !.function = m.train,
                                          !.params = m.params]
                    ELSE [model[c] EXCEPT !.isInit = FALSE]
    <3>1. x \in ClientModel
      <4>1. m.train \in Nat /\ m.params \in Nat
        BY <1>3, <2>1
      <4> HIDE DEF m
      <4> QED BY <1>4, <4>1 DEF ClientModel
    <3>2. model' = [model EXCEPT ![c] = x]
      BY <2>1
    <3> HIDE DEF x
    <3> QED BY <1>4, <3>1, <3>2
  <2> QED BY <1>1, <1>4, <1>5, <2>1, <2>2, ReadingKeepsInv
<1>9. CASE HandleParameters(c)
  <2>1. m.type = "Parameters"
    BY <1>9 DEF HandleParameters
  <2>2. CASE model[c].function = 0
    <3>1. /\ phase' = [phase EXCEPT ![c] = "aborted"] /\ UNCHANGED <<model, fromClient>>
      BY <1>9, <2>2 DEF HandleParameters
    <3>2. phase' \in [Clients -> Phases]
      BY <1>4, <3>1
    <3> QED BY <1>1, <1>4, <3>1, <3>2, ReadingKeepsInv
  <2>3. CASE model[c].function # 0
    <3>1. /\ model' = [model EXCEPT ![c].params = m.params]
          /\ Reply(c, Status) /\ phase' = phase
      BY <1>9, <2>3 DEF HandleParameters
    <3>2. model' \in [Clients -> ClientModel]
      <4>1. m.params \in Nat
        BY <1>3, <2>1
      <4> HIDE DEF m
      <4>2. [model[c] EXCEPT !.params = m.params] \in ClientModel
        BY <1>4, <4>1 DEF ClientModel
      <4> QED BY <1>4, <3>1, <4>2
    <3> QED BY <1>1, <1>4, <1>5, <2>1, <3>1, <3>2, ReadingKeepsInv
  <2> QED BY <2>2, <2>3
<1>10. CASE HandleShuffle(c)
  <2>1. model' = [model EXCEPT ![c].shuffles = @ + 1] /\ UNCHANGED <<phase, fromClient>>
    BY <1>10 DEF HandleShuffle
  <2>2. model' \in [Clients -> ClientModel]
    <3>0. model[c].shuffles \in Nat
      BY <1>1, ModelFacts
    <3>1. model[c].shuffles + 1 \in Nat
      BY <3>0
    <3>2. [model[c] EXCEPT !.shuffles = model[c].shuffles + 1] \in ClientModel
      BY <1>4, <3>1 DEF ClientModel
    <3> QED BY <1>4, <2>1, <3>2
  <2> QED BY <1>1, <1>4, <2>1, <2>2, ReadingKeepsInv
<1>11. CASE HandleEvaluate(c)
  <2> DEFINE x == Initalized(model[c])
             a == [type |-> "Gradient", begin |-> m.chunk.begin, cols |-> m.chunk.cols,
                   on |-> [function |-> x.function, loaded |-> x.loaded,
                           params |-> x.params, shuffles |-> x.shuffles]]
  <2>0. CASE phase' = [phase EXCEPT ![c] = "aborted"] /\ UNCHANGED <<model, fromClient>>
    <3>1. phase' \in [Clients -> Phases]
      BY <1>4, <2>0
    <3> QED BY <1>1, <1>4, <2>0, <3>1, ReadingKeepsInv
  <2> SUFFICES ASSUME model' = [model EXCEPT ![c] = x] /\ Reply(c, a) /\ phase' = phase
               PROVE  IInv'
    BY <1>11, <2>0 DEF HandleEvaluate
  <2>1. /\ m.type = "Evaluate" /\ model' = [model EXCEPT ![c] = x]
        /\ Reply(c, a) /\ phase' = phase
    BY <1>11 DEF HandleEvaluate
  <2>2. x \in ClientModel
    <3>1. NoData \in [Kinds -> Nat]
      BY DEF NoData
    <3> QED BY <1>1, <1>4, <3>1, ModelFacts DEF Initalized, ClientModel
  <2>3. [function |-> x.function, loaded |-> x.loaded, params |-> x.params,
         shuffles |-> x.shuffles] \in Basis
    <3> HIDE DEF x
    <3> QED BY <2>2 DEF ClientModel, Basis
  <2>4. m.chunk \in [begin : Nat, cols : Nat] /\ (pc = "gather" => m.chunk = Chunk(c))
    BY <1>2, <1>3, <2>1
  <2> HIDE DEF x
  <2>5. a \in Answer
    <3>1. m.chunk.begin \in Nat /\ m.chunk.cols \in Nat
      BY <2>4
    <3> HIDE DEF m
    <3> QED BY <2>3, <3>1 DEF Answer
  <2>6. a.type = "Gradient" /\ a.begin = m.chunk.begin /\ a.cols = m.chunk.cols
    OBVIOUS
  <2> HIDE DEF a
  <2>7. GoodAnswer(c, a)
    <3>1. pc = "gather" => a.begin = Chunk(c).begin /\ a.cols = Chunk(c).cols
      <4> HIDE DEF Chunk
      <4> QED BY <2>4, <2>6
    <3> HIDE DEF Chunk
    <3> QED BY <2>1, <2>5, <2>6, <3>1 DEF GoodAnswer, Reply
  <2>8. model' \in [Clients -> ClientModel]
    BY <1>4, <2>1, <2>2
  <2> QED BY <1>1, <1>4, <2>1, <2>7, <2>8, ReadingKeepsInv
<1> QED BY <1>6, <1>7, <1>8, <1>9, <1>10, <1>11 DEF Handler

\* A client starts, its handlers are registered, a call is lost.
Alone(c) == LoseCall(c) \/ StartClient(c) \/ RegisterHandler(c)

\* Nothing else touches what the invariant is about.
LEMMA OthersKeepInv ==
  ASSUME IInv, UNCHANGED vars \/ \E c \in Clients : Alone(c)
  PROVE  IInv'
<1>1. /\ TypeOK /\ PhaseWork /\ Exchange /\ Gathering
  BY DEF IInv
<1>2. UNCHANGED <<pc, train, params, evaluations, shuffled, batch, counted, gathered,
                  connectedClients, work, waiting, toClient, fromClient, model>>
  BY DEF vars, serverVars, Alone, LoseCall, StartClient, RegisterHandler
<1>3. /\ phase' \in [Clients -> {"down", "listening", "up", "aborted"}]
      /\ registered' \in [Clients -> 0 .. Len(HandlerOrder)]
      /\ lost' \subseteq waiting
  <2>1. UNCHANGED vars => UNCHANGED <<lost, phase, registered>>
    BY DEF vars
  <2>2. ASSUME NEW c \in Clients, StartClient(c)
        PROVE  /\ phase' \in [Clients -> {"down", "listening", "up", "aborted"}]
               /\ registered' = registered /\ lost' = lost
    BY <1>1, <2>2 DEF StartClient, TypeOK
  <2>3. ASSUME NEW c \in Clients, RegisterHandler(c)
        PROVE  /\ phase' = phase /\ lost' = lost
               /\ registered' \in [Clients -> 0 .. Len(HandlerOrder)]
    <3>1. registered[c] + 1 \in 0 .. Len(HandlerOrder)
      <4>1. Len(HandlerOrder) = 7
        BY DEF HandlerOrder
      <4>2. registered[c] \in 0 .. Len(HandlerOrder) /\ registered[c] < Len(HandlerOrder)
        BY <1>1, <2>3 DEF RegisterHandler, TypeOK
      <4> QED BY <4>1, <4>2
    <3> QED BY <1>1, <2>3, <3>1 DEF RegisterHandler, TypeOK
  <2>4. ASSUME NEW c \in Clients, LoseCall(c)
        PROVE  UNCHANGED <<phase, registered>> /\ lost' \subseteq waiting
    BY <1>1, <2>4 DEF LoseCall, TypeOK
  <2> QED BY <1>1, <2>1, <2>2, <2>3, <2>4 DEF TypeOK, Alone
<1>4. TypeOK'
  BY <1>1, <1>2, <1>3 DEF TypeOK
<1>5. PhaseWork' /\ Exchange'
  BY <1>1, <1>2 DEF PhaseWork, Exchange
<1>6. Gathering'
  <2>1. ChunksTravel => ChunksTravel'
    BY <1>2, SamePhase DEF ChunksTravel
  <2>2. AnsweredAreCounted => AnsweredAreCounted'
    BY <1>2, SamePhase DEF AnsweredAreCounted, Answered
  <2>3. BatchCountedOnce => BatchCountedOnce'
    BY <1>2, SamePhase DEF BatchCountedOnce
  <2> QED BY <1>1, <1>2, <2>1, <2>2, <2>3 DEF Gathering
<1> QED BY <1>4, <1>5, <1>6 DEF IInv

-----------------------------------------------------------------------------
(* The invariant and what follows from it.                                 *)

LEMMA TrainingInductive == Spec => []IInv
<1>1. Init => IInv
  <2> SUFFICES ASSUME Init PROVE IInv
    OBVIOUS
  <2>1. \A c \in Clients : work[c] = <<>> /\ toClient[c] = <<>> /\ fromClient[c] = <<>>
    BY DEF Init, NoWork
  <2>2. DOMAIN <<>> = {}
    OBVIOUS
  <2>3. TypeOK
    <3>1. NoData \in [Kinds -> Nat] /\ Len(HandlerOrder) = 7
      BY DEF NoData, HandlerOrder
    <3>2. [isInit |-> FALSE, function |-> 0, staged |-> NoData, loaded |-> NoData,
           params |-> 0, shuffles |-> 0] \in ClientModel
      BY <3>1 DEF ClientModel
    <3>3. model \in [Clients -> ClientModel]
      BY <3>2 DEF Init
    <3>4. train \in 0 .. MaxTrains /\ evaluations \in 0 .. MaxEvaluations
          /\ shuffled \in 0 .. MaxShuffles
      BY OutcomesAssumption DEF Init
    <3>5. work \in [Clients -> Seq(Calls)] /\ toClient \in [Clients -> Seq(Request)]
          /\ fromClient \in [Clients -> Seq(Answer)]
      BY DEF Init, NoWork
    <3>6. registered \in [Clients -> 0 .. Len(HandlerOrder)]
      BY <3>1 DEF Init
    <3>7. counted \in [Columns -> Nat] /\ batch \in [begin : Nat, size : Nat]
      BY DEF Init
    <3>8. /\ phase \in [Clients -> {"down", "listening", "up", "aborted"}]
          /\ gathered = {} /\ connectedClients = {} /\ waiting = {} /\ lost = {}
          /\ pc = "construct" /\ params = 0
      BY DEF Init
    <3> QED BY <3>3, <3>4, <3>5, <3>6, <3>7, <3>8 DEF TypeOK
  <2>4. PhaseWork /\ Exchange
    BY <2>1, <2>2 DEF Init, PhaseWork, Exchange
  <2>5. Gathering
    BY DEF Init, Gathering, BatchCountedOnce
  <2> QED BY <2>3, <2>4, <2>5 DEF IInv
<1>2. IInv /\ [Next]_vars => IInv'
  <2> SUFFICES ASSUME IInv, [Next]_vars PROVE IInv'
    OBVIOUS
  <2>1. CASE MainStep
    BY <2>1, MainTypes, MainKeepsWork, MainKeepsGathering DEF IInv
  <2>2. ASSUME NEW c \in Clients, Worker(c) PROVE IInv'
    BY <2>2, SendKeepsInv, ShuffleKeepsInv, AnswerKeepsInv DEF Worker
  <2>3. ASSUME NEW c \in Clients, Handler(c) PROVE IInv'
    BY <2>3, HandlersKeepInv
  <2>4. CASE UNCHANGED vars \/ \E c \in Clients : Alone(c)
    BY <2>4, OthersKeepInv
  <2> QED BY <2>1, <2>2, <2>3, <2>4 DEF Next, MainStep, Alone
<1> QED BY <1>1, <1>2, PTL DEF Spec

\* The queues carry requests and answers, chunks are ranges of columns, and the
\* server's and the clients' variables keep their types.
THEOREM TrainingTypeCorrect == Spec => []TypeOK
<1>1. IInv => TypeOK
  BY DEF IInv
<1> QED BY <1>1, TrainingInductive, PTL

\* Between two phases no request waits for its answer: whatever starts late, is
\* dropped or fails, what a phase sends is never answered in the next one.
THEOREM PhasesAreSeparate == Spec => []PhasesDoNotOverlap
<1>1. IInv => PhasesDoNotOverlap
  <2> SUFFICES ASSUME IInv, pc \in {"idle", "optimize", "evaluate", "step"}
               PROVE  /\ waiting = {}
                      /\ \A c \in Clients :
                           /\ fromClient[c] = <<>>
                           /\ \A k \in DOMAIN toClient[c] : toClient[c][k].type = "Shuffle"
    BY DEF PhasesDoNotOverlap
  <2>1. ASSUME NEW c \in Clients PROVE work[c] = <<>>
    <3>1. work[c] \in Seq(Calls) /\ \A k \in DOMAIN work[c] : FALSE
      BY CallsOfPhases DEF IInv, TypeOK, PhaseWork
    <3> QED BY <3>1, QueueTail
  <2>2. work = NoWork
    BY <2>1 DEF IInv, TypeOK, NoWork
  <2> QED BY <2>2, NothingUnderWay DEF IInv
<1> QED BY <1>1, TrainingInductive, PTL

\* When EvaluateWithGradient returns, every column of the batch has been added to
\* the objective exactly once and no other column has, whatever the batch, the
\* number of clients and the moment each of them started.
THEOREM EveryColumnCountsOnce == Spec => []BatchCountedOnce
<1>1. IInv => BatchCountedOnce
  BY DEF IInv, Gathering
<1> QED BY <1>1, TrainingInductive, PTL

-----------------------------------------------------------------------------
(* What the gradients are computed on, if every client listens from the      *)
(* beginning, has registered its handlers before it reads and can load what  *)
(* it is sent.                                                               *)

AllReady == EarlyClients = Clients /\ PromptHandlers /\ LoadOutcomes = {"ok"}

\* All clients are connected, and each phase has its place in the Train.
InTrain ==
  /\ \A c \in Clients : phase[c] = IF pc = "construct" THEN "listening" ELSE "up"
  /\ pc \notin {"construct", "idle"} => train > 0 /\ connectedClients = Clients
  /\ pc \in {"function", "data"} => evaluations = 0
  /\ pc \in {"evaluate", "gather"} => evaluations > 0
  /\ pc = "evaluate" => gathered = {}

\* The calls of this phase that a client has not handled.
Pending(c) == {work[c][k] : k \in {j \in DOMAIN work[c] : j > Len(fromClient[c])}}

\* It has loaded its data set once it has handled an evaluation of this Train.
HasLoaded(c) ==
  \/ evaluations > IF pc \in {"evaluate", "gather"} THEN 1 ELSE 0
  \/ pc = "gather" /\ "Evaluate" \notin Pending(c)

\* What a client has been sent in this Train, and has handled, is what it has.
ClientIsCurrent(c) ==
  "Function" \notin Pending(c) =>
    /\ model[c].function = train
    /\ "Parameters" \notin Pending(c) => model[c].params = params
    /\ model[c].isInit <=> HasLoaded(c)
    /\ pc # "function" => \A k \in SentKinds \ Pending(c) :
         (IF model[c].isInit THEN model[c].loaded ELSE model[c].staged)[k] = train

\* What is on its way is of this Train and of these parameters.
RequestIsCurrent(m) ==
  /\ m.type \in {"Function"} \cup Kinds => m.train = train
  /\ m.type \in {"Function", "Parameters"} => m.params = params
BasisIsCurrent(on) ==
  /\ on.function = train /\ on.params = params
  /\ \A k \in SentKinds : on.loaded[k] = train
TravelIsCurrent ==
  /\ \A c \in Clients :
       /\ \A k \in DOMAIN toClient[c] : RequestIsCurrent(toClient[c][k])
       /\ \A k \in DOMAIN fromClient[c] : fromClient[c][k].type = "Gradient" =>
            pc = "gather" /\ BasisIsCurrent(fromClient[c][k].on)
  /\ pc \in {"gather", "step"} => \A on \in gathered : BasisIsCurrent(on)

Current ==
  /\ InTrain
  /\ pc \notin {"construct", "idle"} => \A c \in Clients : ClientIsCurrent(c)
  /\ TravelIsCurrent

\* The shuffles of its data set that a client has made or will make: those that
\* are in its queue and those its worker still has to send.
HasRequest(c) == \E k \in DOMAIN toClient[c] : toClient[c][k].type # "Shuffle"
Queued(c) == Len(toClient[c]) - IF HasRequest(c) THEN 1 ELSE 0
Shuffles(c) ==
  IF model[c].isInit
  THEN model[c].shuffles + Queued(c) + IF pc = "shuffle" THEN Len(work[c]) ELSE 0
  ELSE 0

\* They are the same for all clients, and a gradient has been computed after all
\* of them.
Agreement ==
  /\ pc \notin {"construct", "idle", "function"} =>
       \A c, d \in Clients : Shuffles(c) = Shuffles(d)
  /\ pc = "gather" => \A c \in Clients :
       /\ \A on \in gathered : on.shuffles = Shuffles(c)
       /\ \A k \in DOMAIN fromClient[c] : fromClient[c][k].on.shuffles = Shuffles(c)
  /\ ShuffleAgreement

\* All clients stay connected from the server's construction on.
LEMMA AllConnected ==
  ASSUME AllReady, InTrain, IInv
  PROVE  /\ Reachable = Clients
         /\ ConnectListening => \A c \in Clients : phase'[c] = "up"
         /\ TryConnect => connectedClients' = Clients /\ \A c \in Clients : phase'[c] = "up"
<1>1. \A c \in Clients : phase[c] \in {"listening", "up"}
  BY DEF InTrain
<1>2. Reachable = Clients
  BY <1>1 DEF Reachable
<1>3. ConnectListening => \A c \in Clients : phase'[c] = "up"
  BY <1>1 DEF ConnectListening
<1> QED BY <1>2, <1>3 DEF TryConnect

\* What is pending are calls of the phase.
LEMMA PendingCalls ==
  ASSUME IInv, NEW c \in Clients
  PROVE  /\ Pending(c) \subseteq CallsOf(pc)
         /\ "Evaluate" \in Pending(c) => pc = "gather"
         /\ "Function" \in Pending(c) => pc = "function"
         /\ "Parameters" \in Pending(c) => pc = "stepping"
         /\ SentKinds \subseteq Kinds
         /\ \A k \in Kinds : k \in Pending(c) => pc = "data"
<1>1. Pending(c) \subseteq CallsOf(pc)
  BY DEF Pending, IInv, PhaseWork
<1>2. SentKinds \subseteq Kinds
  BY KindsAssumption DEF SentKinds
<1> QED BY <1>1, <1>2, CallsOfPhases

\* What is pending, and what is queued, when the main thread moves on.
LEMMA MainPending ==
  ASSUME IInv, MainStep
  PROVE  /\ work = NoWork /\ UNCHANGED <<waiting, toClient, fromClient, model, registered>>
         /\ \A c \in Clients : work[c] = <<>> /\ fromClient[c] = <<>>
         /\ \A c \in Clients : \A k \in DOMAIN toClient[c] : toClient[c][k].type = "Shuffle"
         /\ \A c \in Clients : Pending(c) = {}
         /\ \A c \in Clients : Pending(c)' = {work'[c][k] : k \in DOMAIN work'[c]}
         /\ \A c \in Clients : Queued(c)' = Queued(c) /\ Queued(c) \in Nat
         /\ work' \in [Clients -> Seq(Calls)]
<1>1. work = NoWork /\ UNCHANGED <<waiting, toClient, fromClient, model, registered>>
  BY MainMoves DEF IInv
<1>2. /\ \A c \in Clients : work[c] = <<>> /\ fromClient[c] = <<>>
      /\ \A c \in Clients : \A k \in DOMAIN toClient[c] : toClient[c][k].type = "Shuffle"
  BY <1>1, NothingUnderWay DEF IInv, NoWork
<1>3. work' \in [Clients -> Seq(Calls)]
  BY MainTypes DEF IInv, TypeOK
<1>4. ASSUME NEW c \in Clients
      PROVE  Pending(c) = {} /\ Pending(c)' = {work'[c][k] : k \in DOMAIN work'[c]}
  <2>1. DOMAIN work[c] = {} /\ Len(fromClient'[c]) = 0
    BY <1>1, <1>2
  <2>2. \A k \in DOMAIN work'[c] : k > 0
    <3>1. work'[c] \in Seq(Calls)
      BY <1>3
    <3> QED BY <3>1
  <2>3. {k \in DOMAIN work'[c] : k > Len(fromClient'[c])} = DOMAIN work'[c]
    BY <2>1, <2>2
  <2> QED BY <2>1, <2>3 DEF Pending
<1>5. ASSUME NEW c \in Clients
      PROVE  Queued(c)' = Queued(c) /\ Queued(c) \in Nat
  <2>1. ~ HasRequest(c) /\ toClient[c] \in Seq(Request)
    BY <1>2 DEF HasRequest, IInv, TypeOK
  <2>2. Queued(c)' = Queued(c)
    BY <1>1 DEF Queued, HasRequest
  <2>3. Len(toClient[c]) - 0 \in Nat
    BY <2>1
  <2> QED BY <2>1, <2>2, <2>3 DEF Queued
<1> QED BY <1>1, <1>2, <1>3, <1>4, <1>5

LEMMA MainStaysInTrain ==
  ASSUME AllReady, IInv, InTrain, MainStep
  PROVE  InTrain'
<1>1. /\ Reachable = Clients
      /\ ConnectListening => \A c \in Clients : phase'[c] = "up"
      /\ TryConnect => connectedClients' = Clients /\ \A c \in Clients : phase'[c] = "up"
  BY AllConnected
<1>2. train \in Nat /\ evaluations \in Nat
  BY OutcomesAssumption DEF IInv, TypeOK
<1>3. CASE Construct
  BY <1>1, <1>3 DEF Construct, InTrain
<1>4. CASE StartTrain
  BY <1>1, <1>2, <1>4 DEF StartTrain, InTrain
<1>5. CASE SendData
  BY <1>1, <1>5 DEF SendData, InTrain, serverVars
<1>6. CASE Optimize
  BY <1>6 DEF Optimize, InTrain, serverVars
<1>7. CASE ShuffleClients
  BY <1>1, <1>7 DEF ShuffleClients, InTrain
<1>8. CASE Evaluate
  BY <1>2, <1>8 DEF Evaluate, InTrain
<1>9. CASE EvaluateRound
  <2>1. /\ pc = "evaluate" /\ pc' \in {"evaluate", "gather"} /\ TryConnect
        /\ UNCHANGED <<train, evaluations, gathered>>
    BY <1>9 DEF EvaluateRound, serverVars
  <2> QED BY <1>1, <2>1 DEF InTrain
<1>10. CASE EndEvaluate
  BY <1>10 DEF EndEvaluate, InTrain, serverVars
<1>11. CASE StepTaken
  BY <1>11 DEF StepTaken, InTrain
<1>12. CASE EndTrain
  BY <1>12 DEF EndTrain, InTrain, serverVars
<1> QED BY <1>3, <1>4, <1>5, <1>6, <1>7, <1>8, <1>9, <1>10, <1>11, <1>12 DEF MainStep, Main

\* Nothing of a Train is under way when the main thread moves on.
LEMMA MainTravel ==
  ASSUME IInv, Current, MainStep
  PROVE  TravelIsCurrent'
<1>1. /\ UNCHANGED <<toClient, fromClient>>
      /\ \A c \in Clients : fromClient[c] = <<>>
      /\ \A c \in Clients : \A k \in DOMAIN toClient[c] : toClient[c][k].type = "Shuffle"
  BY MainPending
<1>2. ASSUME NEW c \in Clients
      PROVE  /\ \A k \in DOMAIN toClient'[c] : RequestIsCurrent(toClient[c][k])'
             /\ DOMAIN fromClient'[c] = {}
  BY <1>1 DEF RequestIsCurrent, Kinds
<1>3. ASSUME pc' \in {"gather", "step"}
      PROVE  \A on \in gathered' : BasisIsCurrent(on)'
  <2>1. CASE EvaluateRound
    BY <2>1 DEF EvaluateRound, Current, InTrain, serverVars
  <2>2. CASE EndEvaluate
    <3>1. pc = "gather" /\ UNCHANGED <<gathered, train, params>>
      BY <2>2 DEF EndEvaluate, serverVars
    <3> QED BY <3>1 DEF Current, TravelIsCurrent, BasisIsCurrent
  <2> QED BY <1>3, <2>1, <2>2 DEF MainStep, Construct, StartTrain, Main, SendData, Optimize,
             ShuffleClients, Evaluate, StepTaken, EndTrain
<1> QED BY <1>1, <1>2, <1>3 DEF TravelIsCurrent, RequestIsCurrent

\* A client that has loaded the data of this Train keeps it: Train and step
\* change what is current, and make the calls that tell all clients.
LEMMA MainKeepsCurrent ==
  ASSUME AllReady, IInv, Current, MainStep
  PROVE  Current'
<1>1. InTrain /\ InTrain' /\ TravelIsCurrent'
  BY MainStaysInTrain, MainTravel DEF Current
<1> SUFFICES ASSUME pc' \notin {"construct", "idle"}, NEW c \in Clients
             PROVE  ClientIsCurrent(c)'
  BY <1>1 DEF Current
<1>2. /\ work[c] = <<>> /\ UNCHANGED <<model, fromClient>> /\ Pending(c) = {}
      /\ Pending(c)' = {work'[c][k] : k \in DOMAIN work'[c]}
  BY MainPending
<1>3. Reachable = Clients
  BY <1>1, AllConnected
<1>4. SentKinds \subseteq Kinds /\ evaluations \in Nat
  BY PendingCalls, OutcomesAssumption, SMTT(60) DEF IInv, TypeOK
<1>5. pc \notin {"construct", "idle"} => ClientIsCurrent(c)
  BY DEF Current
\* It stays as it is while neither Train nor the parameters change.
<1>6. ASSUME UNCHANGED <<train, params>>, HasLoaded(c)' <=> HasLoaded(c),
             pc \notin {"construct", "idle", "function"},
             Pending(c)' \cap Kinds = {}
      PROVE  ClientIsCurrent(c)'
  <2>1. /\ model[c].function = train /\ model[c].params = params
        /\ model[c].isInit <=> HasLoaded(c)
        /\ \A k \in SentKinds :
             (IF model[c].isInit THEN model[c].loaded ELSE model[c].staged)[k] = train
    BY <1>2, <1>5, <1>6 DEF ClientIsCurrent
  <2> QED BY <1>2, <1>4, <1>6, <2>1 DEF ClientIsCurrent
<1>7. \A e : DOMAIN <<e>> = {1} /\ <<e>>[1] = e
  <2>1. 1 .. 1 = {1}
    OBVIOUS
  <2> QED BY <2>1
<1>8. CASE StartTrain
  <2>1. work'[c] = <<"Function">>
    BY <1>3, <1>8 DEF StartTrain, Iterate
  <2>2. "Function" \in Pending(c)'
    BY <1>2, <1>7, <2>1
  <2> QED BY <2>2 DEF ClientIsCurrent
<1>9. CASE SendData
  <2>1. /\ work'[c] = DataKinds /\ pc = "function" /\ pc' = "data"
        /\ UNCHANGED <<train, params, evaluations>>
    BY <1>3, <1>9 DEF SendData, Iterate, serverVars
  <2>2. Pending(c)' = SentKinds
    BY <1>2, <2>1 DEF SentKinds
  <2>3. evaluations = 0 /\ ~ HasLoaded(c) /\ ~ HasLoaded(c)'
    BY <1>1, <2>1 DEF InTrain, HasLoaded
  <2>4. /\ model[c].function = train /\ model[c].params = params /\ ~ model[c].isInit
    BY <1>2, <1>5, <2>1, <2>3 DEF ClientIsCurrent
  <2>5. SentKinds' \ Pending(c)' = {}
    BY <2>2 DEF SentKinds
  <2> QED BY <1>2, <2>1, <2>3, <2>4, <2>5 DEF ClientIsCurrent
<1>10. CASE Optimize
  <2>1. /\ pc \in {"data", "shuffle", "stepping"} /\ pc' = "optimize"
        /\ UNCHANGED <<train, params, evaluations, work>>
    BY <1>10 DEF Optimize, serverVars
  <2>2. HasLoaded(c)' <=> HasLoaded(c)
    BY <2>1 DEF HasLoaded
  <2>3. Pending(c)' = {}
    BY <1>2, <2>1
  <2> QED BY <1>6, <2>1, <2>2, <2>3
<1>11. CASE ShuffleClients
  <2>1. /\ pc = "optimize" /\ pc' = "shuffle" /\ work'[c] = <<"Shuffle">>
        /\ UNCHANGED <<train, params, evaluations>>
    BY <1>3, <1>11 DEF ShuffleClients, Iterate
  <2>2. HasLoaded(c)' <=> HasLoaded(c)
    BY <2>1 DEF HasLoaded
  <2>3. Pending(c)' = {"Shuffle"}
    BY <1>2, <1>7, <2>1
  <2> QED BY <1>6, <2>1, <2>2, <2>3 DEF Kinds
<1>12. CASE Evaluate
  <2>1. /\ pc = "optimize" /\ pc' = "evaluate" /\ evaluations' = evaluations + 1
        /\ UNCHANGED <<train, params, work>>
    BY <1>12 DEF Evaluate
  <2>2. HasLoaded(c)' <=> HasLoaded(c)
    BY <1>4, <2>1 DEF HasLoaded
  <2>3. Pending(c)' = {}
    BY <1>2, <2>1
  <2> QED BY <1>6, <2>1, <2>2, <2>3
<1>13. CASE EvaluateRound
  <2>1. /\ pc = "evaluate" /\ pc' = "gather" /\ work'[c] = <<"Evaluate">>
        /\ UNCHANGED <<train, params, evaluations>>
    BY <1>3, <1>13 DEF EvaluateRound, Iterate, serverVars
  <2>3. Pending(c)' = {"Evaluate"}
    BY <1>2, <1>7, <2>1
  <2>2. HasLoaded(c)' <=> HasLoaded(c)
    BY <2>1, <2>3 DEF HasLoaded
  <2> QED BY <1>6, <2>1, <2>2, <2>3 DEF Kinds
<1>14. CASE EndEvaluate
  <2>1. /\ pc = "gather" /\ pc' = "step"
        /\ UNCHANGED <<train, params, evaluations, work>>
    BY <1>14 DEF EndEvaluate, serverVars
  <2>2. HasLoaded(c) /\ HasLoaded(c)'
    BY <1>1, <1>2, <1>4, <2>1 DEF HasLoaded, InTrain
  <2>3. Pending(c)' = {}
    BY <1>2, <2>1
  <2> QED BY <1>6, <2>1, <2>2, <2>3
<1>15. CASE StepTaken
  <2>1. /\ pc = "step" /\ pc' = "stepping" /\ work'[c] = <<"Parameters">>
        /\ UNCHANGED <<train, evaluations>>
    BY <1>1, <1>15 DEF StepTaken, Iterate, InTrain
  <2>2. HasLoaded(c)' <=> HasLoaded(c)
    BY <2>1 DEF HasLoaded
  <2>3. Pending(c)' = {"Parameters"}
    BY <1>2, <1>7, <2>1
  <2>4. /\ model[c].function = train /\ (model[c].isInit <=> HasLoaded(c))
        /\ \A k \in SentKinds :
             (IF model[c].isInit THEN model[c].loaded ELSE model[c].staged)[k] = train
    BY <1>2, <1>5, <2>1 DEF ClientIsCurrent
  <2> QED BY <1>2, <2>1, <2>2, <2>3, <2>4 DEF ClientIsCurrent
<1> QED BY <1>8, <1>9, <1>10, <1>11, <1>12, <1>13, <1>14, <1>15
        DEF MainStep, Main, Construct, EndTrain

\* All clients get a call of Shuffle, and the others change no order of data.
LEMMA MainKeepsAgreement ==
  ASSUME AllReady, IInv, Current, Agreement, MainStep
  PROVE  Agreement'
<1>1. InTrain /\ Reachable = Clients
  BY AllConnected DEF Current
<1>2. /\ UNCHANGED <<model, fromClient>>
      /\ \A c \in Clients : work[c] = <<>> /\ fromClient[c] = <<>> /\ Pending(c) = {}
      /\ \A c \in Clients : Queued(c)' = Queued(c) /\ Queued(c) \in Nat
  BY MainPending
<1>3. \A c \in Clients : model[c].shuffles \in Nat
  BY ModelFacts DEF IInv
<1>4. ASSUME NEW c \in Clients
      PROVE  Shuffles(c) = IF model[c].isInit THEN model[c].shuffles + Queued(c) ELSE 0
  <2>1. Len(work[c]) = 0
    BY <1>2
  <2> QED BY <1>2, <1>3, <2>1 DEF Shuffles
<1>5. ASSUME NEW c \in Clients
      PROVE  Shuffles(c)' = IF model[c].isInit
                            THEN model[c].shuffles + Queued(c)
                                   + IF pc' = "shuffle" THEN Len(work'[c]) ELSE 0
                            ELSE 0
  BY <1>2 DEF Shuffles
<1>6. ASSUME pc' # "shuffle", NEW c \in Clients PROVE Shuffles(c)' = Shuffles(c)
  <2>1. model[c].shuffles + Queued(c) + 0 = model[c].shuffles + Queued(c)
    BY <1>2, <1>3
  <2> QED BY <1>4, <1>5, <1>6, <2>1
<1>7. ShuffleAgreement'
  <2>1. gathered' \in {gathered, {}}
    BY DEF MainStep, Construct, StartTrain, Main, SendData, Optimize, ShuffleClients,
           Evaluate, EvaluateRound, EndEvaluate, StepTaken, EndTrain
  <2> QED BY <2>1 DEF Agreement, ShuffleAgreement
<1>8. ASSUME pc' = "gather"
      PROVE  gathered' = {} /\ \A c \in Clients : DOMAIN fromClient'[c] = {}
  <2>1. EvaluateRound
    BY <1>8 DEF MainStep, Construct, StartTrain, Main, SendData, Optimize, ShuffleClients,
           Evaluate, EvaluateRound, EndEvaluate, StepTaken, EndTrain
  <2>2. gathered' = {}
    BY <1>1, <2>1 DEF EvaluateRound, InTrain
  <2> QED BY <1>2, <2>2
<1>9. ASSUME pc' \notin {"construct", "idle", "function"}, NEW c \in Clients, NEW d \in Clients
      PROVE  Shuffles(c)' = Shuffles(d)'
  <2>1. CASE pc \in {"construct", "idle", "function"}
    <3>1. SendData
      BY <1>9, <2>1 DEF MainStep, Construct, StartTrain, Main, SendData, Optimize,
           ShuffleClients, Evaluate, EvaluateRound, EndEvaluate, StepTaken, EndTrain
    <3>2. pc = "function" /\ evaluations = 0
      BY <1>1, <3>1 DEF SendData, InTrain
    <3>3. \A e \in Clients : ~ HasLoaded(e) /\ ClientIsCurrent(e)
      BY <3>2 DEF HasLoaded, Current
    <3>4. \A e \in Clients : ~ model[e].isInit
      BY <1>2, <3>3 DEF ClientIsCurrent
    <3> QED BY <1>5, <3>4
  <2>2. CASE pc \notin {"construct", "idle", "function"}
    <3>1. Shuffles(c) = Shuffles(d)
      BY <2>2 DEF Agreement
    <3>2. CASE pc' # "shuffle"
      BY <1>6, <3>1, <3>2
    <3>3. CASE pc' = "shuffle"
      <4>1. ShuffleClients
        BY <2>2, <3>3 DEF MainStep, Construct, StartTrain, Main, SendData, Optimize,
           ShuffleClients, Evaluate, EvaluateRound, EndEvaluate, StepTaken, EndTrain
      <4>2. /\ pc = "optimize"
            /\ \A e \in Clients : work'[e] = <<"Shuffle">>
        BY <1>1, <4>1 DEF ShuffleClients, Iterate
      <4>3. \A e \in Clients : model[e].isInit <=> evaluations > 0
        <5>1. \A e \in Clients : ClientIsCurrent(e)
          BY <4>2 DEF Current
        <5> QED BY <1>2, <4>2, <5>1 DEF ClientIsCurrent, HasLoaded
      <4>4. \A e \in Clients : Shuffles(e)' = IF model[e].isInit THEN Shuffles(e) + 1 ELSE 0
        <5>1. \A e \in Clients : Len(work'[e]) = 1
          BY <4>2
        <5> QED BY <1>4, <1>5, <3>3, <5>1
      <4> QED BY <3>1, <4>3, <4>4
    <3> QED BY <3>2, <3>3
  <2> QED BY <2>1, <2>2
<1> QED BY <1>7, <1>8, <1>9 DEF Agreement

\* A step of one client or of its worker: the others see nothing of it.
StepAt(c) ==
  /\ UNCHANGED <<pc, train, params, evaluations, connectedClients>>
  /\ \A d \in Clients \ {c} : /\ work'[d] = work[d] /\ model'[d] = model[d]
                              /\ toClient'[d] = toClient[d] /\ fromClient'[d] = fromClient[d]

LEMMA OthersStay ==
  ASSUME NEW c \in Clients, StepAt(c), NEW d \in Clients \ {c}
  PROVE  /\ Pending(d)' = Pending(d)
         /\ ClientIsCurrent(d) => ClientIsCurrent(d)'
         /\ Shuffles(d)' = Shuffles(d)
<1>1. /\ work'[d] = work[d] /\ model'[d] = model[d]
      /\ toClient'[d] = toClient[d] /\ fromClient'[d] = fromClient[d]
      /\ UNCHANGED <<pc, train, params, evaluations>>
  BY DEF StepAt
<1>2. Pending(d)' = Pending(d)
  BY <1>1 DEF Pending
<1>3. HasLoaded(d)' <=> HasLoaded(d)
  BY <1>1, <1>2 DEF HasLoaded
<1>4. ClientIsCurrent(d) => ClientIsCurrent(d)'
  BY <1>1, <1>2, <1>3 DEF ClientIsCurrent, SentKinds
<1>5. Queued(d)' = Queued(d)
  BY <1>1 DEF Queued, HasRequest
<1>6. Shuffles(d)' = Shuffles(d)
  BY <1>1, <1>5 DEF Shuffles
<1> QED BY <1>2, <1>4, <1>6

\* Its messages and what has been gathered stay current.
TravelAt(c) ==
  /\ \A k \in DOMAIN toClient'[c] : RequestIsCurrent(toClient'[c][k])
  /\ \A k \in DOMAIN fromClient'[c] : fromClient'[c][k].type = "Gradient" =>
       pc = "gather" /\ BasisIsCurrent(fromClient'[c][k].on)
  /\ pc \in {"gather", "step"} => \A on \in gathered' : BasisIsCurrent(on)

LEMMA StepKeepsCurrent ==
  ASSUME Current, NEW c \in Clients, StepAt(c), TravelAt(c), phase' = phase,
         pc = "evaluate" => gathered' = gathered,
         pc \notin {"construct", "idle"} => ClientIsCurrent(c)'
  PROVE  Current'
<1>1. UNCHANGED <<pc, train, params, evaluations, connectedClients>>
  BY DEF StepAt
<1>2. InTrain'
  BY <1>1 DEF Current, InTrain
<1>3. ASSUME pc \notin {"construct", "idle"}, NEW d \in Clients PROVE ClientIsCurrent(d)'
  <2>1. CASE d = c
    BY <1>3, <2>1
  <2>2. CASE d # c
    BY <1>3, <2>2, OthersStay DEF Current
  <2> QED BY <2>1, <2>2
<1>4. \A m : RequestIsCurrent(m)' <=> RequestIsCurrent(m)
  BY <1>1 DEF RequestIsCurrent
<1>5. \A on : BasisIsCurrent(on)' <=> BasisIsCurrent(on)
  BY <1>1 DEF BasisIsCurrent, SentKinds
<1>6. ASSUME NEW d \in Clients
      PROVE  /\ \A k \in DOMAIN toClient'[d] : RequestIsCurrent(toClient'[d][k])
             /\ \A k \in DOMAIN fromClient'[d] : fromClient'[d][k].type = "Gradient" =>
                  pc = "gather" /\ BasisIsCurrent(fromClient'[d][k].on)
  <2>1. CASE d = c
    BY <2>1 DEF TravelAt
  <2>2. CASE d # c
    BY <2>2 DEF Current, TravelIsCurrent, StepAt
  <2> QED BY <2>1, <2>2
<1>7. TravelIsCurrent'
  <2>1. ASSUME NEW d \in Clients
        PROVE  /\ \A k \in DOMAIN toClient'[d] : RequestIsCurrent(toClient[d][k])'
               /\ \A k \in DOMAIN fromClient'[d] : fromClient'[d][k].type = "Gradient" =>
                    pc' = "gather" /\ BasisIsCurrent(fromClient[d][k].on)'
    <3>1. /\ \A k : RequestIsCurrent(toClient[d][k])' <=> RequestIsCurrent(toClient'[d][k])
          /\ \A k : BasisIsCurrent(fromClient[d][k].on)' <=> BasisIsCurrent(fromClient'[d][k].on)
      BY <1>1 DEF RequestIsCurrent, BasisIsCurrent, SentKinds
    <3> QED BY <1>1, <1>6, <3>1
  <2>2. pc' \in {"gather", "step"} => \A on \in gathered' : BasisIsCurrent(on)'
    BY <1>1, <1>5 DEF TravelAt
  <2> QED BY <2>1, <2>2 DEF TravelIsCurrent
<1> QED BY <1>1, <1>2, <1>3, <1>7 DEF Current

\* Nobody's shuffles change, and a new answer has been computed after them.
LEMMA StepKeepsAgreement ==
  ASSUME Agreement, NEW c \in Clients, StepAt(c),
         pc \notin {"construct", "idle", "function"} => Shuffles(c)' = Shuffles(c),
         pc # "gather" => gathered' = gathered,
         pc = "gather" =>
           /\ \A on \in gathered' : on.shuffles = Shuffles(c)
           /\ \A k \in DOMAIN fromClient'[c] : fromClient'[c][k].on.shuffles = Shuffles(c)
  PROVE  Agreement'
<1>1. UNCHANGED <<pc, train, params, evaluations, connectedClients>>
  BY DEF StepAt
<1>2. ASSUME pc \notin {"construct", "idle", "function"}, NEW d \in Clients
      PROVE  Shuffles(d)' = Shuffles(d) /\ Shuffles(d) = Shuffles(c)
  <2>1. Shuffles(d) = Shuffles(c)
    BY <1>2 DEF Agreement
  <2>2. CASE d = c
    BY <1>2, <2>1, <2>2
  <2>3. CASE d # c
    BY <2>1, <2>3, OthersStay
  <2> QED BY <2>2, <2>3
<1>3. ASSUME pc = "gather", NEW d \in Clients
      PROVE  /\ \A on \in gathered' : on.shuffles = Shuffles(d)'
             /\ \A k \in DOMAIN fromClient'[d] : fromClient'[d][k].on.shuffles = Shuffles(d)'
  <2>1. Shuffles(d)' = Shuffles(d) /\ Shuffles(d) = Shuffles(c)
    BY <1>2, <1>3
  <2>2. CASE d = c
    BY <1>3, <2>1, <2>2
  <2>3. CASE d # c
    <3>1. fromClient'[d] = fromClient[d]
      BY <2>3 DEF StepAt
    <3> QED BY <1>3, <2>1, <3>1 DEF Agreement
  <2> QED BY <2>2, <2>3
<1>4. ShuffleAgreement'
  <2>1. CASE pc = "gather"
    BY <2>1 DEF ShuffleAgreement
  <2>2. CASE pc # "gather"
    BY <2>2 DEF Agreement, ShuffleAgreement
  <2> QED BY <2>1, <2>2
<1>5. \A d, e \in Clients : pc' \notin {"construct", "idle", "function"} =>
        Shuffles(d)' = Shuffles(e)'
  BY <1>1, <1>2
<1> QED BY <1>1, <1>3, <1>4, <1>5 DEF Agreement

\* While only c's worker has moved, c's model has not.
LEMMA PendingStays ==
  ASSUME NEW c \in Clients, StepAt(c), model' = model, ClientIsCurrent(c),
         Pending(c)' = Pending(c) \/ Pending(c)' \cup {"Shuffle"} = Pending(c)
  PROVE  ClientIsCurrent(c)'
<1>1. UNCHANGED <<pc, train, params, evaluations>>
  BY DEF StepAt
<1>2. \A e : e # "Shuffle" => (e \in Pending(c)' <=> e \in Pending(c))
  OBVIOUS
<1>3. HasLoaded(c)' <=> HasLoaded(c)
  BY <1>1, <1>2 DEF HasLoaded
<1>4. \A k \in SentKinds : k # "Shuffle"
  BY KindsAssumption DEF SentKinds, Kinds
<1>5. SentKinds' = SentKinds
  BY DEF SentKinds
<1> HIDE DEF Pending, SentKinds
<1>6. \A k \in SentKinds : k \in Pending(c)' <=> k \in Pending(c)
  BY <1>2, <1>4
<1> QED BY <1>1, <1>2, <1>3, <1>5, <1>6 DEF ClientIsCurrent

LEMMA SendKeepsBasis ==
  ASSUME IInv, Current, Agreement, NEW c \in Clients, SendCall(c)
  PROVE  Current' /\ Agreement'
<1> DEFINE q == toClient[c]
           m == Message(c, Head(work[c]))
<1>1. /\ TypeOK /\ PhaseWork /\ Exchange
  BY DEF IInv
<1>2. /\ work[c] # <<>> /\ c \notin waiting /\ Head(work[c]) # "Shuffle"
      /\ toClient' = [toClient EXCEPT ![c] = Append(q, m)]
      /\ UNCHANGED <<pc, train, params, evaluations, connectedClients, gathered, work, phase,
                     fromClient, model>>
  BY DEF SendCall, serverVars
<1>3. /\ m \in Request /\ m.type = Head(work[c]) /\ RequestIsCurrent(m)
  <2>1. train \in Nat /\ params \in Nat
    BY <1>1, OutcomesAssumption DEF TypeOK
  <2>2. /\ Head(work[c]) \in Calls
        /\ Head(work[c]) = "Evaluate" => Chunk(c) \in [begin : Nat, cols : Nat]
    BY <1>1, <1>2, NextCall
  <2> QED BY <2>1, <2>2, MessageFacts DEF RequestIsCurrent
<1>4. q \in Seq(Request)
  BY <1>1 DEF TypeOK
<1> HIDE DEF m
<1>5. /\ Len(q) \in Nat /\ DOMAIN q = 1 .. Len(q)
      /\ Len(toClient'[c]) = Len(q) + 1 /\ DOMAIN toClient'[c] = 1 .. Len(q) + 1
      /\ \A k \in 1 .. Len(q) : toClient'[c][k] = q[k]
      /\ toClient'[c][Len(q) + 1] = m
  BY <1>1, <1>2, <1>3, <1>4, QueueAppend DEF TypeOK
<1>6. \A k \in DOMAIN toClient'[c] : k \in DOMAIN q \/ k = Len(q) + 1
  BY <1>5
<1>7. StepAt(c)
  BY <1>1, <1>2 DEF StepAt, TypeOK
<1>8. Pending(c)' = Pending(c)
  BY <1>2 DEF Pending
<1>9. TravelAt(c)
  <2>1. \A k \in DOMAIN toClient'[c] : RequestIsCurrent(toClient'[c][k])
    BY <1>3, <1>5, <1>6 DEF Current, TravelIsCurrent
  <2> QED BY <1>2, <2>1 DEF TravelAt, Current, TravelIsCurrent
<1>10. Current'
  BY <1>2, <1>7, <1>8, <1>9, PendingStays, StepKeepsCurrent DEF Current
<1>11. Queued(c)' = Queued(c)
  <2>1. ~ HasRequest(c)
    BY <1>1, <1>2 DEF HasRequest, Exchange
  <2>2. HasRequest(c)'
    <3>1. Len(q) + 1 \in DOMAIN toClient'[c]
      BY <1>5
    <3> QED BY <1>2, <1>3, <1>5, <3>1 DEF HasRequest
  <2> QED BY <1>5, <2>1, <2>2 DEF Queued
<1>12. Shuffles(c)' = Shuffles(c)
  BY <1>2, <1>11 DEF Shuffles
<1>13. Agreement'
  BY <1>2, <1>7, <1>12, StepKeepsAgreement DEF Agreement
<1> QED BY <1>10, <1>13

LEMMA ShuffleKeepsBasis ==
  ASSUME IInv, Current, Agreement, NEW c \in Clients, SendShuffle(c)
  PROVE  Current' /\ Agreement'
<1> DEFINE q == toClient[c]
           m == Message(c, "Shuffle")
<1>1. /\ TypeOK /\ PhaseWork /\ Exchange
  BY DEF IInv
<1>2. /\ work[c] # <<>> /\ Head(work[c]) = "Shuffle"
      /\ toClient' = [toClient EXCEPT ![c] = Append(q, m)]
      /\ work' = [work EXCEPT ![c] = Tail(work[c])]
      /\ UNCHANGED <<pc, train, params, evaluations, connectedClients, gathered, phase,
                     fromClient, model>>
  BY DEF SendShuffle, serverVars
<1>3. m \in Request /\ m.type = "Shuffle" /\ RequestIsCurrent(m)
  <2>1. train \in Nat /\ params \in Nat /\ "Shuffle" \in Calls
    BY <1>1, OutcomesAssumption, CallsAre DEF TypeOK
  <2>2. m \in Request /\ m.type = "Shuffle"
    BY <2>1, MessageFacts
  <2> HIDE DEF m
  <2> QED BY <2>2 DEF RequestIsCurrent, Kinds
<1>4. q \in Seq(Request) /\ work[c] \in Seq(Calls)
  BY <1>1 DEF TypeOK
<1>a. pc = "shuffle" /\ fromClient[c] = <<>> /\ ~ HasRequest(c)
  <2>1. Head(work[c]) \in CallsOf(pc)
    BY <1>1, <1>2, NextCall
  <2>2. pc = "shuffle" /\ c \notin waiting
    BY <1>1, <1>2, <2>1, CallsOfPhases DEF Exchange
  <2> QED BY <1>1, <2>2 DEF Exchange, HasRequest
<1> HIDE DEF m
<1>5. /\ Len(q) \in Nat /\ DOMAIN q = 1 .. Len(q)
      /\ Len(toClient'[c]) = Len(q) + 1 /\ DOMAIN toClient'[c] = 1 .. Len(q) + 1
      /\ \A k \in 1 .. Len(q) : toClient'[c][k] = q[k]
      /\ toClient'[c][Len(q) + 1] = m
  BY <1>1, <1>2, <1>3, <1>4, QueueAppend DEF TypeOK
<1>6. \A k \in DOMAIN toClient'[c] : k \in DOMAIN q \/ k = Len(q) + 1
  BY <1>5
<1>w. /\ work'[c] = Tail(work[c]) /\ Tail(work[c]) \in Seq(Calls)
      /\ Len(work[c]) \in Nat \ {0} /\ Len(Tail(work[c])) = Len(work[c]) - 1
  BY <1>1, <1>2, <1>4, QueueTail DEF TypeOK
<1>7. StepAt(c)
  BY <1>1, <1>2 DEF StepAt, TypeOK
<1>8. Pending(c)' \subseteq {"Shuffle"} /\ Pending(c) = {"Shuffle"}
  <2>1. IInv'
    BY ShuffleKeepsInv
  <2>2. CallsOf(pc) = {"Shuffle"} /\ CallsOf(pc)' = {"Shuffle"}
    BY <1>2, <1>a DEF CallsOf
  <2>3. Pending(c) \subseteq {"Shuffle"}
    BY <2>2, PendingCalls
  <2>4. Pending(c)' \subseteq CallsOf(pc)'
    BY <2>1 DEF Pending, IInv, PhaseWork
  <2>5. "Shuffle" \in Pending(c)
    <3>1. 1 \in DOMAIN work[c] /\ work[c][1] = "Shuffle" /\ Len(fromClient[c]) = 0
      BY <1>2, <1>4, <1>a, QueueTail
    <3> QED BY <3>1 DEF Pending
  <2> QED BY <2>2, <2>3, <2>4, <2>5
<1>9. TravelAt(c)
  <2>1. \A k \in DOMAIN toClient'[c] : RequestIsCurrent(toClient'[c][k])
    BY <1>3, <1>5, <1>6 DEF Current, TravelIsCurrent
  <2> QED BY <1>2, <2>1 DEF TravelAt, Current, TravelIsCurrent
<1>10. Current'
  <2>1. ClientIsCurrent(c)
    BY <1>a DEF Current
  <2>2. Pending(c)' \cup {"Shuffle"} = Pending(c)
    BY <1>8
  <2>3. ClientIsCurrent(c)'
    BY <1>2, <1>7, <2>1, <2>2, PendingStays
  <2> QED BY <1>2, <1>7, <1>9, <2>3, StepKeepsCurrent
<1>11. Queued(c)' = Len(q) + 1 /\ Queued(c) = Len(q)
  <2>1. ~ HasRequest(c)'
    <3>1. \A k \in DOMAIN toClient'[c] : toClient'[c][k].type = "Shuffle"
      BY <1>3, <1>5, <1>6, <1>a DEF HasRequest
    <3> QED BY <3>1 DEF HasRequest
  <2> QED BY <1>5, <1>a, <2>1 DEF Queued
<1>12. Shuffles(c)' = Shuffles(c)
  <2>1. model[c].shuffles \in Nat
    BY <1>1, ModelFacts
  <2>2. Len(work'[c]) = Len(work[c]) - 1 /\ Len(work[c]) \in Nat
    BY <1>w
  <2>3. \A s, l, w \in Nat : s + (l + 1) + (w - 1) = s + l + w
    OBVIOUS
  <2>4. model[c].shuffles + Queued(c)' + Len(work'[c])
          = model[c].shuffles + Queued(c) + Len(work[c])
    <3> DEFINE s == model[c].shuffles
               l == Len(q)
               w == Len(work[c])
    <3>1. s \in Nat /\ l \in Nat /\ w \in Nat /\ Len(work'[c]) = w - 1
      BY <1>5, <2>1, <2>2
    <3>2. Queued(c)' = l + 1 /\ Queued(c) = l
      BY <1>11
    <3> HIDE DEF s, l, w, q
    <3>3. s + (l + 1) + (w - 1) = s + l + w
      BY <2>3, <3>1
    <3>4. s + Queued(c)' + Len(work'[c]) = s + Queued(c) + w
      BY <3>1, <3>2, <3>3
    <3> QED BY <3>4 DEF s, w
  <2> QED BY <1>2, <1>a, <2>4 DEF Shuffles
<1>13. Agreement'
  BY <1>2, <1>7, <1>12, <1>a, StepKeepsAgreement DEF Agreement
<1> QED BY <1>10, <1>13

LEMMA AnswerKeepsBasis ==
  ASSUME IInv, Current, Agreement, NEW c \in Clients, GetAnswer(c)
  PROVE  Current' /\ Agreement'
<1> DEFINE a == Head(fromClient[c])
<1>1. /\ TypeOK /\ PhaseWork /\ Exchange
  BY DEF IInv
<1>2. /\ c \in waiting /\ fromClient[c] # <<>>
      /\ a.type = "Gradient" => gathered' = gathered \cup {a.on}
      /\ a.type # "Gradient" => gathered' = gathered
      /\ fromClient' = [fromClient EXCEPT ![c] = Tail(fromClient[c])]
      /\ work' = [work EXCEPT ![c] = Tail(work[c])]
      /\ UNCHANGED <<pc, train, params, evaluations, connectedClients, phase, toClient, model>>
  BY DEF GetAnswer, serverVars
<1>3. /\ fromClient[c] \in Seq(Answer) /\ work[c] \in Seq(Calls) /\ work[c] # <<>>
      /\ Len(fromClient[c]) = 1 /\ Head(work[c]) # "Shuffle"
  BY <1>1, <1>2 DEF TypeOK, Exchange
<1>4. /\ a = fromClient[c][1] /\ 1 \in DOMAIN fromClient[c]
      /\ Tail(fromClient[c]) \in Seq(Answer) /\ Len(Tail(fromClient[c])) = 0
  <2>1. Len(Tail(fromClient[c])) = Len(fromClient[c]) - 1
    BY <1>2, <1>3, QueueTail
  <2> QED BY <1>2, <1>3, <2>1, QueueTail
<1>5. fromClient'[c] = Tail(fromClient[c]) /\ work'[c] = Tail(work[c])
  BY <1>1, <1>2 DEF TypeOK
<1>6. Len(fromClient'[c]) = 0 /\ DOMAIN fromClient'[c] = {}
  <2> DEFINE r == Tail(fromClient[c])
  <2>1. r \in Seq(Answer) /\ Len(r) = 0
    BY <1>4
  <2> HIDE DEF r
  <2>2. DOMAIN r = {}
    BY <2>1
  <2> QED BY <1>5, <2>1, <2>2 DEF r
<1>7. StepAt(c)
  BY <1>1, <1>2 DEF StepAt, TypeOK
<1> HIDE DEF a
<1>8. Pending(c)' = Pending(c)
  <2>1. /\ DOMAIN work[c] = 1 .. Len(work[c]) /\ Len(work[c]) \in Nat \ {0}
        /\ DOMAIN work'[c] = 1 .. Len(work[c]) - 1
        /\ \A k \in 1 .. Len(work[c]) - 1 : work'[c][k] = work[c][k + 1]
    BY <1>3, <1>5, QueueTail
  <2>2. ASSUME NEW e, e \in Pending(c)' PROVE e \in Pending(c)
    <3>1. PICK k \in DOMAIN work'[c] : k > 0 /\ e = work'[c][k]
      BY <1>6, <2>2 DEF Pending
    <3>2. k + 1 \in DOMAIN work[c] /\ k + 1 > 1 /\ e = work[c][k + 1]
      BY <2>1, <3>1
    <3> QED BY <1>3, <3>2 DEF Pending
  <2>3. ASSUME NEW e, e \in Pending(c) PROVE e \in Pending(c)'
    <3>1. PICK k \in DOMAIN work[c] : k > 1 /\ e = work[c][k]
      BY <1>3, <2>3 DEF Pending
    <3>2. k - 1 \in DOMAIN work'[c] /\ k - 1 > 0 /\ (k - 1) + 1 = k
      BY <2>1, <3>1
    <3>3. e = work'[c][k - 1]
      BY <2>1, <3>1, <3>2
    <3> QED BY <1>6, <3>2, <3>3 DEF Pending
  <2> QED BY <2>2, <2>3
\* A gradient is there only while a batch is gathered.
<1>9. /\ a.type = "Gradient" => pc = "gather" /\ BasisIsCurrent(a.on)
      /\ pc = "gather" => a.on.shuffles = Shuffles(c)
      /\ pc # "gather" => gathered' = gathered
  <2>1. a.type = "Gradient" => pc = "gather" /\ BasisIsCurrent(a.on)
    BY <1>4 DEF Current, TravelIsCurrent
  <2>2. pc = "gather" => a.on.shuffles = Shuffles(c)
    BY <1>4 DEF Agreement
  <2> QED BY <1>2, <2>1, <2>2
<1>10. TravelAt(c)
  <2>1. \A k \in DOMAIN toClient'[c] : RequestIsCurrent(toClient'[c][k])
    BY <1>2 DEF Current, TravelIsCurrent
  <2>2. pc \in {"gather", "step"} => \A on \in gathered' : BasisIsCurrent(on)
    BY <1>2, <1>9 DEF Current, TravelIsCurrent
  <2> QED BY <1>6, <2>1, <2>2 DEF TravelAt
<1>11. Current'
  BY <1>2, <1>7, <1>8, <1>9, <1>10, PendingStays, StepKeepsCurrent DEF Current
<1>12. pc # "shuffle"
  BY <1>1, <1>3, NextCall, CallsOfPhases DEF CallsOf
<1>13. Shuffles(c)' = Shuffles(c)
  <2>1. Queued(c)' = Queued(c)
    BY <1>2 DEF Queued, HasRequest
  <2> QED BY <1>2, <1>12, <2>1 DEF Shuffles
<1>14. Agreement'
  <2>1. pc = "gather" => \A on \in gathered' : on.shuffles = Shuffles(c)
    BY <1>2, <1>9 DEF Agreement
  <2> QED BY <1>6, <1>7, <1>9, <1>13, <2>1, StepKeepsAgreement
<1> QED BY <1>11, <1>14

\* What a client reads is current, and the shuffles in its queue go down by the
\* one it reads.
LEMMA ReadingBasis ==
  ASSUME IInv, Current, NEW c \in Clients, Reading(c)
  PROVE  LET m == Head(toClient[c]) IN
         /\ RequestIsCurrent(m)
         /\ \A k \in DOMAIN toClient'[c] : RequestIsCurrent(toClient'[c][k])
         /\ \A d \in Clients \ {c} : toClient'[d] = toClient[d]
         /\ m.type = "Shuffle" => Queued(c) \in Int /\ Queued(c)' = Queued(c) - 1
         /\ m.type # "Shuffle" => Queued(c) = 0 /\ Queued(c)' = 0
<1> DEFINE q == toClient[c]
           m == Head(q)
<1>1. q \in Seq(Request) /\ q # <<>> /\ toClient' = [toClient EXCEPT ![c] = Tail(q)]
      /\ toClient \in [Clients -> Seq(Request)]
  BY DEF IInv, TypeOK, Reading
<1>2. /\ Len(q) \in Nat \ {0} /\ DOMAIN q = 1 .. Len(q) /\ 1 \in DOMAIN q
      /\ m = q[1] /\ Len(Tail(q)) = Len(q) - 1
      /\ DOMAIN Tail(q) = 1 .. Len(q) - 1
      /\ \A k \in 1 .. Len(q) - 1 : Tail(q)[k] = q[k + 1]
  BY <1>1, QueueTail
<1>3. toClient'[c] = Tail(q) /\ \A d \in Clients \ {c} : toClient'[d] = toClient[d]
  BY <1>1
<1>4. \A k \in DOMAIN q : RequestIsCurrent(q[k])
  BY DEF Current, TravelIsCurrent
<1>5. \A k \in DOMAIN toClient'[c] : k + 1 \in DOMAIN q /\ toClient'[c][k] = q[k + 1]
  BY <1>2, <1>3
<1>6. RequestIsCurrent(m) /\ \A k \in DOMAIN toClient'[c] : RequestIsCurrent(toClient'[c][k])
  BY <1>2, <1>4, <1>5
<1>7. ASSUME m.type = "Shuffle"
      PROVE  Queued(c) \in Int /\ Queued(c)' = Queued(c) - 1
  <2>1. HasRequest(c)' <=> HasRequest(c)
    <3>1. HasRequest(c)' => HasRequest(c)
      BY <1>5 DEF HasRequest
    <3>2. ASSUME HasRequest(c) PROVE HasRequest(c)'
      <4>1. PICK k \in DOMAIN q : q[k].type # "Shuffle"
        BY <3>2 DEF HasRequest
      <4>2. k # 1
        BY <1>2, <1>7, <4>1
      <4>3. k - 1 \in DOMAIN Tail(q) /\ Tail(q)[k - 1] = q[k]
        BY <1>2, <4>2
      <4> QED BY <1>3, <4>1, <4>3 DEF HasRequest
    <3> QED BY <3>1, <3>2
  <2>2. Len(toClient'[c]) = Len(q) - 1
    BY <1>2, <1>3
  <2> DEFINE n == IF HasRequest(c) THEN 1 ELSE 0
  <2>3. Queued(c) = Len(q) - n /\ Queued(c)' = Len(toClient'[c]) - n
    BY <2>1 DEF Queued
  <2>4. n \in Int /\ Len(q) \in Int
    BY <1>2
  <2> HIDE DEF n, q
  <2> QED BY <2>2, <2>3, <2>4
<1>8. ASSUME m.type # "Shuffle"
      PROVE  Queued(c) = 0 /\ Queued(c)' = 0
  <2>1. Len(q) = 1
    BY <1>8, MessageRead
  <2>2. HasRequest(c)
    BY <1>2, <1>8 DEF HasRequest
  <2>3. Len(toClient'[c]) = 0 /\ DOMAIN toClient'[c] = {}
    BY <1>2, <1>3, <2>1
  <2>4. ~ HasRequest(c)'
    BY <2>3 DEF HasRequest
  <2>5. Queued(c) = Len(q) - 1 /\ Queued(c)' = Len(toClient'[c]) - 0
    BY <2>2, <2>4 DEF Queued
  <2> HIDE DEF q
  <2> QED BY <2>1, <2>3, <2>5
<1> QED BY <1>3, <1>6, <1>7, <1>8

\* With its answer, the call is no longer pending.
LEMMA ReplyEndsCall ==
  ASSUME IInv, NEW c \in Clients, Reading(c), Head(toClient[c]).type # "Shuffle",
         NEW a, Reply(c, a)
  PROVE  /\ DOMAIN fromClient'[c] = {1} /\ fromClient'[c][1] = a
         /\ \A d \in Clients \ {c} : fromClient'[d] = fromClient[d]
         /\ Head(toClient[c]).type \in Pending(c)
         /\ Pending(c) \subseteq Pending(c)' \cup {Head(toClient[c]).type}
         /\ Pending(c)' \subseteq Pending(c)
         /\ pc = "gather" => Pending(c)' = {}
<1> DEFINE m == Head(toClient[c])
<1>1. /\ fromClient[c] = <<>> /\ work[c] # <<>> /\ m.type = Head(work[c])
      /\ fromClient \in [Clients -> Seq(Answer)] /\ work[c] \in Seq(Calls) /\ work' = work
      /\ pc = "gather" => Len(work[c]) = 1
  BY MessageRead DEF IInv, TypeOK, PhaseWork, Reading
<1>2. fromClient' = [fromClient EXCEPT ![c] = <<a>>]
  <2>1. Append(<<>>, a) = <<a>>
    OBVIOUS
  <2> QED BY <1>1, <2>1 DEF Reply
<1>3. fromClient'[c] = <<a>> /\ \A d \in Clients \ {c} : fromClient'[d] = fromClient[d]
  BY <1>1, <1>2
<1>4. Len(<<a>>) = 1 /\ DOMAIN <<a>> = {1} /\ <<a>>[1] = a
  <2>1. DOMAIN <<a>> = 1 .. 1 /\ 1 .. 1 = {1}
    OBVIOUS
  <2> QED BY <2>1
<1>5. /\ DOMAIN work[c] = 1 .. Len(work[c]) /\ 1 \in DOMAIN work[c] /\ Len(work[c]) \in Nat
      /\ m.type = work[c][1]
  BY <1>1, QueueTail
<1>6. Len(fromClient[c]) = 0 /\ Len(fromClient'[c]) = 1
  BY <1>1, <1>3, <1>4
<1> HIDE DEF m
<1>7. \A k \in DOMAIN work[c] : k > 0 /\ (k # 1 => k > 1) /\ (Len(work[c]) = 1 => ~ (k > 1))
  <2> DEFINE n == Len(work[c])
  <2>1. n \in Nat /\ DOMAIN work[c] = 1 .. n
    BY <1>5
  <2> HIDE DEF n
  <2>2. \A k \in 1 .. n : k > 0 /\ (k # 1 => k > 1) /\ (n = 1 => ~ (k > 1))
    BY <2>1
  <2> QED BY <2>1, <2>2 DEF n
<1>8. Pending(c) = {work[c][k] : k \in DOMAIN work[c]}
  BY <1>6, <1>7 DEF Pending
<1>9. Pending(c)' = {work[c][k] : k \in {j \in DOMAIN work[c] : j > 1}}
  BY <1>1, <1>6 DEF Pending
<1>10. m.type \in Pending(c) /\ Pending(c)' \subseteq Pending(c)
  BY <1>5, <1>8, <1>9
<1>11. Pending(c) \subseteq Pending(c)' \cup {m.type}
  BY <1>5, <1>7, <1>8, <1>9
<1>12. pc = "gather" => Pending(c)' = {}
  BY <1>1, <1>7, <1>9
<1> QED BY <1>3, <1>4, <1>10, <1>11, <1>12 DEF m

\* A handler that answers its call c keeps what is current if the answer is, and
\* if it leaves the shuffles as they are once the data has been sent.
LEMMA AnsweringKeepsBasis ==
  ASSUME IInv, Current, Agreement, NEW c \in Clients, Reading(c),
         Head(toClient[c]).type # "Shuffle", NEW a, Reply(c, a), phase' = phase,
         NEW x \in ClientModel, model' = [model EXCEPT ![c] = x], ClientIsCurrent(c)',
         a.type = "Gradient" => pc = "gather" /\ BasisIsCurrent(a.on),
         pc = "gather" => a.on.shuffles = IF x.isInit THEN x.shuffles ELSE 0,
         pc # "function" => (IF x.isInit THEN x.shuffles ELSE 0)
                              = (IF model[c].isInit THEN model[c].shuffles ELSE 0)
  PROVE  Current' /\ Agreement'
<1> DEFINE m == Head(toClient[c])
<1>1. /\ RequestIsCurrent(m)
      /\ \A k \in DOMAIN toClient'[c] : RequestIsCurrent(toClient'[c][k])
      /\ \A d \in Clients \ {c} : toClient'[d] = toClient[d]
      /\ Queued(c) = 0 /\ Queued(c)' = 0
  BY ReadingBasis
<1>2. /\ DOMAIN fromClient'[c] = {1} /\ fromClient'[c][1] = a
      /\ \A d \in Clients \ {c} : fromClient'[d] = fromClient[d]
  BY ReplyEndsCall
<1>3. m.type \in CallsOf(pc)
  BY MessageRead
<1>4. pc \notin {"construct", "idle", "shuffle", "step", "evaluate"}
  BY <1>3 DEF CallsOf
<1>5. UNCHANGED <<pc, train, params, evaluations, connectedClients, gathered, work>>
  BY DEF Reading, serverVars
<1>6. model'[c] = x /\ \A d \in Clients \ {c} : model'[d] = model[d]
  BY DEF IInv, TypeOK
<1>7. StepAt(c)
  BY <1>1, <1>2, <1>5, <1>6 DEF StepAt
<1>8. TravelAt(c)
  <2>1. \A k \in DOMAIN fromClient'[c] : fromClient'[c][k].type = "Gradient" =>
          pc = "gather" /\ BasisIsCurrent(fromClient'[c][k].on)
    BY <1>2
  <2>2. pc \in {"gather", "step"} => \A on \in gathered' : BasisIsCurrent(on)
    BY <1>5 DEF Current, TravelIsCurrent
  <2> QED BY <1>1, <2>1, <2>2 DEF TravelAt
<1>9. Current'
  BY <1>5, <1>7, <1>8, StepKeepsCurrent
<1>10. /\ Shuffles(c) = IF model[c].isInit THEN model[c].shuffles ELSE 0
       /\ Shuffles(c)' = IF x.isInit THEN x.shuffles ELSE 0
  <2>1. x.shuffles \in Nat /\ model[c].shuffles \in Nat
    BY ModelFacts DEF IInv, ClientModel
  <2>2. \A s \in Nat : s + 0 + 0 = s
    OBVIOUS
  <2>3. Shuffles(c) = IF model[c].isInit THEN model[c].shuffles + 0 + 0 ELSE 0
    BY <1>1, <1>4 DEF Shuffles
  <2>4. Shuffles(c)' = IF x.isInit THEN x.shuffles + 0 + 0 ELSE 0
    BY <1>1, <1>4, <1>5, <1>6 DEF Shuffles
  <2> QED BY <2>1, <2>2, <2>3, <2>4
<1>11. pc # "function" => Shuffles(c)' = Shuffles(c)
  BY <1>10
<1>12. ASSUME pc = "gather"
       PROVE  /\ \A on \in gathered' : on.shuffles = Shuffles(c)
              /\ \A k \in DOMAIN fromClient'[c] : fromClient'[c][k].on.shuffles = Shuffles(c)
  <2>1. \A on \in gathered' : on.shuffles = Shuffles(c)
    BY <1>5, <1>12 DEF Agreement
  <2>2. a.on.shuffles = Shuffles(c)
    BY <1>10, <1>11, <1>12
  <2> QED BY <1>2, <2>1, <2>2
<1>13. Agreement'
  BY <1>5, <1>7, <1>11, <1>12, StepKeepsAgreement
<1> QED BY <1>9, <1>13

\* Data is staged, a function replaced and parameters set as the server has
\* them, and an evaluation is made with the data that has been staged.
LEMMA HandlersKeepBasis ==
  ASSUME AllReady, IInv, Current, Agreement, NEW c \in Clients, Handler(c)
  PROVE  Current' /\ Agreement'
<1> DEFINE m == Head(toClient[c])
<1>1. Reading(c) /\ TypeOK /\ InTrain
  BY DEF IInv, Current, Handler, DropMessage, HandleData, HandleFunction, HandleParameters,
         HandleShuffle, HandleEvaluate
<1>2. /\ RequestIsCurrent(m)
      /\ m.type = "Shuffle" => Queued(c) \in Int /\ Queued(c)' = Queued(c) - 1
      /\ \A k \in DOMAIN toClient'[c] : RequestIsCurrent(toClient'[c][k])
      /\ \A d \in Clients \ {c} : toClient'[d] = toClient[d]
  BY <1>1, ReadingBasis
<1>3. m \in Request /\ (m.type # "Shuffle" => m.type \in CallsOf(pc))
  BY <1>1, MessageRead
<1>4. UNCHANGED <<pc, train, params, evaluations, connectedClients, gathered, work>>
  BY <1>1 DEF Reading, serverVars
<1>5. /\ model \in [Clients -> ClientModel] /\ model[c] \in ClientModel
      /\ model[c].staged \in [Kinds -> Nat] /\ model[c].loaded \in [Kinds -> Nat]
      /\ model[c].isInit \in BOOLEAN
  BY <1>1, ModelFacts DEF TypeOK
<1>6. \A x \in ClientModel : model' = [model EXCEPT ![c] = x] => model'[c] = x
  BY <1>5
<1>7. Status.type # "Gradient"
  BY DEF Status
<1>8. train \in Nat /\ params \in Nat /\ evaluations \in Nat
  BY <1>1, OutcomesAssumption DEF TypeOK
<1>9. SentKinds \subseteq Kinds
  BY PendingCalls
<1>10. ~ DropMessage(c)
  <2>1. registered[c] = Len(HandlerOrder)
    BY <1>1 DEF Reading, AllReady
  <2>2. Handlers(c) = Calls
    <3>1. DOMAIN HandlerOrder = 1 .. Len(HandlerOrder)
      BY DEF HandlerOrder
    <3> QED BY <2>1, <3>1 DEF Handlers, Calls
  <2>3. m.type \in Calls
    BY <1>3, RequestFacts
  <2> QED BY <2>2, <2>3 DEF DropMessage
<1>11. CASE HandleData(c)
  <2> DEFINE x == [model[c] EXCEPT !.staged[m.type] = m.train]
  <2>1. /\ m.type \in Kinds /\ model' = [model EXCEPT ![c] = x]
        /\ Reply(c, Status) /\ phase' = phase
    BY <1>11 DEF HandleData
  <2>2. m.train = train /\ m.type # "Shuffle" /\ m.type # "Function" /\ m.type # "Parameters"
    BY <1>2, <2>1 DEF RequestIsCurrent, Kinds
  <2>3. pc = "data" /\ evaluations = 0 /\ ~ HasLoaded(c) /\ ~ HasLoaded(c)'
    <3>1. pc = "data"
      BY <1>3, <2>1, <2>2, CallsOfPhases
    <3> QED BY <1>1, <1>4, <3>1 DEF InTrain, HasLoaded
  <2>4. /\ "Function" \notin Pending(c) /\ "Parameters" \notin Pending(c)
        /\ Pending(c) \subseteq Pending(c)' \cup {m.type}
        /\ Pending(c)' \subseteq Pending(c)
    BY <1>1, <2>1, <2>2, <2>3, PendingCalls, ReplyEndsCall
  <2>5. /\ model[c].function = train /\ model[c].params = params /\ ~ model[c].isInit
        /\ \A k \in SentKinds \ Pending(c) : model[c].staged[k] = train
    <3>1. ClientIsCurrent(c)
      BY <2>3 DEF Current
    <3> QED BY <2>3, <2>4, <3>1 DEF ClientIsCurrent
  <2> HIDE DEF m
  <2>6. /\ x \in ClientModel /\ x.function = model[c].function /\ x.params = model[c].params
        /\ x.isInit = model[c].isInit /\ x.shuffles = model[c].shuffles
        /\ x.staged = [model[c].staged EXCEPT ![m.type] = train]
    <3>1. [model[c].staged EXCEPT ![m.type] = train] \in [Kinds -> Nat]
      BY <1>5, <1>8, <2>1
    <3> QED BY <1>5, <2>2, <3>1 DEF ClientModel
  <2> HIDE DEF x
  <2>7. ASSUME NEW k \in SentKinds \ Pending(c)' PROVE x.staged[k] = train
    <3>1. k \in Kinds
      BY <1>9
    <3>2. CASE k = m.type
      BY <1>5, <2>6, <3>1, <3>2
    <3>3. CASE k # m.type
      <4>1. k \notin Pending(c)
        BY <2>4, <2>7, <3>3
      <4> QED BY <1>5, <2>5, <2>6, <3>1, <3>3, <4>1
    <3> QED BY <3>2, <3>3
  <2>8. model'[c] = x
    BY <1>6, <2>1, <2>6
  <2>9. ClientIsCurrent(c)'
    <3>1. SentKinds' = SentKinds
      BY DEF SentKinds
    <3>2. \A k \in SentKinds \ Pending(c)' :
            (IF x.isInit THEN x.loaded ELSE x.staged)[k] = train
      BY <2>5, <2>6, <2>7
    <3> QED BY <1>4, <2>3, <2>5, <2>6, <2>8, <3>1, <3>2 DEF ClientIsCurrent
  <2> QED BY <1>1, <1>7, <2>1, <2>2, <2>3, <2>6, <2>9, AnsweringKeepsBasis DEF m
<1>12. CASE HandleFunction(c)
  <2> DEFINE x == [model[c] EXCEPT !.isInit = FALSE, !.function = m.train, !.params = m.params]
  <2>1. /\ m.type = "Function" /\ model' = [model EXCEPT ![c] = x]
        /\ Reply(c, Status) /\ phase' = phase
    BY <1>12 DEF HandleFunction, AllReady
  <2>2. m.train = train /\ m.params = params
    BY <1>2, <2>1 DEF RequestIsCurrent
  <2>3. pc = "function" /\ evaluations = 0 /\ ~ HasLoaded(c)'
    <3>1. pc = "function"
      BY <1>3, <2>1, CallsOfPhases
    <3> QED BY <1>1, <1>4, <3>1 DEF InTrain, HasLoaded
  <2> HIDE DEF m
  <2>4. x \in ClientModel /\ x.function = train /\ x.params = params /\ ~ x.isInit
    BY <1>5, <1>8, <2>2 DEF ClientModel
  <2> HIDE DEF x
  <2>5. model'[c] = x
    BY <1>6, <2>1, <2>4
  <2>6. ClientIsCurrent(c)'
    BY <1>4, <2>3, <2>4, <2>5 DEF ClientIsCurrent
  <2> QED BY <1>1, <1>7, <2>1, <2>3, <2>4, <2>6, AnsweringKeepsBasis DEF m
<1>13. CASE HandleParameters(c)
  <2> DEFINE x == [model[c] EXCEPT !.params = m.params]
  <2>1. m.type = "Parameters"
    BY <1>13 DEF HandleParameters
  <2>2. m.params = params
    BY <1>2, <2>1 DEF RequestIsCurrent
  <2>3. pc = "stepping" /\ train > 0
    <3>1. pc = "stepping"
      BY <1>3, <2>1, CallsOfPhases
    <3> QED BY <1>1, <3>1 DEF InTrain
  <2>4. /\ model[c].function = train /\ (model[c].isInit <=> HasLoaded(c))
        /\ \A k \in SentKinds :
             (IF model[c].isInit THEN model[c].loaded ELSE model[c].staged)[k] = train
    <3>1. ClientIsCurrent(c) /\ "Function" \notin Pending(c)
      BY <2>3, PendingCalls DEF Current
    <3>2. \A k \in SentKinds : k \notin Pending(c)
      BY <2>3, PendingCalls
    <3> QED BY <2>3, <3>1, <3>2 DEF ClientIsCurrent
  <2>5. /\ model' = [model EXCEPT ![c] = x] /\ Reply(c, Status) /\ phase' = phase
    <3>1. model[c].function # 0
      BY <1>8, <2>3, <2>4
    <3> QED BY <1>13, <3>1 DEF HandleParameters
  <2> HIDE DEF m
  <2>6. /\ x \in ClientModel /\ x.function = model[c].function /\ x.params = params
        /\ x.isInit = model[c].isInit /\ x.shuffles = model[c].shuffles
        /\ x.loaded = model[c].loaded /\ x.staged = model[c].staged
    BY <1>5, <1>8, <2>2 DEF ClientModel
  <2> HIDE DEF x
  <2>7. model'[c] = x
    BY <1>6, <2>5, <2>6
  <2>8. HasLoaded(c)' <=> HasLoaded(c)
    BY <1>4, <2>3 DEF HasLoaded
  <2>9. ClientIsCurrent(c)'
    <3>1. SentKinds' = SentKinds
      BY DEF SentKinds
    <3> QED BY <1>4, <2>4, <2>6, <2>7, <2>8, <3>1 DEF ClientIsCurrent
  <2> QED BY <1>1, <1>7, <2>1, <2>3, <2>5, <2>6, <2>9, AnsweringKeepsBasis DEF m
<1>14. CASE HandleShuffle(c)
  <2> DEFINE x == [model[c] EXCEPT !.shuffles = model[c].shuffles + 1]
  <2>1. m.type = "Shuffle" /\ model' = [model EXCEPT ![c] = x]
        /\ UNCHANGED <<phase, fromClient>>
    BY <1>14 DEF HandleShuffle
  <2>2. /\ x \in ClientModel /\ x.function = model[c].function /\ x.params = model[c].params
        /\ x.isInit = model[c].isInit /\ x.shuffles = model[c].shuffles + 1
        /\ x.loaded = model[c].loaded /\ x.staged = model[c].staged
        /\ model[c].shuffles \in Nat
    <3>1. model[c].shuffles \in Nat
      BY <1>1, ModelFacts
    <3> QED BY <1>5, <3>1 DEF ClientModel
  <2> HIDE DEF x
  <2>3. model'[c] = x /\ \A d \in Clients \ {c} : model'[d] = model[d]
    BY <1>5, <2>1, <2>2
  <2>4. StepAt(c) /\ Pending(c)' = Pending(c)
    BY <1>2, <1>4, <2>1, <2>3 DEF StepAt, Pending
  <2>5. HasLoaded(c)' <=> HasLoaded(c)
    BY <1>4, <2>4 DEF HasLoaded
  <2>6. ClientIsCurrent(c) => ClientIsCurrent(c)'
    <3>1. SentKinds' = SentKinds
      BY DEF SentKinds
    <3> QED BY <1>4, <2>2, <2>3, <2>4, <2>5, <3>1 DEF ClientIsCurrent
  <2>7. TravelAt(c)
    BY <1>2, <1>4, <2>1 DEF TravelAt, Current, TravelIsCurrent
  <2>8. Current'
    BY <1>4, <2>1, <2>4, <2>6, <2>7, StepKeepsCurrent DEF Current
  <2>9. Shuffles(c)' = Shuffles(c)
    <3> DEFINE s == model[c].shuffles
               n == Queued(c)
               w == IF pc = "shuffle" THEN Len(work[c]) ELSE 0
    <3>1. s \in Nat /\ n \in Int /\ w \in Int
      <4>1. Len(work[c]) \in Int
        BY <1>1 DEF TypeOK
      <4> QED BY <1>2, <2>1, <2>2, <4>1
    <3>2. Queued(c)' = n - 1
      BY <1>2, <2>1
    <3>3. Shuffles(c) = IF model[c].isInit THEN s + n + w ELSE 0
      BY DEF Shuffles
    <3>4. Shuffles(c)' = IF model[c].isInit THEN (s + 1) + (n - 1) + w ELSE 0
      BY <1>4, <2>2, <2>3, <3>2 DEF Shuffles
    <3> HIDE DEF s, n, w
    <3>5. (s + 1) + (n - 1) + w = s + n + w
      BY <3>1
    <3> QED BY <3>3, <3>4, <3>5
  <2>10. Agreement'
    BY <1>4, <2>1, <2>4, <2>9, StepKeepsAgreement DEF Agreement
  <2> QED BY <2>8, <2>10
<1>15. CASE HandleEvaluate(c)
  <2> DEFINE x == Initalized(model[c])
             on == [function |-> x.function, loaded |-> x.loaded,
                    params |-> x.params, shuffles |-> x.shuffles]
             a == [type |-> "Gradient", begin |-> m.chunk.begin, cols |-> m.chunk.cols,
                   on |-> on]
  <2>0. m.type = "Evaluate"
    BY <1>15 DEF HandleEvaluate
  <2>2. pc = "gather"
    BY <1>3, <2>0, CallsOfPhases
  <2>4. /\ model[c].function = train /\ model[c].params = params
        /\ \A k \in SentKinds :
             (IF model[c].isInit THEN model[c].loaded ELSE model[c].staged)[k] = train
    <3>1. ClientIsCurrent(c) /\ "Function" \notin Pending(c) /\ "Parameters" \notin Pending(c)
      BY <2>2, PendingCalls DEF Current
    <3>2. \A k \in SentKinds : k \notin Pending(c)
      BY <2>2, PendingCalls
    <3> QED BY <2>2, <3>1, <3>2 DEF ClientIsCurrent
  <2>5. /\ x \in ClientModel /\ x.isInit
        /\ x.function = model[c].function /\ x.params = model[c].params
        /\ x.loaded = IF model[c].isInit THEN model[c].loaded ELSE model[c].staged
        /\ x.shuffles = IF model[c].isInit THEN model[c].shuffles ELSE 0
    <3>1. NoData \in [Kinds -> Nat]
      BY DEF NoData
    <3> QED BY <1>5, <3>1 DEF Initalized, ClientModel
  <2>11. ~ NothingToEvaluate(x)
    <3>1. train > 0 /\ x.function = train
      BY <1>1, <2>2, <2>4, <2>5 DEF InTrain
    <3>2. \A k \in SentKinds : x.loaded[k] = train
      BY <2>4, <2>5
    <3> QED BY <1>8, <3>1, <3>2 DEF NothingToEvaluate
  <2>1. /\ m.type = "Evaluate" /\ model' = [model EXCEPT ![c] = x]
        /\ Reply(c, a) /\ phase' = phase
    BY <1>15, <2>11 DEF HandleEvaluate
  <2>3. "Evaluate" \in Pending(c) /\ Pending(c)' = {}
    BY <1>1, <2>1, <2>2, ReplyEndsCall
  <2> HIDE DEF x
  <2>6. model'[c] = x
    BY <1>6, <2>1, <2>5
  <2>7. evaluations > 0 /\ HasLoaded(c)'
    BY <1>1, <1>4, <2>2, <2>3 DEF InTrain, HasLoaded
  <2>8. ClientIsCurrent(c)'
    <3>1. SentKinds' = SentKinds
      BY DEF SentKinds
    <3> QED BY <1>4, <2>4, <2>5, <2>6, <2>7, <3>1 DEF ClientIsCurrent
  <2>9. BasisIsCurrent(on)
    BY <2>4, <2>5 DEF BasisIsCurrent
  <2>10. a.type = "Gradient" /\ a.on = on /\ on.shuffles = x.shuffles
    <3> HIDE DEF m
    <3> QED OBVIOUS
  <2> HIDE DEF a, on
  <2> QED BY <1>1, <2>1, <2>2, <2>5, <2>8, <2>9, <2>10, AnsweringKeepsBasis
<1> QED BY <1>10, <1>11, <1>12, <1>13, <1>14, <1>15 DEF Handler

\* No client starts late, as all of them listen; handlers are only added.
LEMMA OthersKeepBasis ==
  ASSUME IInv, Current, Agreement,
         UNCHANGED vars \/ \E c \in Clients : Alone(c)
  PROVE  Current' /\ Agreement'
<1>1. UNCHANGED <<pc, train, params, evaluations, connectedClients, gathered, work, phase,
                  toClient, fromClient, model>>
  <2>1. CASE UNCHANGED vars
    BY <2>1 DEF vars, serverVars
  <2>2. ASSUME NEW c \in Clients, StartClient(c) PROVE FALSE
    BY <2>2 DEF StartClient, Current, InTrain
  <2>3. ASSUME NEW c \in Clients, RegisterHandler(c)
        PROVE  UNCHANGED <<pc, train, params, evaluations, connectedClients, gathered, work,
                           phase, toClient, fromClient, model>>
    BY <2>3 DEF RegisterHandler, serverVars
  <2>4. ASSUME NEW c \in Clients, LoseCall(c)
        PROVE  UNCHANGED <<pc, train, params, evaluations, connectedClients, gathered, work,
                           phase, toClient, fromClient, model>>
    BY <2>4 DEF LoseCall, serverVars
  <2> QED BY <2>1, <2>2, <2>3, <2>4 DEF Alone
<1>2. \A c \in Clients : Pending(c)' = Pending(c) /\ Shuffles(c)' = Shuffles(c)
  BY <1>1 DEF Pending, Shuffles, Queued, HasRequest
<1>3. \A c \in Clients : HasLoaded(c)' <=> HasLoaded(c)
  BY <1>1, <1>2 DEF HasLoaded
<1>4. \A c \in Clients : ClientIsCurrent(c) => ClientIsCurrent(c)'
  BY <1>1, <1>2, <1>3 DEF ClientIsCurrent, SentKinds
<1>5. InTrain' /\ TravelIsCurrent'
  <2>1. InTrain'
    BY <1>1 DEF Current, InTrain
  <2>2. TravelIsCurrent'
    BY <1>1 DEF Current, TravelIsCurrent, RequestIsCurrent, BasisIsCurrent, SentKinds
  <2> QED BY <2>1, <2>2
<1>6. Current'
  BY <1>1, <1>4, <1>5 DEF Current
<1>7. Agreement'
  BY <1>1, <1>2 DEF Agreement, ShuffleAgreement
<1> QED BY <1>6, <1>7

LEMMA CurrentInductive ==
  ASSUME AllReady
  PROVE  Spec => [](IInv /\ Current /\ Agreement)
<1>1. Init => Current /\ Agreement
  <2> SUFFICES ASSUME Init PROVE Current /\ Agreement
    OBVIOUS
  <2>1. /\ pc = "construct" /\ gathered = {}
        /\ \A c \in Clients : /\ toClient[c] = <<>> /\ fromClient[c] = <<>>
                              /\ phase[c] = "listening"
    BY DEF Init, AllReady
  <2>2. DOMAIN <<>> = {}
    OBVIOUS
  <2>3. Current
    BY <2>1, <2>2 DEF Current, InTrain, TravelIsCurrent
  <2>4. Agreement
    BY <2>1 DEF Agreement, ShuffleAgreement
  <2> QED BY <2>3, <2>4
<1>2. IInv /\ Current /\ Agreement /\ [Next]_vars => Current' /\ Agreement'
  <2> SUFFICES ASSUME IInv, Current, Agreement, [Next]_vars PROVE Current' /\ Agreement'
    OBVIOUS
  <2>1. CASE MainStep
    BY <2>1, MainKeepsCurrent, MainKeepsAgreement
  <2>2. ASSUME NEW c \in Clients, Worker(c) PROVE Current' /\ Agreement'
    BY <2>2, SendKeepsBasis, ShuffleKeepsBasis, AnswerKeepsBasis DEF Worker
  <2>3. ASSUME NEW c \in Clients, Handler(c) PROVE Current' /\ Agreement'
    BY <2>3, HandlersKeepBasis
  <2>4. CASE UNCHANGED vars \/ \E c \in Clients : Alone(c)
    BY <2>4, OthersKeepBasis
  <2> QED BY <2>1, <2>2, <2>3, <2>4 DEF Next, MainStep, Alone
<1> QED BY <1>1, <1>2, TrainingInductive, PTL DEF Spec

\* If every client listens from the beginning, has its handlers before it reads,
\* and can load what it is sent, every gradient that is added was computed with
\* the function, the whole data set and the parameters of the current Train: no
\* answer of a step before, no data of a Train before, in any interleaving.
THEOREM GradientsAreCurrent ==
  ASSUME AllReady
  PROVE  Spec => []EvaluatedOnCurrentModel
<1>1. Current => EvaluatedOnCurrentModel
  BY DEF Current, TravelIsCurrent, BasisIsCurrent, EvaluatedOnCurrentModel
<1> QED BY <1>1, CurrentInductive, PTL

\* Then the gradients of a batch are also taken from the same order of the data
\* set, although Shuffle waits for no answer and loading the data undoes it.
THEOREM OrdersAgree ==
  ASSUME AllReady
  PROVE  Spec => []ShuffleAgreement
<1>1. Agreement => ShuffleAgreement
  BY DEF Agreement
<1> QED BY <1>1, CurrentInductive, PTL
=============================================================================
