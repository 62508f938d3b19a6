-------------------------- MODULE WaterFillProofs --------------------------
(***************************************************************************)
(* Water-filling never hands out more than the pool.                        *)
(*                                                                         *)
(* solve_cap_level sees a total, a count and a board of the highest trails, *)
(* never the foragers themselves.  What makes its level a division of the   *)
(* pool is that each slot of the board is the trail of a forager of its own, *)
(* and that the total is the sum over all of them.                          *)
(***************************************************************************)
EXTENDS ColonyMathProofs

-----------------------------------------------------------------------------
(* Sums over a part and over what is left.                                  *)

LEMMA SumSplit ==
    ASSUME NEW S, IsFiniteSet(S), NEW rec, \A x \in S : rec[x] \in Int, NEW T \in SUBSET S
    PROVE  SumFunctionOnSet(rec, S) = SumFunctionOnSet(rec, T) + SumFunctionOnSet(rec, S \ T)
<1> DEFINE Splits(U) == SumFunctionOnSet(rec, S)
                          = SumFunctionOnSet(rec, U) + SumFunctionOnSet(rec, S \ U)
           Good == {U \in SUBSET T : Splits(U)}
<1>1. {} \in Good
  <2>1. SumFunctionOnSet(rec, S) \in Int
    BY SumInt
  <2>2. S \ {} = S
    OBVIOUS
  <2>3. QED
    BY <2>1, <2>2, SumEmpty
<1>2. ASSUME NEW U \in SUBSET T, U # {}, U \ {Pick(U)} \in Good
      PROVE  U \in Good
  <2> DEFINE p == Pick(U)
             R == U \ {p}
  <2>1. p \in U
    BY <1>2, PickIn
  <2>2. \A V \in SUBSET S : IsFiniteSet(V) /\ SumFunctionOnSet(rec, V) \in Int
    BY FS_Subset, SumInt
  <2>3. SumFunctionOnSet(rec, U) = rec[p] + SumFunctionOnSet(rec, R)
    BY <1>2, <2>2, SumPicked
  <2>4. SumFunctionOnSet(rec, S \ R) = rec[p] + SumFunctionOnSet(rec, S \ U)
    <3>1. p \in S \ R /\ (S \ R) \ {p} = S \ U /\ S \ R \in SUBSET S
      BY <2>1
    <3>2. \A y \in S \ R : rec[y] \in Int
      OBVIOUS
    <3> HIDE DEF p, R
    <3>3. QED
      BY <2>2, <3>1, <3>2, SumTake
  <2>5. Splits(R)
    BY <1>2
  <2>6. /\ rec[p] \in Int /\ SumFunctionOnSet(rec, R) \in Int
        /\ SumFunctionOnSet(rec, S \ U) \in Int
    BY <2>1, <2>2
  <2>7. Splits(U)
    <3> HIDE DEF p, R
    <3>1. QED
      BY <2>3, <2>4, <2>5, <2>6
  <2>8. QED
    BY <2>7
<1>3. IsFiniteSet(T)
  BY FS_Subset
<1>4. T \in Good
  <2> HIDE DEF Good
  <2>1. QED
    BY <1>1, <1>2, <1>3, PickInduction
<1>5. QED
  BY <1>4

(* Counting is summing ones. *)
LEMMA SumOnes ==
    ASSUME NEW S, IsFiniteSet(S), NEW one, \A x \in S : one[x] = 1
    PROVE  SumFunctionOnSet(one, S) = Cardinality(S)
<1> DEFINE Good == {T \in SUBSET S : SumFunctionOnSet(one, T) = Cardinality(T)}
<1>1. {} \in Good
  BY SumEmpty, FS_EmptySet
<1>2. ASSUME NEW T \in SUBSET S, T # {}, T \ {Pick(T)} \in Good
      PROVE  T \in Good
  <2>1. Pick(T) \in T /\ IsFiniteSet(T)
    BY <1>2, PickIn, FS_Subset
  <2>2. SumFunctionOnSet(one, T) = one[Pick(T)] + SumFunctionOnSet(one, T \ {Pick(T)})
    BY <1>2, <2>1, SumPicked
  <2>3. Cardinality(T \ {Pick(T)}) = Cardinality(T) - 1 /\ Cardinality(T) \in Nat
    BY <2>1, FS_RemoveElement, FS_CardinalityType
  <2>4. one[Pick(T)] = 1
    BY <2>1
  <2>5. SumFunctionOnSet(one, T) = Cardinality(T)
    BY <1>2, <2>2, <2>3, <2>4
  <2>6. QED
    BY <2>5
<1>3. S \in Good
  <2> HIDE DEF Good
  <2>1. QED
    BY <1>1, <1>2, PickInduction
<1>4. QED
  BY <1>3

(* A sum of naturals that is zero has only zeros. *)
LEMMA ZeroSum ==
    ASSUME NEW S, IsFiniteSet(S), NEW rec, \A x \in S : rec[x] \in Nat,
           SumFunctionOnSet(rec, S) = 0, NEW x \in S
    PROVE  rec[x] = 0
<1>1. rec[x] <= SumFunctionOnSet(rec, S) /\ rec[x] \in Nat
  BY SumBoundsElement
<1>2. QED
  BY <1>1

-----------------------------------------------------------------------------
(* The board: each slot is the trail of a forager of its own.               *)

IsRanking(rank, top, trail, A) ==
    /\ rank \in [1..Len(top) -> A]
    /\ \A i, j \in 1..Len(top) : rank[i] = rank[j] => i = j
    /\ \A i \in 1..Len(top) : top[i] = trail[rank[i]]

Ranked(top, trail, A) == \E rank : IsRanking(rank, top, trail, A)

(* The foragers of the first n slots. *)
Leaders(rank, n) == {rank[i] : i \in 1..n}

LEMMA LeadersSum ==
    ASSUME NEW A, NEW trail \in [A -> Nat],
           NEW top \in Seq(Nat), NEW rank, IsRanking(rank, top, trail, A),
           NEW n \in 0..Len(top)
    PROVE  /\ Leaders(rank, n) \subseteq A
           /\ IsFiniteSet(Leaders(rank, n))
           /\ Cardinality(Leaders(rank, n)) = n
           /\ SumFunctionOnSet(trail, Leaders(rank, n)) = PrefixSum(top, n)
<1> DEFINE Good(k) == /\ IsFiniteSet(Leaders(rank, k))
                      /\ Cardinality(Leaders(rank, k)) = k
                      /\ SumFunctionOnSet(trail, Leaders(rank, k)) = PrefixSum(top, k)
           Bad == {k \in 0..Len(top) : ~Good(k)}
<1>1. Len(top) \in Nat
  OBVIOUS
<1>2. \A k \in 0..Len(top) : Leaders(rank, k) \subseteq A
  BY <1>1 DEF Leaders, IsRanking
<1>3. Bad = {}
  <2>1. SUFFICES ASSUME Bad # {} PROVE FALSE
    OBVIOUS
  <2>2. PICK k \in Bad : \A j \in Bad : k <= j
    <3>1. Bad \subseteq 0..Len(top)
      OBVIOUS
    <3> HIDE DEF Bad
    <3>2. QED
      BY <1>1, <2>1, <3>1, LeastIndex
  <2>3. k \in 0..Len(top) /\ ~Good(k)
    OBVIOUS
  <2>4. CASE k = 0
    <3>1. Leaders(rank, k) = {}
      BY <2>4 DEF Leaders
    <3>2. PrefixSum(top, k) = 0
      BY <1>1, <2>4, PrefixStep
    <3>3. QED
      BY <2>3, <2>4, <3>1, <3>2, SumEmpty, FS_EmptySet
  <2>5. CASE k # 0
    <3> DEFINE L == Leaders(rank, k - 1)
               r == rank[k]
    <3>1. k - 1 \in 0..Len(top) /\ k \in 1..Len(top) /\ ~(k <= k - 1)
      BY <1>1, <2>3, <2>5
    <3>2. Good(k - 1)
      BY <2>2, <3>1
    <3>3. r \notin L /\ r \in A
      <4>1. \A i \in 1..(k - 1) : rank[i] # rank[k]
        <5>1. \A i \in 1..(k - 1) : i \in 1..Len(top) /\ i # k
          BY <1>1, <3>1
        <5>2. QED
          BY <3>1, <5>1 DEF IsRanking
      <4>2. QED
        BY <3>1, <4>1 DEF Leaders, IsRanking
    <3>4. Leaders(rank, k) = L \cup {r}
      <4>1. 1..k = (1..(k - 1)) \cup {k}
        BY <3>1
      <4>2. QED
        BY <4>1 DEF Leaders
    <3>5. IsFiniteSet(L \cup {r}) /\ Cardinality(L \cup {r}) = k
      <4>1. IsFiniteSet(L) /\ Cardinality(L) = k - 1
        BY <3>2
      <4> HIDE DEF L, r
      <4>2. IsFiniteSet(L \cup {r}) /\ Cardinality(L \cup {r}) = Cardinality(L) + 1
        BY <3>3, <4>1, FS_AddElement
      <4>3. QED
        BY <3>1, <4>1, <4>2
    <3>6. SumFunctionOnSet(trail, L \cup {r}) = trail[r] + SumFunctionOnSet(trail, L)
      <4>1. (L \cup {r}) \ {r} = L
        BY <3>3
      <4>2. L \cup {r} \subseteq A
        BY <1>2, <3>1, <3>3
      <4>3. \A y \in L \cup {r} : trail[y] \in Int
        BY <4>2
      <4> HIDE DEF L, r
      <4>4. QED
        BY SMTT(30), <3>5, <4>1, <4>3, SumTake
    <3>7. PrefixSum(top, k) = PrefixSum(top, k - 1) + top[k]
      BY <1>1, <2>3, <2>5, PrefixStep
    <3>8. top[k] = trail[r] /\ trail[r] \in Nat /\ PrefixSum(top, k - 1) \in Nat
      BY <3>1, <3>3, PrefixTyped DEF IsRanking
    <3>9. SumFunctionOnSet(trail, Leaders(rank, k)) = PrefixSum(top, k)
      <4>1. SumFunctionOnSet(trail, L) = PrefixSum(top, k - 1)
        BY <3>2
      <4> HIDE DEF L, r
      <4>2. QED
        BY <3>4, <3>6, <3>7, <3>8, <4>1
    <3>10. QED
      BY <2>3, <3>4, <3>5, <3>9
  <2>6. QED
    BY <2>4, <2>5
<1>4. QED
  BY <1>2, <1>3

(* The highest m trails of a board are those of m foragers. *)
LedBy(C, m, top, trail, A) ==
    /\ C \subseteq A /\ IsFiniteSet(C) /\ Cardinality(C) = m
    /\ SumFunctionOnSet(trail, C) = PrefixSum(top, m)

LEMMA LeadersExist ==
    ASSUME NEW A, NEW trail \in [A -> Nat], NEW top \in Seq(Nat), Ranked(top, trail, A),
           NEW m \in 0..Len(top)
    PROVE  \E C : LedBy(C, m, top, trail, A)
<1>1. PICK rank : IsRanking(rank, top, trail, A)
  BY DEF Ranked
<1>2. /\ Leaders(rank, m) \subseteq A /\ IsFiniteSet(Leaders(rank, m))
      /\ Cardinality(Leaders(rank, m)) = m
      /\ SumFunctionOnSet(trail, Leaders(rank, m)) = PrefixSum(top, m)
  BY <1>1, LeadersSum
<1>3. QED
  BY <1>2 DEF LedBy

(* An empty board ranks nobody. *)
LEMMA EmptyRanked == ASSUME NEW trail, NEW A PROVE Ranked(<<>>, trail, A)
<1> DEFINE none == [i \in 1..0 |-> 0]
<1>1. Len(<<>>) = 0 /\ 1..0 = {}
  OBVIOUS
<1>2. IsRanking(none, <<>>, trail, A)
  BY <1>1 DEF IsRanking
<1>3. QED
  BY <1>2 DEF Ranked

(* top_insert gives a newcomer a slot of its own, or none.                  *)
LEMMA InsertRanked ==
    ASSUME NEW top \in Seq(Nat), NEW A, NEW trail, Ranked(top, trail, A),
           NEW f, f \notin A, NEW longer, \A x \in A : longer[x] = trail[x],
           longer[f] \in Nat, NEW len \in Nat
    PROVE  Ranked(TopInsert(top, longer[f], len), longer, A \cup {f})
<1> DEFINE board == TopInsert(top, longer[f], len)
<1>1. /\ Len(top) \in Nat /\ Len(board) = Lesser(Len(top) + 1, len)
      /\ \E pos \in 1..(Len(top) + 1) : \A i \in 1..Len(board) :
            board[i] = IF i < pos THEN top[i] ELSE IF i = pos THEN longer[f] ELSE top[i - 1]
  <2>1. Nat \subseteq Int /\ Len(top) \in Nat
    OBVIOUS
  <2>2. IsInsertion(board, top, longer[f], len)
    BY <2>1, InsertedBoard
  <2>3. QED
    BY <2>1, <2>2 DEF IsInsertion
<1>2. PICK pos \in 1..(Len(top) + 1) : \A i \in 1..Len(board) :
            board[i] = IF i < pos THEN top[i] ELSE IF i = pos THEN longer[f] ELSE top[i - 1]
  BY <1>1
<1>3. Len(board) \in Nat /\ Len(board) <= Len(top) + 1
  BY <1>1 DEF Lesser
<1>4. PICK rank : IsRanking(rank, top, trail, A)
  BY DEF Ranked
<1> HIDE DEF board
<1> DEFINE place == [i \in 1..Len(board) |-> IF i < pos THEN rank[i]
                                            ELSE IF i = pos THEN f ELSE rank[i - 1]]
<1>5. ASSUME NEW i \in 1..Len(board)
      PROVE  /\ i < pos => i \in 1..Len(top)
             /\ i > pos => i - 1 \in 1..Len(top)
  BY <1>1, <1>2, <1>3
<1>6. \A k \in 1..Len(top) : rank[k] \in A /\ rank[k] # f /\ top[k] = longer[rank[k]]
  BY <1>4 DEF IsRanking
<1>7. place \in [1..Len(board) -> A \cup {f}]
  <2>1. ASSUME NEW i \in 1..Len(board)
        PROVE  place[i] \in A \cup {f}
    BY <1>2, <1>3, <1>5, <1>6
  <2>2. QED
    BY <2>1
<1>8. ASSUME NEW i \in 1..Len(board), NEW j \in 1..Len(board), place[i] = place[j]
      PROVE  i = j
  <2>1. \A k, l \in 1..Len(top) : rank[k] = rank[l] => k = l
    BY <1>4 DEF IsRanking
  <2>2. i \in Nat /\ j \in Nat /\ pos \in Nat
    BY <1>1, <1>2, <1>3
  <2>3. CASE i < pos
    BY <1>5, <1>6, <1>8, <2>1, <2>2, <2>3
  <2>4. CASE i = pos
    BY <1>5, <1>6, <1>8, <2>2, <2>4
  <2>5. CASE i > pos
    BY SMTT(30), <1>5, <1>6, <1>8, <2>1, <2>2, <2>5
  <2>6. QED
    BY <2>2, <2>3, <2>4, <2>5
<1>9. ASSUME NEW i \in 1..Len(board)
      PROVE  board[i] = longer[place[i]]
  BY <1>2, <1>3, <1>5, <1>6
<1>10. QED
  <2>1. IsRanking(place, board, longer, A \cup {f})
    <3> HIDE DEF place
    <3>1. QED
      BY <1>7, <1>8, <1>9 DEF IsRanking
  <2>2. QED
    BY <2>1 DEF Ranked, board

-----------------------------------------------------------------------------
(* What one forager takes.                                                  *)

(* Capped or not, a target is at most the trail's share of what the level    *)
(* leaves: being capped takes less than that share.                         *)
LEMMA TargetWithinShare ==
    ASSUME NEW pheromone \in Nat, NEW lv, lv.remaining_bps \in Nat, lv.rest_sum \in Nat,
           NEW pool \in Nat, NEW w \in Nat
    PROVE  AllocationTarget(pheromone, lv, pool, w) * (BPS_DENOM * lv.rest_sum)
             <= pheromone * (pool * lv.remaining_bps)
<1> DEFINE t == AllocationTarget(pheromone, lv, pool, w)
           remaining == lv.remaining_bps
           rest == lv.rest_sum
<1>1. remaining \in Nat /\ rest \in Nat /\ BPS_DENOM \in Nat \ {0}
  BY ScaleTyped
<1>2. CASE pheromone = 0 \/ pool = 0
  <2>1. t = 0
    BY <1>2 DEF AllocationTarget
  <2> HIDE DEF t, remaining, rest
  <2>2. t * (BPS_DENOM * rest) = 0 /\ pheromone * (pool * remaining) \in Nat
    BY <1>1, <2>1, ProductIsNat
  <2>3. QED
    BY <2>2 DEF t, remaining, rest
<1>3. CASE pheromone # 0 /\ pool # 0 /\ IsCapped(pheromone, lv, w)
  <2>1. t = (pool * w) \div BPS_DENOM /\ remaining * pheromone >= w * rest
    BY <1>3 DEF AllocationTarget, IsCapped, Share
  <2> HIDE DEF t, remaining, rest
  <2>2. t \in Nat /\ t * BPS_DENOM <= pool * w
    BY <1>1, <2>1, ProductIsNat, FloorOfQuotient
  <2>3. rest * (t * BPS_DENOM) <= rest * (pool * w)
    BY <1>1, <2>2, ProductIsNat, ProductGrows
  <2>4. pool * (w * rest) <= pool * (remaining * pheromone)
    BY <1>1, <2>1, ProductIsNat, ProductGrows
  <2>5. /\ rest * (t * BPS_DENOM) = t * (BPS_DENOM * rest)
        /\ rest * (pool * w) = pool * (w * rest)
        /\ pool * (remaining * pheromone) = pheromone * (pool * remaining)
    BY <1>1, <2>2
  <2>6. t * (BPS_DENOM * rest) <= pheromone * (pool * remaining)
    <3> DEFINE a == rest * (t * BPS_DENOM)
               b == pool * (w * rest)
               c == pheromone * (pool * remaining)
    <3>1. a \in Nat /\ b \in Nat /\ c \in Nat
      BY <1>1, <2>2, ProductIsNat
    <3>2. a <= b /\ b <= c
      BY <2>3, <2>4, <2>5
    <3>3. a = t * (BPS_DENOM * rest)
      BY <2>5
    <3> HIDE DEF a, b, c
    <3>4. a <= c
      BY <3>1, <3>2
    <3>5. QED
      BY <3>3, <3>4 DEF c
  <2>7. QED
    BY <2>6 DEF t, remaining, rest
<1>4. CASE pheromone # 0 /\ pool # 0 /\ ~IsCapped(pheromone, lv, w)
  <2>1. remaining * pheromone < w * rest
    <3>1. remaining * pheromone \in Nat /\ w * rest \in Nat
      BY <1>1, ProductIsNat
    <3>2. QED
      BY <1>4, <3>1 DEF IsCapped
  <2>2. t = (pool * pheromone * remaining) \div (BPS_DENOM * rest)
    BY <1>4 DEF AllocationTarget
  <2> HIDE DEF t, remaining, rest
  <2>3. BPS_DENOM * rest \in Nat \ {0}
    BY <1>1, <1>4, <2>1, UncappedRest, ProductPositive
  <2>4. pool * pheromone * remaining = pheromone * (pool * remaining)
        /\ pool * pheromone * remaining \in Nat
    BY <1>1
  <2>5. t * (BPS_DENOM * rest) <= pheromone * (pool * remaining)
    BY <2>2, <2>3, <2>4, FloorOfQuotient
  <2>6. QED
    BY <2>5 DEF t, remaining, rest
<1>5. QED
  BY <1>2, <1>3, <1>4

(* The shares of a pool add up to at most the pool: those taken under the    *)
(* cap, m of them, and those of what the level leaves.                       *)
LEMMA PartsFit ==
    ASSUME NEW capped_sum \in Nat, NEW rest_targets \in Nat, NEW m \in Nat, NEW cap \in Nat,
           NEW w \in Nat, cap <= w, NEW pool \in Nat, BPS_DENOM - m * w \in Nat,
           capped_sum * BPS_DENOM <= m * (pool * cap),
           rest_targets * BPS_DENOM <= pool * (BPS_DENOM - m * w)
    PROVE  capped_sum + rest_targets <= pool
<1> DEFINE left == BPS_DENOM - m * w
<1>1. m * (pool * cap) <= pool * (m * w)
  <2>1. pool * m \in Nat /\ (pool * m) * cap <= (pool * m) * w
    BY ProductIsNat, ProductGrows
  <2>2. m * (pool * cap) = (pool * m) * cap /\ pool * (m * w) = (pool * m) * w
    OBVIOUS
  <2>3. QED
    BY <2>1, <2>2
<1>2. pool * (m * w) + pool * left = pool * BPS_DENOM
  <2>1. m * w \in Nat /\ BPS_DENOM \in Nat /\ left \in Nat /\ m * w + left = BPS_DENOM
    BY ScaleTyped, ProductIsNat
  <2> HIDE DEF left
  <2> DEFINE k == m * w
  <2>2. k \in Nat /\ k + left = BPS_DENOM
    BY <2>1
  <2> HIDE DEF k
  <2>3. pool * k + pool * left = pool * (k + left)
    BY <2>1, <2>2
  <2>4. QED
    BY <2>2, <2>3 DEF k
<1>3. (capped_sum + rest_targets) * BPS_DENOM
        = capped_sum * BPS_DENOM + rest_targets * BPS_DENOM
  BY ScaleTyped
<1>4. BPS_DENOM * (capped_sum + rest_targets) <= BPS_DENOM * pool
  <2> DEFINE a == capped_sum * BPS_DENOM
             b == rest_targets * BPS_DENOM
             c == m * (pool * cap)
             d == pool * (m * w)
             e == pool * left
  <2>1. a \in Nat /\ b \in Nat /\ c \in Nat /\ d \in Nat /\ e \in Nat
    BY ScaleTyped, ProductIsNat
  <2>2. a <= c /\ c <= d /\ b <= e
    BY <1>1
  <2>3. d + e = BPS_DENOM * pool
    <3>1. pool * BPS_DENOM = BPS_DENOM * pool
      BY ScaleTyped
    <3>2. QED
      BY <1>2, <3>1
  <2>4. BPS_DENOM * (capped_sum + rest_targets) = a + b
    BY <1>3, ScaleTyped
  <2> HIDE DEF a, b, c, d, e
  <2>5. a + b <= d + e
    BY <2>1, <2>2
  <2>6. QED
    BY <2>3, <2>4, <2>5
<1>5. QED
  BY <1>4, ScaleTyped, ProductCancels

-----------------------------------------------------------------------------
(* The theorem.                                                             *)

(* Whatever the ranking's length, the trails and the rounding, the targets    *)
(* of the foragers a level was solved for add up to at most the pool: with   *)
(* trails and a weight cap that since then have only gone down (a promotion   *)
(* cuts a trail to the seed cap, a demotion ends a target, update_config may  *)
(* lower the cap).                                                           *)
THEOREM TargetsWithinLevel ==
    ASSUME NEW A, IsFiniteSet(A), NEW trail \in [A -> Nat],
           NEW top \in Seq(Nat), Ranked(top, trail, A),
           NEW n \in Nat, NEW w \in Nat, NEW cap \in Nat, cap <= w, NEW pool \in Nat,
           NEW now \in [A -> Nat], \A x \in A : now[x] <= trail[x],
           NEW target \in [A -> Nat],
           \A x \in A : target[x] <=
              AllocationTarget(now[x],
                  SolveCapLevel(SumFunctionOnSet(trail, A), top, n, w), pool, cap)
    PROVE  SumFunctionOnSet(target, A) <= pool
<1> DEFINE total == SumFunctionOnSet(trail, A)
           lv == SolveCapLevel(total, top, n, w)
<1>1. \A x \in A : trail[x] \in Nat /\ now[x] \in Nat /\ target[x] \in Nat
  OBVIOUS
<1>2. total \in Nat
  BY <1>1, SumNat
<1>3. PICK m \in 0..Len(top) :
         LeavesAfter(lv, m, total, top, w) /\ BPS_DENOM - m * w \in 0..BPS_DENOM
  <2> HIDE DEF total
  <2>1. QED
    BY <1>2, LevelShape
<1> HIDE DEF lv
<1>4. PICK C : LedBy(C, m, top, trail, A)
  BY LeadersExist
<1> DEFINE R == A \ C
<1>5. /\ C \subseteq A /\ IsFiniteSet(C) /\ Cardinality(C) = m
      /\ SumFunctionOnSet(trail, C) = PrefixSum(top, m)
  BY <1>4 DEF LedBy
<1>6. /\ IsFiniteSet(R) /\ SumFunctionOnSet(trail, R) \in Nat
      /\ total = SumFunctionOnSet(trail, C) + SumFunctionOnSet(trail, R)
      /\ SumFunctionOnSet(trail, C) \in Nat
  <2>1. IsFiniteSet(R)
    BY FS_Subset
  <2>2. \A x \in A : trail[x] \in Int
    BY <1>1
  <2>3. \A x \in R : trail[x] \in Nat
    BY <1>1
  <2>4. \A x \in C : trail[x] \in Nat
    BY <1>1, <1>5
  <2> HIDE DEF R
  <2>5. SumFunctionOnSet(trail, R) \in Nat /\ SumFunctionOnSet(trail, C) \in Nat
    BY <1>5, <2>1, <2>3, <2>4, SumNat
  <2>6. SumFunctionOnSet(trail, A)
          = SumFunctionOnSet(trail, C) + SumFunctionOnSet(trail, A \ C)
    BY <1>5, <2>2, SumSplit
  <2>7. QED
    BY <2>1, <2>5, <2>6 DEF R
<1> HIDE DEF total
<1> DEFINE left == BPS_DENOM - m * w
           rest == SumFunctionOnSet(trail, R)
<1>7. lv.remaining_bps = left /\ lv.rest_sum = rest /\ left \in Nat /\ rest \in Nat /\ m \in Nat
  <2>1. SatSub(total, PrefixSum(top, m)) = rest
    BY <1>5, <1>6 DEF SatSub
  <2>2. m \in Nat
    BY <1>3
  <2>3. QED
    BY <1>3, <1>6, <2>1, <2>2, ScaleTyped DEF LeavesAfter
<1> DEFINE T(x) == AllocationTarget(now[x], lv, pool, cap)
<1>8. \A x \in A : target[x] <= T(x)
  BY DEF lv, total
<1> HIDE DEF left, rest
<1>9. \A x \in A : T(x) \in Nat /\ T(x) <= Share(pool, cap)
  BY <1>1, <1>7, AllocationWithinCap
<1>10. SumFunctionOnSet(target, C) * BPS_DENOM <= m * (pool * cap)
  <2> DEFINE one == [x \in A |-> 1]
  <2>1. ASSUME NEW x \in C
        PROVE  target[x] \in Nat /\ one[x] \in Nat /\ target[x] * BPS_DENOM <= one[x] * (pool * cap)
    <3>1. x \in A
      BY <1>5
    <3>2. Share(pool, cap) \in Nat /\ Share(pool, cap) * BPS_DENOM <= pool * cap
      BY ScaleTyped, ProductIsNat, FloorOfQuotient DEF Share
    <3> DEFINE s == Share(pool, cap)
               k == pool * cap
               t == target[x]
    <3>3. s \in Nat /\ s * BPS_DENOM <= k /\ k \in Nat /\ t \in Nat /\ t <= s
      BY <1>1, <1>8, <1>9, <3>1, <3>2, ProductIsNat
    <3> HIDE DEF s, k, t
    <3>4. BPS_DENOM * t <= BPS_DENOM * s
      BY <3>3, ScaleTyped, ProductGrows
    <3>5. t * BPS_DENOM <= k
      <4>1. /\ BPS_DENOM * t = t * BPS_DENOM /\ t * BPS_DENOM \in Nat
            /\ BPS_DENOM * s = s * BPS_DENOM /\ s * BPS_DENOM \in Nat
        BY <3>3, ScaleTyped, ProductIsNat
      <4>2. QED
        BY <3>3, <3>4, <4>1
    <3>6. one[x] = 1 /\ 1 * k = k
      BY <3>1, <3>3
    <3>7. QED
      BY <3>3, <3>5, <3>6 DEF k, t
  <2>2. SumFunctionOnSet(one, C) = m
    <3>1. \A x \in C : one[x] = 1
      BY <1>5
    <3> HIDE DEF one
    <3>2. QED
      BY <1>5, <3>1, SumOnes
  <2>3. pool * cap \in Nat /\ BPS_DENOM \in Nat
    BY ScaleTyped, ProductIsNat
  <2> HIDE DEF one
  <2>4. SumFunctionOnSet(target, C) * BPS_DENOM <= SumFunctionOnSet(one, C) * (pool * cap)
    BY <1>5, <2>1, <2>3, SumScaled
  <2>5. QED
    BY <2>2, <2>4
<1>11. SumFunctionOnSet(target, R) * BPS_DENOM <= pool * left
  <2>1. \A x \in R : x \in A
    OBVIOUS
  <2> HIDE DEF R
  <2>2. CASE rest = 0
    <3>1. ASSUME NEW x \in R
          PROVE  target[x] = 0
      <4>1. trail[x] = 0
        <5>1. \A y \in R : trail[y] \in Nat
          BY <1>1, <2>1
        <5>2. QED
          BY <1>6, <2>2, <5>1, ZeroSum DEF rest
      <4>2. now[x] = 0
        BY <1>1, <2>1, <4>1
      <4>3. T(x) = 0
        BY <4>2 DEF AllocationTarget
      <4>4. QED
        BY <1>1, <1>8, <2>1, <4>3
    <3>2. SumFunctionOnSet(target, R) = 0
      BY <1>6, <3>1, SumZero
    <3>3. 0 * BPS_DENOM = 0 /\ pool * left \in Nat
      BY <1>7, ScaleTyped, ProductIsNat
    <3>4. QED
      BY <3>2, <3>3
  <2>3. CASE rest # 0
    <3>1. ASSUME NEW x \in R
          PROVE  /\ target[x] \in Nat /\ trail[x] \in Nat
                 /\ target[x] * (BPS_DENOM * rest) <= trail[x] * (pool * left)
      <4> DEFINE g == BPS_DENOM * rest
                 h == pool * left
                 t == target[x]
                 p == now[x]
                 q == trail[x]
                 u == T(x)
      <4>1. g \in Nat /\ h \in Nat
        BY <1>7, ScaleTyped, ProductIsNat
      <4>2. t \in Nat /\ p \in Nat /\ q \in Nat /\ u \in Nat /\ t <= u /\ p <= q
        BY <1>1, <1>8, <1>9, <2>1
      <4>3. u * g <= p * h
        BY <1>1, <1>7, <2>1, TargetWithinShare
      <4> HIDE DEF g, h, t, p, q, u
      <4>4. g * t <= g * u /\ h * p <= h * q
        BY <4>1, <4>2, ProductGrows
      <4>5. /\ g * t = t * g /\ g * u = u * g /\ h * p = p * h /\ h * q = q * h
            /\ t * g \in Nat /\ u * g \in Nat /\ p * h \in Nat /\ q * h \in Nat
        BY <4>1, <4>2, ProductIsNat
      <4>6. t * g <= q * h
        BY <4>3, <4>4, <4>5
      <4>7. QED
        BY <4>2, <4>6 DEF g, h, t, q
    <3>2. BPS_DENOM * rest \in Nat /\ pool * left \in Nat
      BY <1>7, ScaleTyped, ProductIsNat
    <3>3. SumFunctionOnSet(target, R) * (BPS_DENOM * rest) <= rest * (pool * left)
      <4>1. SumFunctionOnSet(target, R) * (BPS_DENOM * rest)
              <= SumFunctionOnSet(trail, R) * (pool * left)
        BY <1>6, <3>1, <3>2, SumScaled
      <4>2. QED
        BY <4>1 DEF rest
    <3> DEFINE s == SumFunctionOnSet(target, R)
    <3>4. s \in Nat
      BY <1>6, <3>1, SumNat
    <3> HIDE DEF s
    <3>5. s * (BPS_DENOM * rest) = rest * (s * BPS_DENOM) /\ s * BPS_DENOM \in Nat
      BY <1>7, <3>4, ScaleTyped, ProductIsNat
    <3>6. s * BPS_DENOM <= pool * left
      <4>1. rest * (s * BPS_DENOM) <= rest * (pool * left)
        BY <3>3, <3>5 DEF s
      <4>2. rest \in Nat \ {0}
        BY <1>7, <2>3
      <4>3. QED
        BY <3>2, <3>5, <4>1, <4>2, ProductCancels
    <3>7. QED
      BY <3>6 DEF s
  <2>4. QED
    BY <2>2, <2>3
<1>12. /\ SumFunctionOnSet(target, C) \in Nat /\ SumFunctionOnSet(target, R) \in Nat
       /\ SumFunctionOnSet(target, A)
             = SumFunctionOnSet(target, C) + SumFunctionOnSet(target, R)
  <2>1. \A x \in A : target[x] \in Int
    BY <1>1
  <2>2. (\A x \in C : target[x] \in Nat) /\ (\A x \in R : target[x] \in Nat)
    BY <1>1, <1>5
  <2>3. SumFunctionOnSet(target, A)
          = SumFunctionOnSet(target, C) + SumFunctionOnSet(target, A \ C)
    BY <1>5, <2>1, SumSplit
  <2> HIDE DEF R
  <2>4. SumFunctionOnSet(target, C) \in Nat /\ SumFunctionOnSet(target, R) \in Nat
    BY <1>5, <1>6, <2>2, SumNat
  <2>5. QED
    BY <2>3, <2>4 DEF R
<1>13. QED
  <2> DEFINE a == SumFunctionOnSet(target, C)
             b == SumFunctionOnSet(target, R)
  <2>1. a \in Nat /\ b \in Nat /\ SumFunctionOnSet(target, A) = a + b
    BY <1>12
  <2>2. a * BPS_DENOM <= m * (pool * cap) /\ b * BPS_DENOM <= pool * (BPS_DENOM - m * w)
    BY <1>10, <1>11 DEF left
  <2> HIDE DEF a, b
  <2>3. BPS_DENOM - m * w \in Nat
    BY <1>7 DEF left
  <2>4. a + b <= pool
    BY <1>7, <2>1, <2>2, <2>3, PartsFit
  <2>5. QED
    BY <2>1, <2>4
=============================================================================
