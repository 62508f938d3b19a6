--------------------------- MODULE NumberTheorems ---------------------------
(***************************************************************************)
(* The number facts the proofs about the models stand on: products and       *)
(* rounded quotients of naturals, a least index, and sums of a function     *)
(* over a finite set.                                                      *)
(*                                                                         *)
(* The sums are those the folds of the community modules compute: a sum is   *)
(* independent of the order in which the elements are taken, and follows an  *)
(* update of one element.                                                  *)
(*                                                                         *)
(* The fold is a recursive function over the subsets of the set.  Facts     *)
(* about it are proved by a smallest counterexample: strict inclusion is    *)
(* well founded on the subsets of a finite set.                            *)
(***************************************************************************)
EXTENDS FiniteSetsExt, FiniteSetTheorems, TLAPS

-----------------------------------------------------------------------------
(* Products and quotients rounded down.                                     *)

LEMMA FloorOfQuotient ==
    ASSUME NEW a \in Nat, NEW b \in Nat \ {0}
    PROVE  /\ a \div b \in Nat
           /\ (a \div b) * b <= a
BY SMT

LEMMA QuotientWithin ==
    ASSUME NEW a \in Nat, NEW b \in Nat \ {0}, NEW c \in Nat, a <= b * c
    PROVE  a \div b <= c
BY SMT

LEMMA QuotientBelow ==
    ASSUME NEW a \in Nat, NEW b \in Nat \ {0}, NEW c \in Nat, a < b * c
    PROVE  a \div b < c
BY SMT

LEMMA QuotientAtLeast ==
    ASSUME NEW a \in Nat, NEW b \in Nat \ {0}, NEW c \in Nat, c * b <= a
    PROVE  c <= a \div b
BY SMT

LEMMA ProductIsNat ==
    ASSUME NEW a \in Nat, NEW b \in Nat
    PROVE  a * b \in Nat
BY SMT

LEMMA ProductGrows ==
    ASSUME NEW a \in Nat, NEW b \in Nat, NEW c \in Nat, b <= c
    PROVE  a * b <= a * c
BY SMT

LEMMA ProductCancels ==
    ASSUME NEW a \in Nat \ {0}, NEW b \in Nat, NEW c \in Nat, a * b <= a * c
    PROVE  b <= c
BY SMT

LEMMA ProductPositive ==
    ASSUME NEW a \in Nat \ {0}, NEW b \in Nat \ {0}
    PROVE  a * b \in Nat \ {0}
BY SMT

-----------------------------------------------------------------------------
(* Smallest members.                                                       *)

(* A nonempty collection of subsets of a finite set has a smallest member.  *)
LEMMA SmallestSubset ==
    ASSUME NEW S, IsFiniteSet(S), NEW C, C \subseteq SUBSET S, C # {}
    PROVE  \E T \in C : \A U \in SUBSET T : U # T => U \notin C
<1>1. IsWellFoundedOn(StrictSubsetOrdering(S), SUBSET S)
  BY FS_StrictSubsetOrderingWellFounded, FS_FiniteSubsetsOfFinite
<1>2. PICK T \in C : \A U \in C : ~(<<U, T>> \in StrictSubsetOrdering(S))
  BY <1>1, WFMin
<1>3. ASSUME NEW U \in SUBSET T, U # T, U \in C
      PROVE  FALSE
  BY <1>2, <1>3 DEF StrictSubsetOrdering
<1>4. QED
  BY <1>3

(* Of the indices up to n in a nonempty set one is the least.               *)
LEMMA LeastIndex ==
    ASSUME NEW n \in Nat, NEW C, C \subseteq 0..n, C # {}
    PROVE  \E m \in C : \A k \in C : m <= k
<1> DEFINE Up(m) == 0..m
           Ups == {Up(m) : m \in C}
<1>0. \A m \in C : Up(m) \in SUBSET (0..n)
  OBVIOUS
<1>1. IsFiniteSet(0..n) /\ Ups \subseteq SUBSET (0..n) /\ Ups # {}
  <2>1. IsFiniteSet(0..n)
    BY FS_Interval
  <2>2. Ups \subseteq SUBSET (0..n)
    BY <1>0
  <2>3. Ups # {}
    OBVIOUS
  <2>4. QED
    BY <2>1, <2>2, <2>3
<1>2. PICK T \in Ups : \A U \in SUBSET T : U # T => U \notin Ups
  BY <1>1, SmallestSubset
<1>3. PICK m \in C : T = Up(m)
  OBVIOUS
<1>4. ASSUME NEW k \in C, ~(m <= k)
      PROVE  FALSE
  <2>1. m \in Nat /\ k \in Nat /\ k < m
    BY <1>4
  <2>2. Up(k) \in SUBSET T /\ Up(k) # T
    BY <1>3, <2>1
  <2>3. Up(k) \in Ups
    OBVIOUS
  <2>4. QED
    BY <1>2, <2>2, <2>3
<1>5. QED
  BY <1>4

-----------------------------------------------------------------------------
(* The table the fold fills in: the sum of rec over each subset of S.       *)
Pick(s) == CHOOSE x \in s : TRUE
Entry(rec, g, s) == IF s = {} THEN 0 ELSE rec[Pick(s)] + g[s \ {Pick(s)}]
IsTable(g, rec, S) == g = [s \in SUBSET S |-> Entry(rec, g, s)]

LEMMA PickIn == ASSUME NEW s, s # {} PROVE Pick(s) \in s
BY DEF Pick

(* Induction on the elements in the order the fold takes them.              *)
LEMMA PickInduction ==
    ASSUME NEW S, IsFiniteSet(S), NEW C, {} \in C,
           \A T \in SUBSET S : T # {} /\ T \ {Pick(T)} \in C => T \in C
    PROVE  S \in C
<1> DEFINE Bad == (SUBSET S) \ C
<1>1. SUFFICES ASSUME Bad # {} PROVE FALSE
  OBVIOUS
<1>2. PICK T \in Bad : \A U \in SUBSET T : U # T => U \notin Bad
  <2>1. Bad \subseteq SUBSET S
    OBVIOUS
  <2> HIDE DEF Bad
  <2>2. QED
    BY <1>1, <2>1, SmallestSubset
<1>3. T # {}
  OBVIOUS
<1>4. Pick(T) \in T
  BY <1>3, PickIn
<1>5. T \ {Pick(T)} \in C
  BY <1>2, <1>4
<1>6. QED
  BY <1>3, <1>5

LEMMA TableEntry ==
    ASSUME NEW S, NEW rec, NEW g, IsTable(g, rec, S), NEW s \in SUBSET S
    PROVE  g[s] = Entry(rec, g, s)
BY DEF IsTable

(* Two tables agree wherever both are defined. *)
LEMMA TableUnique ==
    ASSUME NEW S, IsFiniteSet(S), NEW rec, NEW g, NEW T, NEW h,
           IsTable(g, rec, S), IsTable(h, rec, T), NEW s \in SUBSET (S \cap T)
    PROVE  g[s] = h[s]
<1> DEFINE Bad == {u \in SUBSET (S \cap T) : g[u] # h[u]}
<1>1. SUFFICES ASSUME Bad # {} PROVE FALSE
  OBVIOUS
<1>2. Bad \subseteq SUBSET S
  OBVIOUS
<1>3. PICK u \in Bad : \A v \in SUBSET u : v # u => v \notin Bad
  <2> HIDE DEF Bad
  <2>1. QED
    BY <1>1, <1>2, SmallestSubset
<1>4. g[u] = Entry(rec, g, u) /\ h[u] = Entry(rec, h, u)
  BY TableEntry
<1>5. u # {}
  BY <1>4 DEF Entry
<1>6. Pick(u) \in u
  BY <1>5, PickIn
<1>7. g[u \ {Pick(u)}] = h[u \ {Pick(u)}]
  BY <1>3, <1>6
<1>8. QED
  BY <1>4, <1>7 DEF Entry

(* Every finite set has its table. *)
LEMMA TableExists ==
    ASSUME NEW S, IsFiniteSet(S), NEW rec
    PROVE  \E g : IsTable(g, rec, S)
<1> DEFINE Bad == {T \in SUBSET S : ~\E g : IsTable(g, rec, T)}
<1>1. SUFFICES ASSUME Bad # {} PROVE FALSE
  OBVIOUS
<1>2. PICK T \in Bad : \A U \in SUBSET T : U # T => U \notin Bad
  <2>1. Bad \subseteq SUBSET S
    OBVIOUS
  <2> HIDE DEF Bad
  <2>2. QED
    BY <1>1, <2>1, SmallestSubset
<1> DEFINE table == [U \in SUBSET T |-> CHOOSE g : IsTable(g, rec, U)]
           whole == [s \in SUBSET T |->
                        IF s = {} THEN 0
                        ELSE rec[Pick(s)] + table[s \ {Pick(s)}][s \ {Pick(s)}]]
<1>3. \A U \in SUBSET T : U # T => IsTable(table[U], rec, U)
  BY <1>2
<1>4. ASSUME NEW U \in SUBSET T, U # T
      PROVE  whole[U] = table[U][U]
  <2>1. table[U][U] = Entry(rec, table[U], U)
    <3> HIDE DEF table
    <3>1. IsTable(table[U], rec, U) /\ U \in SUBSET U
      BY <1>3, <1>4
    <3>2. QED
      BY <3>1, TableEntry
  <2>2. CASE U = {}
    BY <2>1, <2>2 DEF Entry
  <2>3. CASE U # {}
    <3> DEFINE V == U \ {Pick(U)}
    <3>1. V \in SUBSET T /\ V # T /\ V \in SUBSET U
      BY <1>4
    <3>2. IsTable(table[V], rec, V) /\ IsTable(table[U], rec, U)
      BY <1>3, <1>4, <3>1
    <3>3. IsFiniteSet(U)
      BY FS_Subset
    <3>4. table[U][V] = table[V][V]
      <4> HIDE DEF table, V
      <4>1. V \in SUBSET (U \cap V)
        BY <3>1
      <4>2. QED
        BY <3>2, <3>3, <4>1, TableUnique
    <3>5. QED
      BY <2>1, <2>3, <3>4 DEF Entry
  <2>4. QED
    BY <2>2, <2>3
<1>5. ASSUME NEW s \in SUBSET T
      PROVE  whole[s] = Entry(rec, whole, s)
  <2>1. CASE s = {}
    BY <2>1 DEF Entry
  <2>2. CASE s # {}
    <3>1. Pick(s) \in s
      BY <2>2, PickIn
    <3>2. s \ {Pick(s)} \in SUBSET T /\ s \ {Pick(s)} # T
      BY <3>1
    <3>3. whole[s \ {Pick(s)}] = table[s \ {Pick(s)}][s \ {Pick(s)}]
      BY <1>4, <3>2
    <3>4. QED
      BY <2>2, <3>3 DEF Entry
  <2>3. QED
    BY <2>1, <2>2
<1>6. IsTable(whole, rec, T)
  BY <1>5 DEF IsTable
<1>7. QED
  BY <1>2, <1>6

(* The fold is the entry of the table for the whole set. *)
LEMMA SumFromTable ==
    ASSUME NEW S, IsFiniteSet(S), NEW rec, NEW T \in SUBSET S, NEW g, IsTable(g, rec, S)
    PROVE  SumFunctionOnSet(rec, T) = g[T]
<1> DEFINE iter == CHOOSE h : h = [s \in SUBSET T |->
                       IF s = {} THEN 0
                       ELSE rec[CHOOSE x \in s : TRUE] + h[s \ {CHOOSE x \in s : TRUE}]]
<1>1. SumFunctionOnSet(rec, T) = iter[T]
  BY DEF SumFunctionOnSet, FoldFunctionOnSet, MapThenFoldSet
<1>2. IsTable(iter, rec, T)
  <2>1. IsFiniteSet(T)
    BY FS_Subset
  <2>2. \E h : IsTable(h, rec, T)
    BY <2>1, TableExists
  <2>3. QED
    BY <2>2 DEF IsTable, Entry, Pick
<1>3. iter[T] = g[T]
  <2> HIDE DEF iter
  <2>1. T \in SUBSET (S \cap T)
    OBVIOUS
  <2>2. IsFiniteSet(T)
    BY FS_Subset
  <2>3. QED
    BY <1>2, <2>1, TableUnique
<1>4. QED
  BY <1>1, <1>3

-----------------------------------------------------------------------------
(* What sums are. *)
LEMMA SumEmpty == ASSUME NEW rec PROVE SumFunctionOnSet(rec, {}) = 0
<1>1. PICK g : IsTable(g, rec, {})
  BY FS_EmptySet, TableExists
<1>2. SumFunctionOnSet(rec, {}) = g[{}] /\ g[{}] = Entry(rec, g, {})
  BY <1>1, FS_EmptySet, SumFromTable, TableEntry
<1>3. QED
  BY <1>2 DEF Entry

(* A sum over a nonempty set, by the element the fold takes first. *)
LEMMA SumPicked ==
    ASSUME NEW S, IsFiniteSet(S), NEW rec, S # {}
    PROVE  SumFunctionOnSet(rec, S) = rec[Pick(S)] + SumFunctionOnSet(rec, S \ {Pick(S)})
<1>1. PICK g : IsTable(g, rec, S)
  BY TableExists
<1>2. SumFunctionOnSet(rec, S) = g[S] /\ g[S] = Entry(rec, g, S)
  BY <1>1, SumFromTable, TableEntry
<1>3. SumFunctionOnSet(rec, S \ {Pick(S)}) = g[S \ {Pick(S)}]
  <2>1. S \ {Pick(S)} \in SUBSET S
    OBVIOUS
  <2>2. QED
    BY <1>1, <2>1, SumFromTable
<1>4. QED
  BY <1>2, <1>3 DEF Entry

LEMMA SumInt ==
    ASSUME NEW S, IsFiniteSet(S), NEW rec, \A x \in S : rec[x] \in Int
    PROVE  SumFunctionOnSet(rec, S) \in Int
<1> DEFINE Good == {T \in SUBSET S : SumFunctionOnSet(rec, T) \in Int}
<1>1. {} \in Good
  BY SumEmpty
<1>2. ASSUME NEW T \in SUBSET S, T # {}, T \ {Pick(T)} \in Good
      PROVE  T \in Good
  <2>1. Pick(T) \in T /\ IsFiniteSet(T)
    BY <1>2, PickIn, FS_Subset
  <2>2. SumFunctionOnSet(rec, T) = rec[Pick(T)] + SumFunctionOnSet(rec, T \ {Pick(T)})
    BY <1>2, <2>1, SumPicked
  <2>3. rec[Pick(T)] \in Int /\ SumFunctionOnSet(rec, T \ {Pick(T)}) \in Int
    BY <1>2, <2>1
  <2>4. QED
    BY <1>2, <2>2, <2>3
<1>3. S \in Good
  <2> HIDE DEF Good
  <2>1. QED
    BY <1>1, <1>2, PickInduction
<1>4. QED
  BY <1>3

(* Any element may be taken first. *)
LEMMA SumTake ==
    ASSUME NEW S, IsFiniteSet(S), NEW rec, \A y \in S : rec[y] \in Int, NEW x \in S
    PROVE  SumFunctionOnSet(rec, S) = rec[x] + SumFunctionOnSet(rec, S \ {x})
<1> DEFINE Takes(T, e) ==
        SumFunctionOnSet(rec, T) = rec[e] + SumFunctionOnSet(rec, T \ {e})
    Bad == {T \in SUBSET S : \E e \in T : ~Takes(T, e)}
<1>1. SUFFICES ASSUME Bad # {} PROVE FALSE
  OBVIOUS
<1>2. PICK T \in Bad : \A U \in SUBSET T : U # T => U \notin Bad
  <2>1. Bad \subseteq SUBSET S
    OBVIOUS
  <2> HIDE DEF Bad
  <2>2. QED
    BY <1>1, <2>1, SmallestSubset
<1>3. PICK e \in T : ~Takes(T, e)
  BY <1>2
<1> DEFINE p == Pick(T)
<1>4. p \in T /\ IsFiniteSet(T)
  BY PickIn, FS_Subset
<1>5. \A U \in SUBSET T : IsFiniteSet(U) /\ SumFunctionOnSet(rec, U) \in Int
  BY <1>4, FS_Subset, SumInt
<1>6. Takes(T, p)
  BY <1>4, SumPicked
<1>7. e # p
  BY <1>3, <1>6
<1>8. Takes(T \ {p}, e) /\ Takes(T \ {e}, p)
  <2>1. T \ {p} \notin Bad /\ T \ {e} \notin Bad
    BY <1>2, <1>4
  <2>2. QED
    BY <1>4, <1>7, <2>1
<1>9. (T \ {p}) \ {e} = (T \ {e}) \ {p}
  OBVIOUS
<1>10. /\ rec[p] \in Int /\ rec[e] \in Int
       /\ SumFunctionOnSet(rec, (T \ {p}) \ {e}) \in Int
  BY <1>4, <1>5
<1>11. SumFunctionOnSet(rec, T) = rec[e] + SumFunctionOnSet(rec, T \ {e})
  <2> DEFINE rest == SumFunctionOnSet(rec, (T \ {p}) \ {e})
  <2>1. SumFunctionOnSet(rec, T) = rec[p] + (rec[e] + rest)
    BY <1>6, <1>8
  <2>2. SumFunctionOnSet(rec, T \ {e}) = rec[p] + rest
    BY <1>8, <1>9
  <2>3. rec[p] \in Int /\ rec[e] \in Int /\ rest \in Int
    BY <1>10
  <2> HIDE DEF rest, p
  <2>4. QED
    BY <2>1, <2>2, <2>3
<1>12. QED
  BY <1>3, <1>11

LEMMA SumNat ==
    ASSUME NEW S, IsFiniteSet(S), NEW rec, \A x \in S : rec[x] \in Nat
    PROVE  SumFunctionOnSet(rec, S) \in Nat
<1> DEFINE Good == {T \in SUBSET S : SumFunctionOnSet(rec, T) \in Nat}
<1>1. {} \in Good
  BY SumEmpty
<1>2. ASSUME NEW T \in SUBSET S, T # {}, T \ {Pick(T)} \in Good
      PROVE  T \in Good
  <2>1. Pick(T) \in T /\ IsFiniteSet(T)
    BY <1>2, PickIn, FS_Subset
  <2>2. SumFunctionOnSet(rec, T) = rec[Pick(T)] + SumFunctionOnSet(rec, T \ {Pick(T)})
    BY <1>2, <2>1, SumPicked
  <2>3. rec[Pick(T)] \in Nat /\ SumFunctionOnSet(rec, T \ {Pick(T)}) \in Nat
    BY <1>2, <2>1
  <2>4. QED
    BY <1>2, <2>2, <2>3
<1>3. S \in Good
  <2> HIDE DEF Good
  <2>1. QED
    BY <1>1, <1>2, PickInduction
<1>4. QED
  BY <1>3

(* No element of a sum of naturals exceeds the sum. *)
LEMMA SumBoundsElement ==
    ASSUME NEW S, IsFiniteSet(S), NEW rec, \A y \in S : rec[y] \in Nat, NEW x \in S
    PROVE  rec[x] <= SumFunctionOnSet(rec, S)
<1>1. SumFunctionOnSet(rec, S) = rec[x] + SumFunctionOnSet(rec, S \ {x})
  BY SumTake
<1>2. SumFunctionOnSet(rec, S \ {x}) \in Nat
  BY FS_Subset, SumNat
<1>3. QED
  BY <1>1, <1>2

(* Functions ordered elementwise up to two factors have sums so ordered.    *)
LEMMA SumScaled ==
    ASSUME NEW S, IsFiniteSet(S), NEW low, NEW high, NEW a \in Nat, NEW b \in Nat,
           \A x \in S : low[x] \in Nat /\ high[x] \in Nat /\ low[x] * a <= high[x] * b
    PROVE  SumFunctionOnSet(low, S) * a <= SumFunctionOnSet(high, S) * b
<1> DEFINE Good == {T \in SUBSET S :
                      SumFunctionOnSet(low, T) * a <= SumFunctionOnSet(high, T) * b}
<1>1. {} \in Good
  <2>1. 0 * a <= 0 * b
    OBVIOUS
  <2>2. QED
    BY <2>1, SumEmpty
<1>2. ASSUME NEW T \in SUBSET S, T # {}, T \ {Pick(T)} \in Good
      PROVE  T \in Good
  <2> DEFINE p == Pick(T)
             R == T \ {p}
  <2>1. p \in T /\ IsFiniteSet(T) /\ IsFiniteSet(R)
    BY <1>2, PickIn, FS_Subset
  <2>2. /\ SumFunctionOnSet(low, T) = low[p] + SumFunctionOnSet(low, R)
        /\ SumFunctionOnSet(high, T) = high[p] + SumFunctionOnSet(high, R)
    BY <1>2, <2>1, SumPicked
  <2>3. /\ SumFunctionOnSet(low, R) \in Nat /\ SumFunctionOnSet(high, R) \in Nat
        /\ low[p] \in Nat /\ high[p] \in Nat /\ low[p] * a <= high[p] * b
        /\ SumFunctionOnSet(low, R) * a <= SumFunctionOnSet(high, R) * b
    BY <1>2, <2>1, SumNat
  <2>4. ASSUME NEW l \in Nat, NEW h \in Nat, NEW m \in Nat, NEW n \in Nat,
               l * a <= h * b, m * a <= n * b
        PROVE  (l + m) * a <= (h + n) * b
    <3>1. (l + m) * a = l * a + m * a /\ (h + n) * b = h * b + n * b
      OBVIOUS
    <3>2. l * a \in Nat /\ m * a \in Nat /\ h * b \in Nat /\ n * b \in Nat
      OBVIOUS
    <3>3. QED
      BY <2>4, <3>1, <3>2
  <2>5. SumFunctionOnSet(low, T) * a <= SumFunctionOnSet(high, T) * b
    <3> HIDE DEF p, R
    <3>1. QED
      BY <2>2, <2>3, <2>4
  <2>6. QED
    BY <2>5
<1>3. S \in Good
  <2> HIDE DEF Good
  <2>1. QED
    BY <1>1, <1>2, PickInduction
<1>4. QED
  BY <1>3

(* Functions that agree on the set have the same sum. *)
LEMMA SumAgree ==
    ASSUME NEW S, IsFiniteSet(S), NEW rec, NEW other, \A x \in S : rec[x] = other[x]
    PROVE  SumFunctionOnSet(rec, S) = SumFunctionOnSet(other, S)
<1> DEFINE Good == {T \in SUBSET S : SumFunctionOnSet(rec, T) = SumFunctionOnSet(other, T)}
<1>1. {} \in Good
  BY SumEmpty
<1>2. ASSUME NEW T \in SUBSET S, T # {}, T \ {Pick(T)} \in Good
      PROVE  T \in Good
  <2>1. Pick(T) \in T /\ IsFiniteSet(T)
    BY <1>2, PickIn, FS_Subset
  <2>2. QED
    BY <1>2, <2>1, SumPicked
<1>3. S \in Good
  <2> HIDE DEF Good
  <2>1. QED
    BY <1>1, <1>2, PickInduction
<1>4. QED
  BY <1>3

(* Changing one element changes the sum by as much. *)
LEMMA SumUpdate ==
    ASSUME NEW S, IsFiniteSet(S), NEW rec, NEW other, NEW x \in S,
           \A y \in S : rec[y] \in Int, other[x] \in Int,
           \A y \in S \ {x} : other[y] = rec[y]
    PROVE  SumFunctionOnSet(other, S) = SumFunctionOnSet(rec, S) - rec[x] + other[x]
<1>1. IsFiniteSet(S \ {x})
  BY FS_Subset
<1>2. SumFunctionOnSet(rec, S) = rec[x] + SumFunctionOnSet(rec, S \ {x})
  BY SumTake
<1>3. SumFunctionOnSet(other, S) = other[x] + SumFunctionOnSet(other, S \ {x})
  <2>1. \A y \in S : other[y] \in Int
    OBVIOUS
  <2>2. QED
    BY <2>1, SumTake
<1>4. SumFunctionOnSet(rec, S \ {x}) = SumFunctionOnSet(other, S \ {x})
  BY <1>1, SumAgree
<1>5. SumFunctionOnSet(rec, S \ {x}) \in Int /\ rec[x] \in Int
  BY <1>1, SumInt
<1>6. QED
  BY <1>2, <1>3, <1>4, <1>5

(* A sum of zeros. *)
LEMMA SumZero ==
    ASSUME NEW S, IsFiniteSet(S), NEW rec, \A x \in S : rec[x] = 0
    PROVE  SumFunctionOnSet(rec, S) = 0
<1> DEFINE Good == {T \in SUBSET S : SumFunctionOnSet(rec, T) = 0}
<1>1. {} \in Good
  BY SumEmpty
<1>2. ASSUME NEW T \in SUBSET S, T # {}, T \ {Pick(T)} \in Good
      PROVE  T \in Good
  <2>1. Pick(T) \in T /\ IsFiniteSet(T)
    BY <1>2, PickIn, FS_Subset
  <2>2. QED
    BY <1>2, <2>1, SumPicked
<1>3. S \in Good
  <2> HIDE DEF Good
  <2>1. QED
    BY <1>1, <1>2, PickInduction
<1>4. QED
  BY <1>3
=============================================================================
