--------------------------- MODULE ShardingProofs ---------------------------
(* Proofs about the operators of Sharding, for every width of the arithmetic,  *)
(* every discovery result and all worker bounds: what computeActualWorkers,     *)
(* the sort by slug and assignRoundRobin compute.                               *)
EXTENDS Sharding, OrderLemmas

-----------------------------------------------------------------------------
(* The worker count.                                                            *)

(* Multiplication by a natural number keeps the order.                          *)
LEMMA TimesKeepsOrder ==
    ASSUME NEW x \in Int, NEW y \in Int, NEW b \in Nat, x <= y
    PROVE  x * b <= y * b
  BY SMT

(* What integer division by a positive number gives.                            *)
LEMMA Quotient ==
    ASSUME NEW a \in Nat, NEW b \in Nat \ {0}
    PROVE  /\ a \div b \in Nat /\ a % b \in 0..(b - 1)
           /\ a = (a \div b) * b + (a % b)
  BY SMT

(* Quotient and remainder are determined by the sum they make.                  *)
LEMMA QuotientIsUnique ==
    ASSUME NEW q \in Int, NEW r \in Int, NEW b \in Nat \ {0},
           NEW k \in 0..(b - 1), NEW l \in 0..(b - 1), q * b + k = r * b + l
    PROVE  q = r /\ k = l
  <1>1. CASE q < r
    <2>1. (q + 1) * b <= r * b
      BY <1>1, TimesKeepsOrder
    <2>2. (q + 1) * b = q * b + b
      BY SMT
    <2> QED
      BY <2>1, <2>2
  <1>2. CASE r < q
    <2>1. (r + 1) * b <= q * b
      BY <1>2, TimesKeepsOrder
    <2>2. (r + 1) * b = r * b + b
      BY SMT
    <2> QED
      BY <2>1, <2>2
  <1> QED
    BY <1>1, <1>2

(* The worker count lies between the bounds, whatever the arithmetic wraps to. *)
LEMMA WorkersWithinBounds ==
    ASSUME NEW n \in Int, NEW b \in WorkerBounds, ValidBounds(b)
    PROVE  /\ computeActualWorkers(n, b) \in Nat
           /\ computeActualWorkers(n, b) >= b.minWorkers
           /\ computeActualWorkers(n, b) <= b.maxWorkers
  <1> DEFINE wrapped == Wrap(Wrap(n + b.reposPerWorker) - 1)
             target == GoDiv(wrapped, b.reposPerWorker)
  <1>1. b.minWorkers \in Int /\ b.maxWorkers \in Int /\ b.reposPerWorker \in Int
    BY DEF WorkerBounds
  <1>2. \A x \in Int : Wrap(x) \in Int
    BY HalfRangeAssumption DEF HalfRangeAssumption, Wrap
  <1>3. wrapped \in Int
    BY <1>1, <1>2
  <1>4. target \in Int
    <2> HIDE DEF wrapped
    <2> QED BY <1>1, <1>3 DEF GoDiv, ValidBounds
  <1> HIDE DEF target
  <1> QED
    BY <1>1, <1>4 DEF computeActualWorkers, ValidBounds, target, wrapped

(* Remainders of numbers near the modulus.                                      *)
LEMMA RemainderNear ==
    ASSUME NEW z \in Int, NEW m \in Nat \ {0}
    PROVE  /\ z \in 0..(m - 1) => z % m = z
           /\ z \in m..(2 * m - 1) => z % m = z - m
           /\ z = -1 => z % m = m - 1
  <1>1. z \in 0..(m - 1) => z % m = z
    BY SMT
  <1>2. z \in m..(2 * m - 1) => z % m = z - m
    BY SMT
  <1>3. z = -1 => z % m = m - 1
    BY SMT
  <1> QED
    BY <1>1, <1>2, <1>3

(* A number within the range is not changed, and one past it loses 2^w.        *)
LEMMA WrapNear ==
    ASSUME NEW x \in Int
    PROVE  /\ -HalfRange <= x /\ x < HalfRange => Wrap(x) = x
           /\ HalfRange <= x /\ x < 3 * HalfRange => Wrap(x) = x - 2 * HalfRange
           /\ x = -HalfRange - 1 => Wrap(x) = HalfRange - 1
  <1> DEFINE h == HalfRange
             m == 2 * h
             y == x + h
  <1>1. h \in Nat \ {0} /\ m \in Nat \ {0} /\ y \in Int
    BY HalfRangeAssumption DEF HalfRangeAssumption
  <1>2. /\ y \in 0..(m - 1) => y % m = y
        /\ y \in m..(2 * m - 1) => y % m = y - m
        /\ y = -1 => y % m = m - 1
    BY <1>1, RemainderNear
  <1>3. Wrap(x) = (y % m) - h
    BY DEF Wrap
  <1>4. /\ -h <= x /\ x < h => y \in 0..(m - 1)
        /\ h <= x /\ x < 3 * h => y \in m..(2 * m - 1)
        /\ x = -h - 1 => y = -1
    BY <1>1
  <1>5. /\ -h <= x /\ x < h => y % m = y
        /\ h <= x /\ x < 3 * h => y % m = y - m
        /\ x = -h - 1 => y % m = m - 1
    BY <1>2, <1>4
  <1>6. /\ y - h = x /\ (y - m) - h = x - 2 * h /\ (m - 1) - h = h - 1
    BY <1>1
  <1> HIDE DEF y, m
  <1> QED
    BY <1>3, <1>5, <1>6 DEF h

(* The least number of shards of b repositories that hold a of them.            *)
CeilingOf(q, a, b) == q \in 0..a /\ q * b >= a /\ (q - 1) * b < a

(* Adding b - 1 before the division rounds it up.                               *)
LEMMA RoundedUp ==
    ASSUME NEW a \in Nat \ {0}, NEW b \in Nat \ {0}
    PROVE  CeilingOf((a + b - 1) \div b, a, b)
  <1> DEFINE q == (a + b - 1) \div b
             r == (a + b - 1) % b
  <1>1. a + b - 1 \in Nat
    OBVIOUS
  <1>2. q \in Nat /\ r \in 0..(b - 1) /\ a + b - 1 = q * b + r
    BY <1>1, Quotient
  <1> HIDE DEF q, r
  <1>3. (q - 1) * b = q * b - b
    BY <1>2, SMT
  <1>4. q * b >= a /\ (q - 1) * b < a
    BY <1>2, <1>3
  <1>5. q <= a
    <2> SUFFICES ASSUME q - 1 >= a PROVE FALSE
      BY <1>2
    <2>1. a * b <= (q - 1) * b
      BY <1>2, TimesKeepsOrder
    <2>2. a * 1 <= a * b
      BY SMT
    <2> QED
      BY <1>4, <2>1, <2>2, <1>2
  <1> QED
    BY <1>2, <1>4, <1>5 DEF q, CeilingOf

(* There is one ceiling.                                                        *)
LEMMA CeilingIsUnique ==
    ASSUME NEW a \in Nat, NEW b \in Nat \ {0}, NEW p, NEW q,
           CeilingOf(p, a, b), CeilingOf(q, a, b)
    PROVE  p = q
  <1>1. /\ p \in Nat /\ q \in Nat
        /\ p * b >= a /\ (p - 1) * b < a /\ q * b >= a /\ (q - 1) * b < a
    BY DEF CeilingOf
  <1>2. p <= q - 1 => p * b <= (q - 1) * b
    BY <1>1, TimesKeepsOrder
  <1>3. q <= p - 1 => q * b <= (p - 1) * b
    BY <1>1, TimesKeepsOrder
  <1>4. p * b \in Int /\ (q - 1) * b \in Int /\ q * b \in Int /\ (p - 1) * b \in Int
    BY <1>1
  <1>5. ~ (p <= q - 1) /\ ~ (q <= p - 1)
    BY <1>1, <1>2, <1>3, <1>4
  <1> QED
    BY <1>1, <1>5

(* The worker count is the ceiling of repos / reposPerWorker, brought within the  *)
(* bounds, also when the sum of the two wraps: it only does so when one shard     *)
(* holds everything, and then the negative count is raised to minWorkers.         *)
LEMMA WorkersAreCeiling ==
    ASSUME NEW n \in Nat \ {0}, 2 * n <= HalfRange, NEW b \in WorkerBounds, ValidBounds(b),
           b.reposPerWorker < HalfRange, NEW q, CeilingOf(q, n, b.reposPerWorker)
    PROVE  computeActualWorkers(Wrap(n), b) =
              IF q < b.minWorkers THEN b.minWorkers
              ELSE IF q > b.maxWorkers THEN b.maxWorkers
              ELSE q
  <1> DEFINE h == HalfRange
             r == b.reposPerWorker
             sum == n + r
             target == GoDiv(Wrap(Wrap(sum) - 1), r)
  <1>1. h \in Nat \ {0}
    BY HalfRangeAssumption DEF HalfRangeAssumption
  <1>2. /\ r \in Nat \ {0} /\ b.minWorkers \in Int /\ b.maxWorkers \in Int
        /\ 1 <= b.minWorkers /\ b.minWorkers <= b.maxWorkers
    BY DEF WorkerBounds, ValidBounds
  <1>3. Wrap(n) = n
    BY <1>1, WrapNear DEF h
  <1>4. computeActualWorkers(Wrap(n), b) = IF target < b.minWorkers THEN b.minWorkers
                                           ELSE IF target > b.maxWorkers THEN b.maxWorkers
                                           ELSE target
    BY <1>3 DEF computeActualWorkers
  <1>5. sum \in Nat /\ sum < 2 * h /\ r < h /\ 2 * n <= h
    BY <1>1, <1>2
  <1>6. CASE sum <= h
    <2>1. Wrap(Wrap(sum) - 1) = sum - 1
      <3>1. CASE sum < h
        <4>1. Wrap(sum) = sum
          BY <1>1, <1>5, <3>1, WrapNear DEF h
        <4>2. Wrap(sum - 1) = sum - 1
          BY <1>1, <1>5, <3>1, WrapNear DEF h
        <4> QED
          BY <4>1, <4>2
      <3>2. CASE sum = h
        <4>1. Wrap(sum) = -h
          BY <1>1, <1>5, <3>2, WrapNear DEF h
        <4>2. Wrap(-h - 1) = h - 1
          BY <1>1, WrapNear DEF h
        <4> QED
          BY <3>2, <4>1, <4>2
      <3> QED
        BY <1>1, <1>5, <1>6, <3>1, <3>2
    <2>2. target = (sum - 1) \div r
      BY <1>2, <1>5, <2>1 DEF GoDiv
    <2>3. CeilingOf(target, n, r)
      BY <1>2, <2>2, RoundedUp
    <2> HIDE DEF target, r
    <2>4. target = q
      BY <1>2, <2>3, CeilingIsUnique DEF r
    <2> QED
      BY <1>4, <2>4
  <1>7. CASE h < sum
    <2> DEFINE x == sum - 2 * h - 1
    <2>1. Wrap(sum) = sum - 2 * h
      BY <1>1, <1>5, <1>7, WrapNear DEF h
    <2>2. x \in Int /\ -h <= x /\ x < 0
      BY <1>1, <1>5, <1>7
    <2>3. Wrap(x) = x
      BY <1>1, <2>2, WrapNear DEF h
    <2>4. Wrap(Wrap(sum) - 1) = x
      BY <2>1, <2>3
    <2>5. target = -((-x) \div r)
      BY <2>2, <2>4 DEF GoDiv
    <2>6. -x \in Nat
      BY <2>2
    <2> HIDE DEF x
    <2>7. (-x) \div r \in Nat
      BY <1>2, <2>6, Quotient
    <2>8. target < b.minWorkers
      <3> HIDE DEF target, r
      <3> QED
        BY <1>2, <2>5, <2>7
    <2>9. CeilingOf(1, n, r)
      <3>1. n < r
        BY <1>1, <1>2, <1>5, <1>7
      <3> QED
        BY <1>2, <3>1 DEF CeilingOf
    <2> HIDE DEF target, r
    <2>10. q = 1
      BY <1>2, <2>9, CeilingIsUnique DEF r
    <2> QED
      BY <1>2, <1>4, <2>8, <2>10
  <1> QED
    BY <1>1, <1>5, <1>6, <1>7

-----------------------------------------------------------------------------
(* The lengths of the shards.                                                   *)

(* Shard k has as many places k, k + n, k + 2n, ... as lie below len.            *)
LEMMA ShardLength ==
    ASSUME NEW len \in Nat, NEW n \in Nat \ {0}, NEW k \in 0..(n - 1)
    PROVE  /\ ShardLen(len, n, k) \in 0..len
           /\ \A m \in Nat : m < ShardLen(len, n, k) <=> k + m * n < len
  <1> DEFINE l == ShardLen(len, n, k)
             q == (len - 1 - k) \div n
             r == (len - 1 - k) % n
  <1>1. CASE len <= k
    <2>1. l = 0
      BY <1>1 DEF ShardLen
    <2>2. \A m \in Nat : m * n \in Nat
      BY SMT
    <2> QED
      BY <1>1, <2>1, <2>2
  <1>2. CASE k < len
    <2>1. len - 1 - k \in Nat
      BY <1>2
    <2>2. q \in Nat /\ r \in 0..(n - 1) /\ len - 1 - k = q * n + r
      BY <2>1, Quotient
    <2>3. l = q + 1
      BY <1>2 DEF ShardLen
    <2> HIDE DEF l, q, r
    <2>4. \A m \in Nat : m <= q => m * n <= q * n
      BY <2>2, TimesKeepsOrder
    <2>5. \A m \in Nat : q + 1 <= m => (q + 1) * n <= m * n
      BY <2>2, TimesKeepsOrder
    <2>6. (q + 1) * n = q * n + n /\ q * n \in Nat /\ \A m \in Nat : m * n \in Nat
      BY <2>2, SMT
    <2>7. \A m \in Nat : m <= q => k + m * n < len
      BY <2>2, <2>4, <2>6
    <2>8. \A m \in Nat : q + 1 <= m => ~ (k + m * n < len)
      BY <2>2, <2>5, <2>6
    <2>9. q < len
      <3>1. q * 1 <= q * n
        BY <2>2, SMT
      <3> QED
        BY <2>2, <2>6, <3>1
    <2>10. \A m \in Nat : m < q + 1 <=> k + m * n < len
      <3> TAKE m \in Nat
      <3>1. m <= q \/ q + 1 <= m
        BY <2>2
      <3> QED
        BY <2>2, <2>7, <2>8, <3>1
    <2> QED
      BY <2>2, <2>3, <2>9, <2>10 DEF l
  <1> QED
    BY <1>1, <1>2

(* Two shards differ by at most one repository.                                  *)
LEMMA ShardLengthsAreClose ==
    ASSUME NEW len \in Nat, NEW n \in Nat \ {0}, NEW j \in 0..(n - 1), NEW k \in 0..(n - 1)
    PROVE  ShardLen(len, n, j) <= ShardLen(len, n, k) + 1
  <1> DEFINE a == ShardLen(len, n, j)
             b == ShardLen(len, n, k)
  <1>1. a \in Nat /\ b \in Nat
    BY ShardLength
  <1>2. \A m \in Nat : m < a <=> j + m * n < len
    BY ShardLength
  <1>3. \A m \in Nat : m < b <=> k + m * n < len
    BY ShardLength
  <1> HIDE DEF a, b
  <1> SUFFICES ASSUME b + 1 < a PROVE FALSE
    BY <1>1 DEF a, b
  <1>4. j + (b + 1) * n < len
    BY <1>1, <1>2
  <1>5. ~ (k + b * n < len)
    BY <1>1, <1>3
  <1>6. (b + 1) * n = b * n + n /\ b * n \in Nat
    BY <1>1, SMT
  <1> QED
    BY <1>4, <1>5, <1>6

-----------------------------------------------------------------------------
(* The sort by slug.                                                            *)

(* The inputs that the stable sort puts before the i-th.                         *)
Before(repos, i) ==
    {j \in 1..Len(repos) : \/ repos[j] < repos[i]
                           \/ repos[j] = repos[i] /\ j < i}

(* The places of the inputs differ and lie within the result.                    *)
LEMMA PlacesDiffer ==
    ASSUME NEW repos \in Seq(Nat)
    PROVE  /\ \A i \in 1..Len(repos) : SortedPlace(repos, i) \in 0..(Len(repos) - 1)
           /\ \A i, j \in 1..Len(repos) : SortedPlace(repos, i) = SortedPlace(repos, j) => i = j
  <1> DEFINE I == 1..Len(repos)
  <1>1. Len(repos) \in Nat /\ \A i \in I : repos[i] \in Nat /\ i \in Nat
    OBVIOUS
  <1>2. IsFiniteSet(I) /\ Cardinality(I) = Len(repos)
    BY <1>1, IntervalSize
  <1>3. \A i \in I : /\ SortedPlace(repos, i) = Cardinality(Before(repos, i))
                     /\ Before(repos, i) \in SUBSET I /\ i \notin Before(repos, i)
    BY <1>1 DEF SortedPlace, Before
  <1>4. \A i \in I : IsFiniteSet(Before(repos, i)) /\ Cardinality(Before(repos, i)) \in Nat
    BY <1>2, <1>3, FS_Subset, FS_CardinalityType
  <1>5. \A i \in I : IsFiniteSet(Before(repos, i) \cup {i})
                     /\ Cardinality(Before(repos, i) \cup {i}) = Cardinality(Before(repos, i)) + 1
    BY <1>3, <1>4, FS_AddElement
  <1>6. ASSUME NEW i \in I
        PROVE  SortedPlace(repos, i) \in 0..(Len(repos) - 1)
    <2>1. Before(repos, i) \cup {i} \in SUBSET I
      BY <1>3
    <2>2. Cardinality(Before(repos, i) \cup {i}) <= Cardinality(I)
      BY <1>2, <2>1, FS_Subset
    <2>3. Cardinality(Before(repos, i)) + 1 <= Len(repos)
      BY <1>2, <1>5, <2>2
    <2> QED
      BY <1>1, <1>3, <1>4, <2>3
  <1>7. ASSUME NEW i \in I, NEW j \in I, i \in Before(repos, j)
        PROVE  SortedPlace(repos, i) < SortedPlace(repos, j)
    <2>1. Before(repos, i) \cup {i} \in SUBSET Before(repos, j)
      BY <1>1, <1>7 DEF Before
    <2>2. Cardinality(Before(repos, i) \cup {i}) <= Cardinality(Before(repos, j))
      BY <1>4, <2>1, FS_Subset
    <2>3. Cardinality(Before(repos, i)) + 1 <= Cardinality(Before(repos, j))
      BY <1>5, <2>2
    <2> QED
      BY <1>3, <1>4, <2>3
  <1>8. \A i, j \in I : i = j \/ i \in Before(repos, j) \/ j \in Before(repos, i)
    BY <1>1 DEF Before
  <1>9. \A i, j \in I : SortedPlace(repos, i) = SortedPlace(repos, j) => i = j
    <2> TAKE i, j \in I
    <2>1. SortedPlace(repos, i) \in Int /\ SortedPlace(repos, j) \in Int
      BY <1>6
    <2> QED
      BY <1>7, <1>8, <2>1
  <1> QED
    BY <1>6, <1>9

(* Every place is some input's: the sort loses nothing.                           *)
LEMMA PlacesAreFilled ==
    ASSUME NEW repos \in Seq(Nat), NEW p \in 1..Len(repos)
    PROVE  \E i \in 1..Len(repos) : SortedPlace(repos, i) = p - 1
  <1> DEFINE I == 1..Len(repos)
             P == 0..(Len(repos) - 1)
             f == [i \in I |-> SortedPlace(repos, i)]
  <1>1. Len(repos) \in Nat
    OBVIOUS
  <1>2. f \in Injection(I, P)
    <2>1. f \in [I -> P]
      BY PlacesDiffer
    <2>2. \A i, j \in I : f[i] = f[j] => i = j
      BY PlacesDiffer
    <2> QED
      BY <2>1, <2>2 DEF Injection, IsInjective
  <1>3. IsFiniteSet(I) /\ Cardinality(I) = Len(repos)
    BY <1>1, IntervalSize
  <1>4. IsFiniteSet(P) /\ Cardinality(P) = Len(repos)
    BY <1>1, IntervalSize
  <1> HIDE DEF f
  <1>5. f \in Surjection(I, P)
    BY <1>2, <1>3, <1>4, FS_Injection
  <1>6. p - 1 \in P
    BY <1>1
  <1>7. \E i \in I : f[i] = p - 1
    BY <1>5, <1>6 DEF Surjection
  <1> QED
    BY <1>7 DEF f

(* Which input goes to the p-th place of the result.                               *)
Origin(repos, p) == CHOOSE i \in 1..Len(repos) : SortedPlace(repos, i) = p - 1

(* Origin is one to one and reaches every input.                                   *)
LEMMA OriginIsBijective ==
    ASSUME NEW repos \in Seq(Nat)
    PROVE  /\ \A p \in 1..Len(repos) : /\ Origin(repos, p) \in 1..Len(repos)
                                       /\ SortedPlace(repos, Origin(repos, p)) = p - 1
           /\ \A p, q \in 1..Len(repos) : Origin(repos, p) = Origin(repos, q) => p = q
           /\ \A i \in 1..Len(repos) : \E p \in 1..Len(repos) : Origin(repos, p) = i
  <1>1. \A p \in 1..Len(repos) : /\ Origin(repos, p) \in 1..Len(repos)
                                 /\ SortedPlace(repos, Origin(repos, p)) = p - 1
    BY PlacesAreFilled DEF Origin
  <1>2. \A p, q \in 1..Len(repos) : Origin(repos, p) = Origin(repos, q) => p = q
    <2> TAKE p, q \in 1..Len(repos)
    <2> HAVE Origin(repos, p) = Origin(repos, q)
    <2>1. p - 1 = q - 1
      BY <1>1
    <2> QED
      BY <2>1
  <1>3. ASSUME NEW i \in 1..Len(repos)
        PROVE  \E p \in 1..Len(repos) : Origin(repos, p) = i
    <2> DEFINE p == SortedPlace(repos, i) + 1
    <2>1. SortedPlace(repos, i) \in 0..(Len(repos) - 1)
      BY PlacesDiffer
    <2>2. p \in 1..Len(repos) /\ p - 1 = SortedPlace(repos, i)
      BY <2>1
    <2>3. SortedPlace(repos, Origin(repos, p)) = SortedPlace(repos, i)
          /\ Origin(repos, p) \in 1..Len(repos)
      BY <1>1, <2>2
    <2>4. Origin(repos, p) = i
      BY <2>3, PlacesDiffer
    <2> QED
      BY <2>2, <2>4
  <1> QED
    BY <1>1, <1>2, <1>3

(* The result has the input's length, and its p-th slug is its origin's.            *)
LEMMA SortedSlugs ==
    ASSUME NEW repos \in Seq(Nat)
    PROVE  /\ SortBySlug(repos) \in Seq(Nat) /\ Len(SortBySlug(repos)) = Len(repos)
           /\ \A p \in 1..Len(repos) : SortBySlug(repos)[p] = repos[Origin(repos, p)]
  <1>1. SortBySlug(repos) = [p \in 1..Len(repos) |-> repos[Origin(repos, p)]]
    BY DEF SortBySlug, Origin
  <1>2. \A p \in 1..Len(repos) : repos[Origin(repos, p)] \in Nat
    <2>1. \A p \in 1..Len(repos) : Origin(repos, p) \in 1..Len(repos)
      BY OriginIsBijective
    <2>2. \A i \in 1..Len(repos) : repos[i] \in Nat
      OBVIOUS
    <2> QED
      BY <2>1, <2>2
  <1>3. Len(repos) \in Nat
    OBVIOUS
  <1> QED
    BY <1>1, <1>2, <1>3

-----------------------------------------------------------------------------
(* The order of discovery does not matter.                                           *)

(* How many inputs have a slug below v.                                              *)
Smaller(repos, v) == Cardinality({j \in 1..Len(repos) : repos[j] < v})

(* These counts are natural numbers that grow with v.                                 *)
LEMMA SmallerGrows ==
    ASSUME NEW repos \in Seq(Nat), NEW v \in Nat, NEW w \in Nat, v <= w
    PROVE  /\ Smaller(repos, v) \in Nat /\ Smaller(repos, w) \in Nat
           /\ Smaller(repos, v) <= Smaller(repos, w)
  <1> DEFINE V == {j \in 1..Len(repos) : repos[j] < v}
             W == {j \in 1..Len(repos) : repos[j] < w}
  <1>1. Len(repos) \in Nat /\ \A j \in 1..Len(repos) : repos[j] \in Nat
    OBVIOUS
  <1>2. IsFiniteSet(1..Len(repos))
    BY <1>1, IntervalSize
  <1>3. V \in SUBSET W /\ W \in SUBSET (1..Len(repos))
    BY <1>1
  <1> HIDE DEF V, W
  <1>4. IsFiniteSet(W) /\ IsFiniteSet(V) /\ Cardinality(V) <= Cardinality(W)
    BY <1>2, <1>3, FS_Subset
  <1>5. Cardinality(V) \in Nat /\ Cardinality(W) \in Nat
    BY <1>4, FS_CardinalityType
  <1> QED
    BY <1>4, <1>5 DEF Smaller, V, W

(* The slug at the p-th place: fewer than p inputs are smaller, and at least p are     *)
(* not larger.                                                                        *)
LEMMA SortedRank ==
    ASSUME NEW repos \in Seq(Nat), NEW p \in 1..Len(repos)
    PROVE  LET v == SortBySlug(repos)[p]
           IN  v \in Nat /\ Smaller(repos, v) < p /\ p <= Smaller(repos, v + 1)
  <1> DEFINE I == 1..Len(repos)
             i == Origin(repos, p)
             v == repos[i]
             V == {j \in I : repos[j] < v}
             W == {j \in I : repos[j] < v + 1}
             B == Before(repos, i)
  <1>1. Len(repos) \in Nat /\ \A j \in I : repos[j] \in Nat
    OBVIOUS
  <1>2. i \in I /\ SortedPlace(repos, i) = p - 1 /\ SortBySlug(repos)[p] = v
    BY OriginIsBijective, SortedSlugs
  <1>3. v \in Nat
    BY <1>1, <1>2
  <1>4. IsFiniteSet(I)
    BY <1>1, IntervalSize
  <1>5. SortedPlace(repos, i) = Cardinality(B)
    BY DEF SortedPlace, Before
  <1>6. B \in SUBSET I /\ V \in SUBSET B /\ W \in SUBSET I /\ i \notin B
    BY <1>1, <1>2, <1>3 DEF Before
  <1>7. B \cup {i} \in SUBSET W
    <2>1. \A j \in B : repos[j] <= v
      BY <1>1, <1>3, <1>6 DEF Before
    <2> QED
      BY <1>1, <1>2, <1>3, <1>6, <2>1
  <1> HIDE DEF B, V, W, v, i
  <1>8. IsFiniteSet(B) /\ IsFiniteSet(W)
    BY <1>4, <1>6, FS_Subset
  <1>9. IsFiniteSet(V) /\ Cardinality(V) <= Cardinality(B)
    BY <1>6, <1>8, FS_Subset
  <1>10. Cardinality(B \cup {i}) = Cardinality(B) + 1
    BY <1>6, <1>8, FS_AddElement
  <1>11. Cardinality(B \cup {i}) <= Cardinality(W)
    BY <1>7, <1>8, FS_Subset
  <1>12. Cardinality(V) \in Nat /\ Cardinality(B) \in Nat /\ Cardinality(W) \in Nat
    BY <1>8, <1>9, FS_CardinalityType
  <1>13. Cardinality(B) = p - 1
    BY <1>2, <1>5
  <1>14. Cardinality(V) < p /\ p <= Cardinality(W)
    BY <1>9, <1>10, <1>11, <1>12, <1>13
  <1> QED
    BY <1>2, <1>3, <1>14 DEF Smaller, V, W

(* Inputs with the same counts are sorted alike.                                        *)
LEMMA SameCountsSortAlike ==
    ASSUME NEW r \in Seq(Nat), NEW s \in Seq(Nat), Len(r) = Len(s),
           \A v \in Nat : Smaller(r, v) = Smaller(s, v)
    PROVE  SortBySlug(r) = SortBySlug(s)
  <1>1. ASSUME NEW p \in 1..Len(r)
        PROVE  SortBySlug(r)[p] = SortBySlug(s)[p]
    <2> DEFINE v == SortBySlug(r)[p]
               w == SortBySlug(s)[p]
    <2>1. v \in Nat /\ Smaller(r, v) < p /\ p <= Smaller(r, v + 1)
      BY SortedRank
    <2>2. w \in Nat /\ Smaller(s, w) < p /\ p <= Smaller(s, w + 1)
      BY SortedRank
    <2> HIDE DEF v, w
    <2>3. Smaller(r, w) < p /\ p <= Smaller(r, w + 1)
      BY <2>2
    <2>4. v + 1 <= w => Smaller(r, v + 1) <= Smaller(r, w)
                        /\ Smaller(r, v + 1) \in Nat /\ Smaller(r, w) \in Nat
      BY <2>1, <2>2, SmallerGrows
    <2>5. w + 1 <= v => Smaller(r, w + 1) <= Smaller(r, v)
                        /\ Smaller(r, w + 1) \in Nat /\ Smaller(r, v) \in Nat
      BY <2>1, <2>2, SmallerGrows
    <2>6. p \in Nat
      OBVIOUS
    <2>7. ~ (v + 1 <= w)
      BY <2>1, <2>3, <2>4, <2>6
    <2>8. ~ (w + 1 <= v)
      BY <2>1, <2>3, <2>5, <2>6
    <2>9. v = w
      BY <2>1, <2>2, <2>7, <2>8
    <2> QED
      BY <2>9 DEF v, w
  <1>2. /\ SortBySlug(r) \in Seq(Nat) /\ Len(SortBySlug(r)) = Len(r)
        /\ SortBySlug(s) \in Seq(Nat) /\ Len(SortBySlug(s)) = Len(r)
    BY SortedSlugs
  <1>3. SortBySlug(r) = [p \in 1..Len(r) |-> SortBySlug(r)[p]]
    BY DEF SortBySlug
  <1>4. SortBySlug(s) = [p \in 1..Len(r) |-> SortBySlug(s)[p]]
    BY DEF SortBySlug
  <1> QED
    BY <1>1, <1>3, <1>4

(* Two inputs that trade places.                                                         *)
Swapped(repos, i, j) == [repos EXCEPT ![i] = repos[j], ![j] = repos[i]]

(* A swap leaves the counts alone.                                                       *)
LEMMA SwapKeepsCounts ==
    ASSUME NEW repos \in Seq(Nat), NEW i \in 1..Len(repos), NEW j \in 1..Len(repos)
    PROVE  /\ Swapped(repos, i, j) \in Seq(Nat) /\ Len(Swapped(repos, i, j)) = Len(repos)
           /\ \A v \in Nat : Smaller(repos, v) = Smaller(Swapped(repos, i, j), v)
  <1> DEFINE s == Swapped(repos, i, j)
             I == 1..Len(repos)
             at(k) == IF k = i THEN j ELSE IF k = j THEN i ELSE k
  <1>1. Len(repos) \in Nat /\ \A k \in I : repos[k] \in Nat
    OBVIOUS
  <1>2. s \in Seq(Nat) /\ Len(s) = Len(repos)
    BY DEF Swapped
  <1>3. \A k \in I : at(k) \in I /\ at(at(k)) = k /\ s[at(k)] = repos[k]
    BY DEF Swapped
  <1> HIDE DEF s, at
  <1>4. ASSUME NEW v \in Nat
        PROVE  Smaller(repos, v) = Smaller(s, v)
    <2> DEFINE V == {k \in I : repos[k] < v}
               W == {k \in I : s[k] < v}
               f == [k \in V |-> at(k)]
    <2>1. f \in [V -> W]
      BY <1>3
    <2>2. \A k, l \in V : f[k] = f[l] => k = l
      BY <1>3
    <2>3. ASSUME NEW k \in W
          PROVE  \E l \in V : f[l] = k
      <3>1. at(k) \in I /\ at(at(k)) = k
        BY <1>3
      <3>2. repos[at(k)] = s[k]
        BY <1>3, <3>1
      <3> QED
        BY <3>1, <3>2
    <2>4. f \in Bijection(V, W)
      BY <2>1, <2>2, <2>3 DEF Bijection, Injection, Surjection, IsInjective
    <2>5. IsFiniteSet(V)
      <3>1. IsFiniteSet(I) /\ V \in SUBSET I
        BY <1>1, IntervalSize
      <3> QED
        BY <3>1, FS_Subset
    <2> HIDE DEF f, V, W
    <2>6. Cardinality(V) = Cardinality(W)
      BY <2>4, <2>5, FS_Bijection DEF ExistsBijection
    <2> QED
      BY <1>2, <2>6 DEF Smaller, V, W
  <1> QED
    BY <1>2, <1>4 DEF s

(* A swap leaves the plan alone.                                                         *)
LEMMA SwapKeepsPlan ==
    ASSUME NEW repos \in Seq(Nat), NEW i \in 1..Len(repos), NEW j \in 1..Len(repos), NEW b
    PROVE  Build(Swapped(repos, i, j), b) = Build(repos, b)
  <1> DEFINE s == Swapped(repos, i, j)
  <1>1. s \in Seq(Nat) /\ Len(s) = Len(repos)
    BY SwapKeepsCounts
  <1>2. SortBySlug(s) = SortBySlug(repos)
    BY <1>1, SwapKeepsCounts, SameCountsSortAlike
  <1>3. s # <<>> /\ repos # <<>>
    BY <1>1
  <1> HIDE DEF s
  <1> QED
    BY <1>1, <1>2, <1>3 DEF Build, s

-----------------------------------------------------------------------------
(* assignRoundRobin deals every place out once.                                          *)

(* The sorted place that becomes the m-th repository of shard k.                          *)
DealtPlace(n, k, m) == k + (m - 1) * n + 1

(* Shard and position determine the place.                                                *)
LEMMA DealIsInjective ==
    ASSUME NEW len \in Nat, NEW n \in Nat \ {0}
    PROVE  /\ \A k \in 0..(n - 1) : \A m \in 1..ShardLen(len, n, k) : DealtPlace(n, k, m) \in 1..len
           /\ \A k, l \in 0..(n - 1) : \A m, o \in Nat \ {0} :
                 DealtPlace(n, k, m) = DealtPlace(n, l, o) => k = l /\ m = o
  <1>1. ASSUME NEW k \in 0..(n - 1), NEW m \in 1..ShardLen(len, n, k)
        PROVE  DealtPlace(n, k, m) \in 1..len
    <2>1. ShardLen(len, n, k) \in Nat
      BY ShardLength
    <2>2. m - 1 \in Nat /\ m - 1 < ShardLen(len, n, k)
      BY <2>1
    <2>3. k + (m - 1) * n < len
      BY <2>2, ShardLength
    <2>4. (m - 1) * n \in Nat
      BY <2>2, SMT
    <2> QED
      BY <2>3, <2>4 DEF DealtPlace
  <1>2. ASSUME NEW k \in 0..(n - 1), NEW l \in 0..(n - 1), NEW m \in Nat \ {0}, NEW o \in Nat \ {0},
               DealtPlace(n, k, m) = DealtPlace(n, l, o)
        PROVE  k = l /\ m = o
    <2>1. (m - 1) * n \in Int /\ (o - 1) * n \in Int /\ m - 1 \in Int /\ o - 1 \in Int
      BY SMT
    <2>2. (m - 1) * n + k = (o - 1) * n + l
      BY <1>2, <2>1 DEF DealtPlace
    <2>3. m - 1 = o - 1 /\ k = l
      BY <2>1, <2>2, QuotientIsUnique
    <2> QED
      BY <2>3
  <1> QED
    BY <1>1, <1>2

(* Every place is dealt.                                                                  *)
LEMMA EveryPlaceIsDealt ==
    ASSUME NEW len \in Nat, NEW n \in Nat \ {0}, NEW p \in 1..len
    PROVE  \E k \in 0..(n - 1) : \E m \in 1..ShardLen(len, n, k) : DealtPlace(n, k, m) = p
  <1> DEFINE q == (p - 1) \div n
             k == (p - 1) % n
  <1>0. p - 1 \in Nat
    OBVIOUS
  <1>1. q \in Nat /\ k \in 0..(n - 1) /\ p - 1 = q * n + k
    BY <1>0, Quotient
  <1> HIDE DEF q, k
  <1>2. q * n \in Nat
    BY <1>1, SMT
  <1>3. q < ShardLen(len, n, k) /\ ShardLen(len, n, k) \in Nat
    <2>1. k + q * n < len
      BY <1>1, <1>2
    <2> QED
      BY <1>1, <2>1, ShardLength
  <1>4. q + 1 \in 1..ShardLen(len, n, k) /\ (q + 1) - 1 = q
    BY <1>1, <1>3
  <1>5. DealtPlace(n, k, q + 1) = p
    BY <1>1, <1>2, <1>4 DEF DealtPlace
  <1> QED
    BY <1>1, <1>4, <1>5

(* What a shard holds.                                                                    *)
LEMMA ShardContents ==
    ASSUME NEW sorted \in Seq(Nat), NEW n \in Nat \ {0}, NEW k \in 0..(n - 1)
    PROVE  LET shard == assignRoundRobin(sorted, n)[k]
           IN  /\ shard \in Seq(Nat) /\ Len(shard) = ShardLen(Len(sorted), n, k)
               /\ \A m \in 1..Len(shard) : shard[m] = sorted[DealtPlace(n, k, m)]
  <1> DEFINE len == Len(sorted)
             shard == assignRoundRobin(sorted, n)[k]
  <1>1. len \in Nat /\ \A p \in 1..len : sorted[p] \in Nat
    OBVIOUS
  <1>2. shard = [m \in 1..ShardLen(len, n, k) |-> sorted[DealtPlace(n, k, m)]]
    BY DEF assignRoundRobin, DealtPlace
  <1>3. ShardLen(len, n, k) \in Nat
    BY <1>1, ShardLength
  <1>4. \A m \in 1..ShardLen(len, n, k) : DealtPlace(n, k, m) \in 1..len
    BY <1>1, DealIsInjective
  <1>5. \A m \in 1..ShardLen(len, n, k) : sorted[DealtPlace(n, k, m)] \in Nat
    BY <1>1, <1>4
  <1> HIDE DEF shard, len
  <1>6. shard \in Seq(Nat) /\ Len(shard) = ShardLen(len, n, k)
    BY <1>2, <1>3, <1>5
  <1>7. \A m \in 1..Len(shard) : shard[m] = sorted[DealtPlace(n, k, m)]
    BY <1>2, <1>6
  <1> QED
    BY <1>6, <1>7 DEF shard, len

(* A slug's occurrences among the shards of the sorted input.                              *)
Dealt(repos, n, slug) ==
    {x \in (0..(n - 1)) \X (1..Len(repos)) :
        LET shard == assignRoundRobin(SortBySlug(repos), n)[x[1]]
        IN  x[2] <= Len(shard) /\ shard[x[2]] = slug}

(* They are as many as its occurrences in the input.                                      *)
LEMMA EveryOccurrenceIsDealtOnce ==
    ASSUME NEW repos \in Seq(Nat), NEW n \in Nat \ {0}, NEW slug
    PROVE  Cardinality(Dealt(repos, n, slug)) = Cardinality({i \in 1..Len(repos) : repos[i] = slug})
  <1> DEFINE len == Len(repos)
             sorted == SortBySlug(repos)
             D == Dealt(repos, n, slug)
             O == {i \in 1..len : repos[i] = slug}
             at(x) == DealtPlace(n, x[1], x[2])
             f == [x \in D |-> Origin(repos, at(x))]
  <1>1. len \in Nat
    OBVIOUS
  <1>2. sorted \in Seq(Nat) /\ Len(sorted) = len
        /\ \A p \in 1..len : sorted[p] = repos[Origin(repos, p)] /\ Origin(repos, p) \in 1..len
    BY SortedSlugs, OriginIsBijective
  <1> HIDE DEF sorted
  <1>3. \A k \in 0..(n - 1) :
            LET shard == assignRoundRobin(sorted, n)[k]
            IN  /\ Len(shard) = ShardLen(len, n, k)
                /\ \A m \in 1..Len(shard) : shard[m] = sorted[DealtPlace(n, k, m)]
    <2> TAKE k \in 0..(n - 1)
    <2> DEFINE shard == assignRoundRobin(sorted, n)[k]
    <2>1. /\ Len(shard) = ShardLen(Len(sorted), n, k)
          /\ \A m \in 1..Len(shard) : shard[m] = sorted[DealtPlace(n, k, m)]
      BY <1>2, ShardContents
    <2> QED
      BY <1>2, <2>1
  <1>4. \A k \in 0..(n - 1) : ShardLen(len, n, k) \in 0..len
    BY <1>1, ShardLength
  <1>5. \A x : x \in D <=> /\ x \in (0..(n - 1)) \X (1..len)
                           /\ x[2] \in 1..ShardLen(len, n, x[1])
                           /\ sorted[at(x)] = slug
    <2> TAKE x
    <2>1. CASE x \in (0..(n - 1)) \X (1..len)
      <3>1. x[1] \in 0..(n - 1) /\ x[2] \in 1..len /\ ShardLen(len, n, x[1]) \in Nat
        BY <1>4, <2>1
      <3>2. x[2] <= ShardLen(len, n, x[1]) <=> x[2] \in 1..ShardLen(len, n, x[1])
        BY <1>1, <3>1
      <3> QED
        BY <1>3, <2>1, <3>1, <3>2 DEF Dealt, sorted
    <2>2. CASE x \notin (0..(n - 1)) \X (1..len)
      BY <2>2 DEF Dealt
    <2> QED
      BY <2>1, <2>2
  <1> HIDE DEF D, len
  <1>6. ASSUME NEW x \in D
        PROVE  at(x) \in 1..len /\ x[1] \in 0..(n - 1) /\ x[2] \in Nat \ {0} /\ x = <<x[1], x[2]>>
    <2>1. /\ x \in (0..(n - 1)) \X (1..len) /\ x[2] \in 1..ShardLen(len, n, x[1])
      BY <1>5
    <2>2. x[1] \in 0..(n - 1) /\ x[2] \in Nat \ {0} /\ x = <<x[1], x[2]>>
      BY <1>1, <2>1
    <2>3. at(x) \in 1..len
      BY <1>1, <2>1, <2>2, DealIsInjective
    <2> QED
      BY <2>2, <2>3
  <1>7. f \in [D -> O]
    BY <1>2, <1>5, <1>6
  <1>8. ASSUME NEW x \in D, NEW y \in D, f[x] = f[y]
        PROVE  x = y
    <2>1. at(x) = at(y)
      BY <1>6, <1>8, OriginIsBijective DEF len
    <2>2. x[1] = y[1] /\ x[2] = y[2]
      BY <1>1, <1>6, <2>1, DealIsInjective
    <2> QED
      BY <1>6, <2>2
  <1>9. ASSUME NEW i \in O
        PROVE  \E x \in D : f[x] = i
    <2>1. PICK p \in 1..len : Origin(repos, p) = i
      BY OriginIsBijective DEF len
    <2>2. \E k \in 0..(n - 1) : \E m \in 1..ShardLen(len, n, k) : DealtPlace(n, k, m) = p
      BY <1>1, EveryPlaceIsDealt
    <2>3. PICK k \in 0..(n - 1) : \E m \in 1..ShardLen(len, n, k) : DealtPlace(n, k, m) = p
      BY <2>2
    <2>4. PICK m \in 1..ShardLen(len, n, k) : DealtPlace(n, k, m) = p
      BY <2>3
    <2>5. m \in 1..len
      BY <1>1, <1>4, <2>4
    <2>6. at(<<k, m>>) = p /\ sorted[p] = slug
      BY <1>2, <2>1, <2>4
    <2>7. <<k, m>> \in D
      BY <1>5, <2>4, <2>5, <2>6
    <2> QED
      BY <2>1, <2>6, <2>7
  <1>10. f \in Bijection(D, O)
    BY <1>7, <1>8, <1>9 DEF Bijection, Injection, Surjection, IsInjective
  <1>11. IsFiniteSet(O)
    <2>1. IsFiniteSet(1..len) /\ O \in SUBSET (1..len)
      BY <1>1, IntervalSize
    <2> QED
      BY <2>1, FS_Subset
  <1> HIDE DEF f, O
  <1>12. IsFiniteSet(D)
    BY <1>10, <1>11, FS_Injection DEF Bijection
  <1>13. Cardinality(O) = Cardinality(D)
    BY <1>10, <1>12, FS_Bijection DEF ExistsBijection
  <1> QED
    BY <1>13 DEF D, O, len

-----------------------------------------------------------------------------
(* The plan.                                                                              *)

(* A plan has at least one worker, and one shard for each.                                *)
LEMMA BuildGivesAPlan ==
    ASSUME NEW repos \in Seq(Nat), NEW b \in WorkerBounds, Build(repos, b).err = "none"
    PROVE  /\ repos # <<>> /\ ValidBounds(b)
           /\ Build(repos, b).actualWorkers \in Nat \ {0}
           /\ Build(repos, b).actualWorkers = computeActualWorkers(Wrap(Len(repos)), b)
           /\ DOMAIN Build(repos, b).data = 0..(Build(repos, b).actualWorkers - 1)
           /\ Build(repos, b).data # <<>>
           /\ \A k \in DOMAIN Build(repos, b).data :
                 Build(repos, b).data[k].repos
                    = assignRoundRobin(SortBySlug(repos), Build(repos, b).actualWorkers)[k]
  <1> DEFINE actual == computeActualWorkers(Wrap(Len(repos)), b)
  <1>1. repos # <<>> /\ ValidBounds(b)
    BY DEF Build, NoPlan
  <1>2. Wrap(Len(repos)) \in Int
    BY HalfRangeAssumption DEF HalfRangeAssumption, Wrap
  <1>3. actual \in Nat \ {0}
    BY <1>1, <1>2, WorkersWithinBounds DEF ValidBounds, WorkerBounds
  <1>4. Build(repos, b).actualWorkers = actual
    BY <1>1 DEF Build
  <1>5. DOMAIN assignRoundRobin(SortBySlug(repos), actual) = 0..(actual - 1)
    BY DEF assignRoundRobin
  <1>6. Build(repos, b).data = [k \in 0..(actual - 1) |->
                                    ShardEntry(assignRoundRobin(SortBySlug(repos), actual)[k])]
    BY <1>1, <1>5 DEF Build
  <1>7. 0 \in DOMAIN Build(repos, b).data
    BY <1>3, <1>6
  <1> HIDE DEF actual
  <1>8. \A k \in 0..(actual - 1) :
            Build(repos, b).data[k].repos = assignRoundRobin(SortBySlug(repos), actual)[k]
    BY <1>6 DEF ShardEntry
  <1> QED
    BY <1>1, <1>3, <1>4, <1>6, <1>7, <1>8 DEF actual
=============================================================================
