-------------------------- MODULE DiscoveryProofs --------------------------
(* Proofs about Discovery, for every platform, every size of page and every     *)
(* number of failing requests, crashes and repositories that come and go.       *)
EXTENDS Discovery, OrderLemmas

-----------------------------------------------------------------------------
(* The inductive invariant.                                                    *)

(* How much of the listing the pages read so far have shown.                   *)
Shown == (page - 1) * Served

(* The repositories that Discover asks for before it looks for a config.       *)
Wanted == {r \in Owned : matchesFilter(r)}

Asked == {r \in Repos : Eligible(r)}

(* What has been gathered at each stage was on the platform, and is asked for. *)
GatheredIsAskedFor ==
    /\ pc \in {"connect", "list"} => out = <<>> /\ path = 1
    /\ pc = "list" => ToSet(all) \subseteq known \cap Owned
    /\ pc = "probe" =>
        /\ derefOrTrue(discovery.requireConfig)
        /\ ToSet(all) \subseteq known \cap Wanted
        /\ ToSet(out) \subseteq known \cap Asked
    /\ IF outcome \in {"found", "empty"}
       THEN ToSet(found) \subseteq known \cap Asked
       ELSE found = <<>>

(* The user listing is read only after the platform knew no such organisation, *)
(* and a Run that failed was refused, or asked for an account nobody has.      *)
FailuresAreExplained ==
    /\ pc = "list" /\ endpoint = "user" => OwnerKind[discoveryOwner] # "org"
    /\ FailsOnlyWhenHopeless

(* While nothing is removed: what has not been gathered is still to come, and   *)
(* the repository being probed has none of the paths already tried.            *)
NothingIsMissed ==
    "removed" \notin shifts =>
        /\ start \subseteq ToSet(platform)
        /\ pc = "probe" /\ all # <<>> /\ Head(all) \in start =>
            \A q \in 1..(path - 1) : ConfigPaths[q] \notin Attr[Head(all)].config
        /\ ServerLimit >= PageSize =>
            /\ pc = "list" => \A r \in start \cap Owned :
                \/ r \in ToSet(all)
                \/ \E k \in DOMAIN Listing : k > Shown /\ Listing[k] = r
            /\ pc = "probe" => start \cap Asked \subseteq ToSet(all) \cup ToSet(out)
            /\ outcome \in {"found", "empty"} => start \cap Asked \subseteq ToSet(found)

(* While nothing is added: what has been gathered does not come again.         *)
NothingComesTwice ==
    "added" \notin shifts =>
        /\ pc = "list" =>
            /\ IsInjective(all)
            /\ \A k \in DOMAIN Listing : Listing[k] \in ToSet(all) => k <= Shown
        /\ pc = "probe" =>
            /\ IsInjective(all) /\ IsInjective(out) /\ ToSet(all) \cap ToSet(out) = {}
        /\ IsInjective(found)

Inv == TypeOK /\ GatheredIsAskedFor /\ FailuresAreExplained /\ NothingIsMissed /\ NothingComesTwice

-----------------------------------------------------------------------------
(* Lists that keep some of their entries.                                      *)

PlacesOf(list, kept) == {i \in 1..Len(list) : list[i] \in kept}

(* How many entries are kept up to a place.                                    *)
RankIn(places, i) == Cardinality({j \in places : j <= i})

(* Ranks number a finite set of places from 1 on, in their order.              *)
LEMMA RanksNumberThePlaces ==
    ASSUME NEW n \in Nat, NEW P \in SUBSET (1..n)
    PROVE  /\ IsFiniteSet(P) /\ Cardinality(P) \in Nat
           /\ \A i \in P : RankIn(P, i) \in 1..Cardinality(P)
           /\ \A i, j \in P : i < j => RankIn(P, i) < RankIn(P, j)
           /\ \A k \in 1..Cardinality(P) : \E i \in P : RankIn(P, i) = k
  <1> DEFINE Upto(i) == {j \in P : j <= i}
  <1>0. \A i \in P : i \in Int
    OBVIOUS
  <1>1. IsFiniteSet(P)
    <2>1. IsFiniteSet(1..n)
      BY IntervalSize
    <2> QED
      BY <2>1, FS_Subset
  <1>2. Cardinality(P) \in Nat
    BY <1>1, FS_CardinalityType
  <1>3. ASSUME NEW i \in P
        PROVE  /\ IsFiniteSet(Upto(i)) /\ RankIn(P, i) = Cardinality(Upto(i))
               /\ RankIn(P, i) \in 1..Cardinality(P)
    <2>1. Upto(i) \in SUBSET P /\ i \in Upto(i)
      OBVIOUS
    <2> HIDE DEF Upto
    <2>2. IsFiniteSet(Upto(i)) /\ Cardinality(Upto(i)) <= Cardinality(P)
      BY <1>1, <2>1, FS_Subset
    <2>3. Cardinality(Upto(i)) \in Nat /\ Cardinality(Upto(i)) # 0
      BY <2>1, <2>2, FS_CardinalityType, FS_EmptySet
    <2>4. RankIn(P, i) = Cardinality(Upto(i))
      BY DEF RankIn, Upto
    <2> QED
      BY <1>2, <2>2, <2>3, <2>4
  <1>4. ASSUME NEW i \in P, NEW j \in P, i < j
        PROVE  RankIn(P, i) < RankIn(P, j)
    <2>0. \A k \in P : (k <= i => k <= j) /\ ~ (j <= i) /\ j <= j
      BY <1>0, <1>4
    <2>1. Upto(i) \in SUBSET Upto(j) /\ j \in Upto(j) /\ j \notin Upto(i)
      BY <2>0
    <2> HIDE DEF Upto
    <2>2. Cardinality(Upto(i)) <= Cardinality(Upto(j)) /\ Cardinality(Upto(i)) # Cardinality(Upto(j))
      BY <1>3, <2>1, FS_Subset
    <2>3. Cardinality(Upto(i)) \in Nat /\ Cardinality(Upto(j)) \in Nat
      BY <1>3, FS_CardinalityType
    <2> QED
      BY <1>3, <2>2, <2>3
  <1> DEFINE f == [i \in P |-> RankIn(P, i)]
             K == 1..Cardinality(P)
  <1>5. f \in Injection(P, K)
    <2>1. f \in [P -> K]
      BY <1>3
    <2>2. \A i, j \in P : f[i] = f[j] => i = j
      <3> SUFFICES ASSUME NEW i \in P, NEW j \in P, i # j
                   PROVE  f[i] # f[j]
        OBVIOUS
      <3>1. i < j \/ j < i
        BY <1>0
      <3>2. RankIn(P, i) < RankIn(P, j) \/ RankIn(P, j) < RankIn(P, i)
        BY <1>4, <3>1
      <3>3. RankIn(P, i) \in Int /\ RankIn(P, j) \in Int
        <4>1. RankIn(P, i) \in K /\ RankIn(P, j) \in K
          BY <1>3
        <4> QED
          BY <1>2, <4>1
      <3> QED
        BY <3>2, <3>3
    <2> QED
      BY <2>1, <2>2 DEF Injection, IsInjective
  <1>6. IsFiniteSet(K) /\ Cardinality(K) = Cardinality(P)
    BY <1>2, IntervalSize
  <1>7. f \in Surjection(P, K)
    <2> HIDE DEF f, K
    <2> QED
      BY <1>5, <1>6, FS_Injection
  <1>8. \A k \in K : \E i \in P : f[i] = k
    <2> HIDE DEF f, K
    <2> QED
      BY <1>7 DEF Surjection
  <1> QED
    BY <1>1, <1>2, <1>3, <1>4, <1>8

(* What Keep keeps, and where it puts it.                                      *)
LEMMA KeepKeeps ==
    ASSUME NEW list \in Seq(Repos), NEW kept \in SUBSET Repos
    PROVE  LET P == PlacesOf(list, kept)
               t == Keep[list][kept]
           IN  /\ t \in Seq(Repos) /\ Len(t) = Cardinality(P)
               /\ \A i \in P : RankIn(P, i) \in 1..Len(t) /\ t[RankIn(P, i)] = list[i]
               /\ \A k \in 1..Len(t) : \E i \in P : RankIn(P, i) = k /\ t[k] = list[i]
  <1> DEFINE P == PlacesOf(list, kept)
             t == Keep[list][kept]
             At(k) == CHOOSE i \in P : RankIn(P, i) = k
  <1>1. P \in SUBSET (1..Len(list)) /\ Len(list) \in Nat
    BY DEF PlacesOf
  <1>2. /\ Cardinality(P) \in Nat
        /\ \A i \in P : RankIn(P, i) \in 1..Cardinality(P)
        /\ \A i, j \in P : i < j => RankIn(P, i) < RankIn(P, j)
        /\ \A k \in 1..Cardinality(P) : \E i \in P : RankIn(P, i) = k
    <2> HIDE DEF P
    <2> QED
      BY <1>1, RanksNumberThePlaces
  <1>3. t = [k \in 1..Cardinality(P) |-> list[At(k)]]
    BY DEF Keep, PlacesOf, RankIn
  <1>4. \A i, j \in P : RankIn(P, i) = RankIn(P, j) => i = j
    <2> SUFFICES ASSUME NEW i \in P, NEW j \in P, i # j
                 PROVE  RankIn(P, i) # RankIn(P, j)
      OBVIOUS
    <2>1. i < j \/ j < i
      BY <1>1
    <2> HIDE DEF P
    <2> QED
      BY <1>2, <2>1
  <1>5. \A i \in P : list[i] \in Repos
    BY <1>1
  <1> HIDE DEF P
  <1>6. \A k \in 1..Cardinality(P) : At(k) \in P /\ RankIn(P, At(k)) = k
    BY <1>2
  <1> HIDE DEF At, t
  <1>7. t \in [1..Cardinality(P) -> Repos]
    BY <1>3, <1>5, <1>6
  <1>8. t \in Seq(Repos) /\ Len(t) = Cardinality(P)
    BY <1>2, <1>7
  <1>9. \A i \in P : RankIn(P, i) \in 1..Len(t) /\ t[RankIn(P, i)] = list[i]
    BY <1>2, <1>3, <1>4, <1>6, <1>8
  <1>10. \A k \in 1..Len(t) : \E i \in P : RankIn(P, i) = k /\ t[k] = list[i]
    BY <1>3, <1>6, <1>8
  <1> QED
    BY <1>8, <1>9, <1>10 DEF P, t

(* The kept entries are those of the list that are wanted, and none is repeated *)
(* that was not.                                                               *)
LEMMA KeepIsSelection ==
    ASSUME NEW list \in Seq(Repos), NEW kept \in SUBSET Repos
    PROVE  LET t == Keep[list][kept]
           IN  /\ t \in Seq(Repos)
               /\ ToSet(t) = ToSet(list) \cap kept
               /\ IsInjective(list) => IsInjective(t)
  <1> DEFINE P == PlacesOf(list, kept)
             t == Keep[list][kept]
  <1>1. /\ t \in Seq(Repos)
        /\ \A i \in P : RankIn(P, i) \in 1..Len(t) /\ t[RankIn(P, i)] = list[i]
        /\ \A k \in 1..Len(t) : \E i \in P : RankIn(P, i) = k /\ t[k] = list[i]
    BY KeepKeeps
  <1>2. DOMAIN list = 1..Len(list) /\ \A i : i \in P <=> i \in 1..Len(list) /\ list[i] \in kept
    BY DEF PlacesOf
  <1> HIDE DEF P, t
  <1>3. DOMAIN t = 1..Len(t)
    BY <1>1
  <1>4. ToSet(t) = ToSet(list) \cap kept
    <2>1. ASSUME NEW k \in 1..Len(t)
          PROVE  t[k] \in ToSet(list) \cap kept
      BY <1>1, <1>2 DEF ToSet
    <2>2. ASSUME NEW i \in 1..Len(list), list[i] \in kept
          PROVE  list[i] \in ToSet(t)
      BY <1>1, <1>2, <1>3, <2>2 DEF ToSet
    <2> QED
      BY <1>2, <1>3, <2>1, <2>2 DEF ToSet
  <1>5. ASSUME IsInjective(list)
        PROVE  IsInjective(t)
    <2> SUFFICES ASSUME NEW k \in 1..Len(t), NEW m \in 1..Len(t), t[k] = t[m]
                 PROVE  k = m
      BY <1>3 DEF IsInjective
    <2>1. PICK i \in P : RankIn(P, i) = k /\ t[k] = list[i]
      BY <1>1
    <2>2. PICK j \in P : RankIn(P, j) = m /\ t[m] = list[j]
      BY <1>1
    <2>3. i = j
      BY <1>2, <1>5, <2>1, <2>2 DEF IsInjective
    <2> QED
      BY <2>1, <2>2, <2>3
  <1> QED
    BY <1>1, <1>4, <1>5 DEF t

-----------------------------------------------------------------------------
(* Lists that gain or lose an entry.                                           *)

(* t is s with entries put in: what both have stands no earlier in t.          *)
Embeds(s, t) ==
    \E e \in [1..Len(s) -> 1..Len(t)] :
        /\ \A i, j \in 1..Len(s) : i < j => e[i] < e[j]
        /\ \A i \in 1..Len(s) : e[i] >= i /\ t[e[i]] = s[i]

(* An entry that is put in moves the kept ones apart, never back.              *)
LEMMA KeepMovesOn ==
    ASSUME NEW s \in Seq(Repos), NEW t \in Seq(Repos), NEW kept \in SUBSET Repos, Embeds(s, t)
    PROVE  \A k \in 1..Len(Keep[s][kept]) : \E m \in 1..Len(Keep[t][kept]) :
                m >= k /\ Keep[t][kept][m] = Keep[s][kept][k]
  <1> DEFINE P == PlacesOf(s, kept)
             Q == PlacesOf(t, kept)
             u == Keep[s][kept]
             v == Keep[t][kept]
  <1>1. PICK e \in [1..Len(s) -> 1..Len(t)] :
            /\ \A i, j \in 1..Len(s) : i < j => e[i] < e[j]
            /\ \A i \in 1..Len(s) : e[i] >= i /\ t[e[i]] = s[i]
    BY DEF Embeds
  <1>2. /\ Len(s) \in Nat /\ Len(t) \in Nat
        /\ P \in SUBSET (1..Len(s)) /\ Q \in SUBSET (1..Len(t))
        /\ \A i \in P : e[i] \in Q
    BY <1>1 DEF PlacesOf
  <1>3. /\ \A k \in 1..Len(u) : \E i \in P : RankIn(P, i) = k /\ u[k] = s[i]
        /\ u \in Seq(Repos)
    BY KeepKeeps
  <1>4. /\ \A i \in Q : RankIn(Q, i) \in 1..Len(v) /\ v[RankIn(Q, i)] = t[i]
        /\ v \in Seq(Repos)
    BY KeepKeeps
  <1> HIDE DEF P, Q, u, v
  <1>5. ASSUME NEW i \in P
        PROVE  RankIn(P, i) <= RankIn(Q, e[i])
    <2> DEFINE A == {j \in P : j <= i}
               B == {j \in Q : j <= e[i]}
               f == [j \in A |-> e[j]]
    <2>1. \A j \in A : e[j] \in B
      <3> SUFFICES ASSUME NEW j \in P, j <= i
                   PROVE  e[j] \in Q /\ e[j] <= e[i]
        OBVIOUS
      <3>1. j = i \/ j < i
        BY <1>2
      <3>2. e[j] \in Q /\ e[i] \in Int /\ e[j] \in Int
        BY <1>2
      <3>3. j < i => e[j] < e[i]
        BY <1>1, <1>2
      <3> QED
        BY <3>1, <3>2, <3>3
    <2>2. \A j, k \in A : e[j] = e[k] => j = k
      <3> SUFFICES ASSUME NEW j \in P, NEW k \in P, j # k
                   PROVE  e[j] # e[k]
        OBVIOUS
      <3>1. j < k \/ k < j
        BY <1>2
      <3>2. e[j] < e[k] \/ e[k] < e[j]
        BY <1>1, <1>2, <3>1
      <3>3. e[j] \in Int /\ e[k] \in Int
        BY <1>2
      <3> QED
        BY <3>2, <3>3
    <2>3. f \in Injection(A, B)
      BY <2>1, <2>2 DEF Injection, IsInjective
    <2>4. IsFiniteSet(B)
      <3>1. IsFiniteSet(Q) /\ B \in SUBSET Q
        BY <1>2, RanksNumberThePlaces
      <3> HIDE DEF B
      <3> QED
        BY <3>1, FS_Subset
    <2>5. RankIn(P, i) = Cardinality(A) /\ RankIn(Q, e[i]) = Cardinality(B)
      BY DEF RankIn
    <2> HIDE DEF A, B, f
    <2>6. Cardinality(A) <= Cardinality(B)
      BY <2>3, <2>4, FS_Injection
    <2> QED
      BY <2>5, <2>6
  <1>6. ASSUME NEW k \in 1..Len(u)
        PROVE  \E m \in 1..Len(v) : m >= k /\ v[m] = u[k]
    <2>1. PICK i \in P : RankIn(P, i) = k /\ u[k] = s[i]
      BY <1>3
    <2>2. RankIn(Q, e[i]) \in 1..Len(v) /\ v[RankIn(Q, e[i])] = t[e[i]]
      BY <1>2, <1>4
    <2>3. k \in Int /\ RankIn(Q, e[i]) \in Int
      BY <1>3, <1>4, <2>2
    <2>4. RankIn(Q, e[i]) >= k
      BY <1>5, <2>1, <2>3
    <2>5. t[e[i]] = s[i]
      BY <1>1, <1>2
    <2> QED
      BY <2>1, <2>2, <2>4, <2>5
  <1> QED
    BY <1>6 DEF u, v

(* Two lists, one after the other.                                             *)
LEMMA JoinedEntries ==
    ASSUME NEW s \in Seq(Repos), NEW t \in Seq(Repos)
    PROVE  /\ s \o t \in Seq(Repos) /\ Len(s \o t) = Len(s) + Len(t)
           /\ \A j \in 1..Len(s) : (s \o t)[j] = s[j]
           /\ \A j \in 1..Len(t) : Len(s) + j \in 1..Len(s \o t) /\ (s \o t)[Len(s) + j] = t[j]
           /\ \A k \in 1..Len(s \o t) : k \in 1..Len(s) \/ \E j \in 1..Len(t) : k = Len(s) + j
           /\ ToSet(s \o t) = ToSet(s) \cup ToSet(t)
  <1>1. /\ s \o t \in Seq(Repos) /\ Len(s \o t) = Len(s) + Len(t)
        /\ Len(s) \in Nat /\ Len(t) \in Nat
        /\ \A j \in 1..Len(s) : (s \o t)[j] = s[j]
    OBVIOUS
  <1>2. ASSUME NEW j \in 1..Len(t)
        PROVE  Len(s) + j \in 1..Len(s \o t) /\ (s \o t)[Len(s) + j] = t[j]
    <2>1. (s \o t)[Len(s) + j] = t[Len(s) + j - Len(s)]
      BY <1>1
    <2>2. Len(s) + j - Len(s) = j /\ Len(s) + j \in 1..Len(s \o t)
      BY <1>1
    <2> QED
      BY <2>1, <2>2
  <1>3. ASSUME NEW k \in 1..Len(s \o t)
        PROVE  k \in 1..Len(s) \/ \E j \in 1..Len(t) : k = Len(s) + j
    <2>1. k \in 1..Len(s) \/ (k - Len(s) \in 1..Len(t) /\ k = Len(s) + (k - Len(s)))
      BY <1>1
    <2> QED
      BY <2>1
  <1>4. DOMAIN s = 1..Len(s) /\ DOMAIN t = 1..Len(t) /\ DOMAIN (s \o t) = 1..Len(s \o t)
    BY <1>1
  <1>5. 1..Len(s) \subseteq 1..Len(s \o t)
    BY <1>1
  <1>6. ToSet(s \o t) = ToSet(s) \cup ToSet(t)
    <2>1. ASSUME NEW k \in 1..Len(s \o t)
          PROVE  (s \o t)[k] \in ToSet(s) \cup ToSet(t)
      BY <1>1, <1>2, <1>3, <1>4 DEF ToSet
    <2>2. ASSUME NEW j \in 1..Len(s)
          PROVE  s[j] \in ToSet(s \o t)
      BY <1>1, <1>4, <1>5 DEF ToSet
    <2>3. ASSUME NEW j \in 1..Len(t)
          PROVE  t[j] \in ToSet(s \o t)
      BY <1>2, <1>4 DEF ToSet
    <2> QED
      BY <1>4, <2>1, <2>2, <2>3 DEF ToSet
  <1> QED
    BY <1>1, <1>2, <1>3, <1>6

(* The list with one more entry.                                               *)
LEMMA InsertedEntries ==
    ASSUME NEW s \in Seq(Repos), NEW r \in Repos, NEW i \in 1..(Len(s) + 1)
    PROVE  LET t == InsertAt(s, i, r)
           IN  /\ t \in Seq(Repos) /\ Len(t) = Len(s) + 1 /\ t[i] = r
               /\ \A j \in 1..Len(s) : j < i => t[j] = s[j]
               /\ \A j \in 1..Len(s) : j >= i => t[j + 1] = s[j]
  <1> DEFINE a == SubSeq(s, 1, i - 1)
             b == SubSeq(s, i, Len(s))
             m == a \o <<r>>
  <1>1. Len(s) \in Nat /\ i \in Int /\ 1 <= i /\ i <= Len(s) + 1
    OBVIOUS
  <1>2. a \in Seq(Repos) /\ Len(a) = i - 1 /\ \A j \in 1..(i - 1) : a[j] = s[j]
    BY <1>1
  <1>3. b \in Seq(Repos) /\ Len(b) = Len(s) - i + 1 /\ \A j \in 1..(Len(s) - i + 1) : b[j] = s[i + j - 1]
    BY <1>1
  <1>4. InsertAt(s, i, r) = m \o b
    BY DEF InsertAt
  <1> HIDE DEF a, b
  <1>5. m \in Seq(Repos) /\ Len(m) = i /\ m[i] = r /\ \A j \in 1..(i - 1) : m[j] = s[j]
    BY <1>1, <1>2
  <1> HIDE DEF m
  <1>6. /\ m \o b \in Seq(Repos) /\ Len(m \o b) = Len(s) + 1
        /\ \A j \in 1..i : (m \o b)[j] = m[j]
        /\ \A j \in 1..(Len(s) - i + 1) : (m \o b)[i + j] = b[j]
    <2>1. /\ m \o b \in Seq(Repos) /\ Len(m \o b) = Len(m) + Len(b)
          /\ \A j \in 1..Len(m) : (m \o b)[j] = m[j]
          /\ \A j \in 1..Len(b) : (m \o b)[Len(m) + j] = b[j]
      BY <1>3, <1>5, JoinedEntries
    <2>2. i + (Len(s) - i + 1) = Len(s) + 1
      BY <1>1
    <2> QED
      BY <1>3, <1>5, <2>1, <2>2
  <1>7. ASSUME NEW j \in 1..Len(s), j < i
        PROVE  (m \o b)[j] = s[j]
    BY <1>1, <1>5, <1>6, <1>7
  <1>8. ASSUME NEW j \in 1..Len(s), j >= i
        PROVE  (m \o b)[j + 1] = s[j]
    <2>1. j + 1 - i \in 1..(Len(s) - i + 1) /\ i + (j + 1 - i) = j + 1 /\ i + (j + 1 - i) - 1 = j
      BY <1>1, <1>8
    <2>2. b[j + 1 - i] = s[i + (j + 1 - i) - 1]
      BY <1>3, <2>1
    <2> QED
      BY <1>6, <2>1, <2>2
  <1>9. (m \o b)[i] = r
    BY <1>1, <1>5, <1>6
  <1> QED
    BY <1>4, <1>6, <1>7, <1>8, <1>9

(* The list with one entry less.                                               *)
LEMMA RemovedEntries ==
    ASSUME NEW s \in Seq(Repos), NEW i \in 1..Len(s)
    PROVE  LET t == RemoveAt(s, i)
           IN  /\ t \in Seq(Repos) /\ Len(t) = Len(s) - 1
               /\ \A j \in 1..Len(t) : j < i => t[j] = s[j]
               /\ \A j \in 1..Len(t) : j >= i => t[j] = s[j + 1]
  <1> DEFINE a == SubSeq(s, 1, i - 1)
             b == SubSeq(s, i + 1, Len(s))
             n == Len(s)
  <1>1. n \in Nat /\ i \in Int /\ 1 <= i /\ i <= n
    OBVIOUS
  <1>2. a \in Seq(Repos) /\ Len(a) = i - 1 /\ \A j \in 1..(i - 1) : a[j] = s[j]
    BY <1>1
  <1>3. b \in Seq(Repos) /\ Len(b) = n - i /\ \A j \in 1..(n - i) : b[j] = s[i + j]
    <2>1. \A j \in 1..(n - i) : i + 1 + j - 1 = i + j
      BY <1>1
    <2>2. b \in Seq(Repos) /\ Len(b) = n - i /\ \A j \in 1..(n - i) : b[j] = s[i + 1 + j - 1]
      BY <1>1
    <2> QED
      BY <2>1, <2>2
  <1>4. RemoveAt(s, i) = a \o b
    BY DEF RemoveAt
  <1> HIDE DEF a, b, n
  <1>5. /\ a \o b \in Seq(Repos) /\ Len(a \o b) = n - 1
        /\ \A j \in 1..(i - 1) : (a \o b)[j] = a[j]
        /\ \A j \in 1..(n - i) : (a \o b)[i - 1 + j] = b[j]
    <2>1. /\ a \o b \in Seq(Repos) /\ Len(a \o b) = Len(a) + Len(b)
          /\ \A j \in 1..Len(a) : (a \o b)[j] = a[j]
          /\ \A j \in 1..Len(b) : (a \o b)[Len(a) + j] = b[j]
      BY <1>2, <1>3, JoinedEntries
    <2>2. (i - 1) + (n - i) = n - 1
      BY <1>1
    <2> QED
      BY <1>2, <1>3, <2>1, <2>2
  <1>6. ASSUME NEW j \in 1..(n - 1), j < i
        PROVE  (a \o b)[j] = s[j]
    BY <1>1, <1>2, <1>5, <1>6
  <1>7. ASSUME NEW j \in 1..(n - 1), j >= i
        PROVE  (a \o b)[j] = s[j + 1]
    <2>1. /\ j - (i - 1) \in 1..(n - i) /\ i - 1 + (j - (i - 1)) = j
          /\ i + (j - (i - 1)) = j + 1
      BY <1>1, <1>7
    <2>2. b[j - (i - 1)] = s[i + (j - (i - 1))]
      BY <1>3, <2>1
    <2> QED
      BY <1>5, <2>1, <2>2
  <1> QED
    BY <1>4, <1>5, <1>6, <1>7 DEF n

(* A repository that is added moves others on and replaces none.               *)
LEMMA InsertPutsIn ==
    ASSUME NEW s \in Seq(Repos), IsInjective(s), NEW r \in Repos, r \notin ToSet(s),
           NEW i \in 1..(Len(s) + 1)
    PROVE  LET t == InsertAt(s, i, r)
           IN  /\ t \in Seq(Repos) /\ IsInjective(t)
               /\ ToSet(t) = ToSet(s) \cup {r} /\ Embeds(s, t)
  <1> DEFINE t == InsertAt(s, i, r)
             n == Len(s)
             e == [j \in 1..n |-> IF j < i THEN j ELSE j + 1]
  <1>1. n \in Nat /\ i \in Int /\ 1 <= i /\ i <= n + 1 /\ DOMAIN s = 1..n
    OBVIOUS
  <1>2. /\ t \in Seq(Repos) /\ Len(t) = n + 1 /\ t[i] = r
        /\ \A j \in 1..n : j < i => t[j] = s[j]
        /\ \A j \in 1..n : j >= i => t[j + 1] = s[j]
    BY InsertedEntries
  <1> HIDE DEF t
  <1>3. DOMAIN t = 1..(n + 1)
    BY <1>2
  <1>4. \A k \in 1..(n + 1) :
            \/ k = i
            \/ k < i /\ k \in 1..n
            \/ k > i /\ k - 1 \in 1..n /\ k - 1 >= i /\ (k - 1) + 1 = k
    BY <1>1
  <1> HIDE DEF n
  <1>5. /\ e \in [1..n -> 1..Len(t)]
        /\ \A j, k \in 1..n : j < k => e[j] < e[k]
        /\ \A j \in 1..n : e[j] >= j
    BY <1>1, <1>2
  <1>6. \A j \in 1..n : t[e[j]] = s[j]
    <2> SUFFICES ASSUME NEW j \in 1..n
                 PROVE  t[e[j]] = s[j]
      OBVIOUS
    <2>1. CASE j < i
      BY <1>2, <2>1
    <2>2. CASE ~ (j < i)
      <3>1. j >= i
        BY <1>1, <2>2
      <3> QED
        BY <1>2, <2>2, <3>1
    <2> QED
      BY <2>1, <2>2
  <1>7. Embeds(s, t)
    <2> HIDE DEF e
    <2> QED
      BY <1>5, <1>6 DEF Embeds, n
  <1>8. \A k \in 1..(n + 1) : k = i \/ \E j \in 1..n : k = e[j]
    <2> SUFFICES ASSUME NEW k \in 1..(n + 1), k # i
                 PROVE  \E j \in 1..n : k = e[j]
      OBVIOUS
    <2>1. CASE k < i
      <3>1. k \in 1..n /\ e[k] = k
        BY <1>1, <1>4, <2>1
      <3> QED
        BY <3>1
    <2>2. CASE k > i
      <3>1. k - 1 \in 1..n /\ ~ (k - 1 < i) /\ (k - 1) + 1 = k
        BY <1>1, <1>4, <2>2
      <3>2. e[k - 1] = k
        BY <3>1
      <3> QED
        BY <3>1, <3>2
    <2> QED
      BY <1>1, <2>1, <2>2
  <1>9. i \in 1..(n + 1) /\ \A j \in 1..n : e[j] \in 1..(n + 1)
    BY <1>1, <1>2, <1>5
  <1> HIDE DEF e
  <1>10. ToSet(t) = ToSet(s) \cup {r}
    <2>1. ASSUME NEW k \in 1..(n + 1)
          PROVE  t[k] \in ToSet(s) \cup {r}
      <3>1. CASE k = i
        BY <1>2, <3>1
      <3>2. CASE k # i
        <4>1. PICK j \in 1..n : k = e[j]
          BY <1>8, <3>2
        <4>2. t[k] = s[j]
          BY <1>6, <4>1
        <4> QED
          BY <1>1, <4>2 DEF ToSet
      <3> QED
        BY <3>1, <3>2
    <2>2. ASSUME NEW j \in 1..n
          PROVE  s[j] \in ToSet(t)
      <3>1. t[e[j]] = s[j] /\ e[j] \in DOMAIN t
        BY <1>3, <1>6, <1>9
      <3> QED
        BY <3>1 DEF ToSet
    <2>3. r \in ToSet(t)
      BY <1>2, <1>3, <1>9 DEF ToSet
    <2> QED
      BY <1>1, <1>3, <2>1, <2>2, <2>3 DEF ToSet
  <1>11. IsInjective(t)
    <2> SUFFICES ASSUME NEW k \in 1..(n + 1), NEW m \in 1..(n + 1), t[k] = t[m]
                 PROVE  k = m
      BY <1>3 DEF IsInjective
    <2>1. \A j \in 1..n : s[j] # r
      BY <1>1 DEF ToSet
    <2>2. CASE k = i /\ m = i
      BY <2>2
    <2>3. CASE k = i /\ m # i
      <3>1. PICK j \in 1..n : m = e[j]
        BY <1>8, <2>3
      <3> QED
        BY <1>2, <1>6, <2>1, <2>3, <3>1
    <2>4. CASE k # i /\ m = i
      <3>1. PICK j \in 1..n : k = e[j]
        BY <1>8, <2>4
      <3> QED
        BY <1>2, <1>6, <2>1, <2>4, <3>1
    <2>5. CASE k # i /\ m # i
      <3>1. PICK j \in 1..n : k = e[j]
        BY <1>8, <2>5
      <3>2. PICK q \in 1..n : m = e[q]
        BY <1>8, <2>5
      <3>3. s[j] = s[q]
        BY <1>6, <3>1, <3>2
      <3>4. j = q
        BY <1>1, <3>3 DEF IsInjective
      <3> QED
        BY <3>1, <3>2, <3>4
    <2> QED
      BY <2>2, <2>3, <2>4, <2>5
  <1> QED
    BY <1>2, <1>7, <1>10, <1>11 DEF t

(* A repository that is removed moves others back and leaves them in order.    *)
LEMMA RemoveTakesOut ==
    ASSUME NEW s \in Seq(Repos), IsInjective(s), NEW i \in 1..Len(s)
    PROVE  LET t == RemoveAt(s, i)
           IN  /\ t \in Seq(Repos) /\ IsInjective(t)
               /\ ToSet(t) \subseteq ToSet(s) /\ Embeds(t, s)
  <1> DEFINE t == RemoveAt(s, i)
             n == Len(s)
             e == [j \in 1..(n - 1) |-> IF j < i THEN j ELSE j + 1]
  <1>1. n \in Nat /\ i \in Int /\ 1 <= i /\ i <= n /\ DOMAIN s = 1..n
    OBVIOUS
  <1>2. /\ t \in Seq(Repos) /\ Len(t) = n - 1
        /\ \A j \in 1..(n - 1) : j < i => t[j] = s[j]
        /\ \A j \in 1..(n - 1) : j >= i => t[j] = s[j + 1]
    BY RemovedEntries
  <1> HIDE DEF t
  <1>3. DOMAIN t = 1..(n - 1)
    BY <1>2
  <1> HIDE DEF n
  <1>4. /\ e \in [1..(n - 1) -> 1..n]
        /\ \A j, k \in 1..(n - 1) : j < k => e[j] < e[k]
        /\ \A j \in 1..(n - 1) : e[j] >= j
    BY <1>1
  <1>5. ASSUME NEW j \in 1..(n - 1)
        PROVE  s[e[j]] = t[j]
    <2>1. CASE j < i
      BY <1>2, <2>1
    <2>2. CASE ~ (j < i)
      <3>1. j >= i
        BY <1>1, <2>2
      <3> QED
        BY <1>2, <2>2, <3>1
    <2> QED
      BY <2>1, <2>2
  <1> HIDE DEF e
  <1>6. Embeds(t, s)
    BY <1>2, <1>4, <1>5 DEF Embeds, n
  <1>7. ToSet(t) \subseteq ToSet(s)
    <2>1. ASSUME NEW j \in 1..(n - 1)
          PROVE  t[j] \in ToSet(s)
      BY <1>1, <1>4, <1>5 DEF ToSet
    <2> QED
      BY <1>3, <2>1 DEF ToSet
  <1>8. IsInjective(t)
    <2> SUFFICES ASSUME NEW k \in 1..(n - 1), NEW m \in 1..(n - 1), t[k] = t[m]
                 PROVE  k = m
      BY <1>3 DEF IsInjective
    <2>1. s[e[k]] = s[e[m]] /\ e[k] \in 1..n /\ e[m] \in 1..n
      BY <1>4, <1>5
    <2>2. e[k] = e[m]
      BY <1>1, <2>1 DEF IsInjective
    <2>3. k < m \/ m < k \/ k = m
      BY <1>1
    <2>4. ~ (e[k] < e[m]) /\ ~ (e[m] < e[k])
      BY <1>1, <2>1, <2>2
    <2> QED
      BY <1>4, <2>3, <2>4
  <1> QED
    BY <1>2, <1>6, <1>7, <1>8 DEF t

(* A page is what a listing has between two places.                            *)
LEMMA PageEntries ==
    ASSUME NEW list \in Seq(Repos), NEW low \in Nat, NEW size \in Nat
    PROVE  LET high == IF low + size < Len(list) THEN low + size ELSE Len(list)
               part == SubSeq(list, low + 1, high)
           IN  /\ part \in Seq(Repos)
               /\ \A x : x \in ToSet(part) <=>
                    \E k \in 1..Len(list) : low < k /\ k <= low + size /\ list[k] = x
               /\ IsInjective(list) => IsInjective(part)
               /\ Len(part) < size => Len(list) < low + size
  <1> DEFINE n == Len(list)
             high == IF low + size < n THEN low + size ELSE n
             part == SubSeq(list, low + 1, high)
  <1>1. n \in Nat /\ high \in Nat /\ high <= n /\ high <= low + size /\ DOMAIN list = 1..n
    OBVIOUS
  <1>2. high < low + size => n < low + size
    OBVIOUS
  <1>3. \A k \in 1..n : k <= low + size => k <= high
    OBVIOUS
  <1> HIDE DEF high, n
  <1>4. CASE high < low + 1
    <2>1. part = <<>>
      BY <1>1, <1>4
    <2>2. part \in Seq(Repos) /\ ToSet(part) = {} /\ IsInjective(part) /\ Len(part) = 0
      <3>1. DOMAIN <<>> = {} /\ <<>> \in Seq(Repos) /\ Len(<<>>) = 0
        OBVIOUS
      <3> HIDE DEF part
      <3> QED
        BY <2>1, <3>1 DEF ToSet, IsInjective
    <2>3. ~ \E k \in 1..n : low < k /\ k <= low + size
      BY <1>1, <1>3, <1>4
    <2>4. 0 < size => n < low + size
      BY <1>1, <1>2, <1>4
    <2> QED
      BY <2>2, <2>3, <2>4 DEF n, high
  <1>5. CASE high >= low + 1
    <2> DEFINE m == high - low
    <2>1. m \in Nat /\ part \in Seq(Repos) /\ Len(part) = m /\ \A j \in 1..m : part[j] = list[low + j]
      <3>1. part \in Seq(Repos) /\ Len(part) = high - (low + 1) + 1
        BY <1>1, <1>5 DEF n
      <3>2. \A j \in 1..m : part[j] = list[(low + 1) + j - 1] /\ (low + 1) + j - 1 = low + j
        BY <1>1, <1>5 DEF n
      <3> QED
        BY <1>1, <1>5, <3>1, <3>2
    <2>2. DOMAIN part = 1..m
      BY <2>1
    <2>3. \A j \in 1..m : low + j \in 1..n /\ low < low + j /\ low + j <= low + size
      BY <1>1
    <2>4. \A k \in 1..n : low < k /\ k <= low + size => k - low \in 1..m /\ low + (k - low) = k
      BY <1>1, <1>3
    <2> HIDE DEF part, m
    <2>5. ASSUME NEW x
          PROVE  x \in ToSet(part) <=> \E k \in 1..n : low < k /\ k <= low + size /\ list[k] = x
      <3>1. ASSUME NEW j \in 1..m, x = part[j]
            PROVE  \E k \in 1..n : low < k /\ k <= low + size /\ list[k] = x
        BY <2>1, <2>3, <3>1
      <3>2. ASSUME NEW k \in 1..n, low < k, k <= low + size, list[k] = x
            PROVE  \E j \in 1..m : x = part[j]
        <4>1. k - low \in 1..m /\ low + (k - low) = k
          BY <2>4, <3>2
        <4>2. part[k - low] = x
          BY <2>1, <3>2, <4>1
        <4> QED
          BY <4>1, <4>2
      <3> QED
        BY <2>2, <3>1, <3>2 DEF ToSet
    <2>6. ASSUME IsInjective(list)
          PROVE  IsInjective(part)
      <3> SUFFICES ASSUME NEW j \in 1..m, NEW k \in 1..m, part[j] = part[k]
                   PROVE  j = k
        BY <2>2 DEF IsInjective
      <3>1. low + j = low + k
        BY <1>1, <2>1, <2>3, <2>6 DEF IsInjective
      <3> QED
        BY <2>1, <3>1
    <2>7. m < size => n < low + size
      BY <1>1, <1>2 DEF m
    <2> QED
      BY <2>1, <2>5, <2>6, <2>7 DEF n, high, part
  <1> QED
    BY <1>1, <1>4, <1>5

-----------------------------------------------------------------------------
(* What the platform shows.                                                    *)

(* Listing, of any platform.                                                   *)
ListingOf(list, e, owned) == IF e = "installation" THEN list ELSE Keep[list][owned]

(* A listing has the owner's repositories, each once.                          *)
LEMMA ListingHasTheOwned ==
    ASSUME NEW list \in Seq(Repos), IsInjective(list), NEW e, NEW owned \in SUBSET Repos
    PROVE  LET L == ListingOf(list, e, owned)
           IN  /\ L \in Seq(Repos) /\ IsInjective(L)
               /\ ToSet(L) \subseteq ToSet(list) /\ ToSet(list) \cap owned \subseteq ToSet(L)
  BY KeepIsSelection DEF ListingOf

(* Repositories that are put in move the others on in every listing.           *)
LEMMA ListingMovesOn ==
    ASSUME NEW s \in Seq(Repos), NEW t \in Seq(Repos), Embeds(s, t), NEW e,
           NEW owned \in SUBSET Repos
    PROVE  \A k \in 1..Len(ListingOf(s, e, owned)) : \E m \in 1..Len(ListingOf(t, e, owned)) :
                m >= k /\ ListingOf(t, e, owned)[m] = ListingOf(s, e, owned)[k]
  <1>1. CASE e = "installation"
    <2>1. PICK f \in [1..Len(s) -> 1..Len(t)] : \A i \in 1..Len(s) : f[i] >= i /\ t[f[i]] = s[i]
      BY DEF Embeds
    <2> QED
      BY <1>1, <2>1 DEF ListingOf
  <1>2. CASE e # "installation"
    BY <1>2, KeepMovesOn DEF ListingOf
  <1> QED
    BY <1>1, <1>2

(* The set of entries, and the places of a list.                               *)
LEMMA EntriesOf ==
    ASSUME NEW list \in Seq(Repos)
    PROVE  /\ DOMAIN list = 1..Len(list) /\ Len(list) \in Nat /\ ToSet(list) \subseteq Repos
           /\ \A x : x \in ToSet(list) <=> \E k \in 1..Len(list) : list[k] = x
  BY DEF ToSet

(* Pages follow one another.                                                   *)
LEMMA PagesFollow ==
    ASSUME TypeOK
    PROVE  /\ Served \in Nat \ {0} /\ Shown \in Nat
           /\ page * Served = Shown + Served /\ (page + 1 - 1) * Served = Shown + Served
           /\ (1 - 1) * Served = 0
           /\ ServerLimit >= PageSize => Served = PageSize
  <1>1. page \in Nat \ {0}
    BY DEF TypeOK
  <1>2. Served \in Nat \ {0} /\ (ServerLimit >= PageSize => Served = PageSize)
    BY SizesAssumption DEF Served
  <1>3. \A p, s \in Nat \ {0} : (p - 1) * s \in Nat /\ p * s = (p - 1) * s + s
    OBVIOUS
  <1>4. page + 1 - 1 = page /\ 1 - 1 = 0 /\ \A s \in Nat : 0 * s = 0
    BY <1>1
  <1> HIDE DEF Served
  <1> QED
    BY <1>1, <1>2, <1>3, <1>4 DEF Shown

(* The first of some globs that names an owner.                                *)
LEMMA FirstGlob ==
    ASSUME NEW globs \in Seq(Pattern)
    PROVE  LET i == SelectInSeq(globs, LAMBDA p : p.owner # "")
           IN  i # 0 => globs[i].owner \in Owners
  <1> DEFINE I == {i \in 1..Len(globs) : globs[i].owner # ""}
  <1>1. SelectInSeq(globs, LAMBDA p : p.owner # "") = IF I # {} THEN Min(I) ELSE 0
    BY DEF SelectInSeq
  <1>2. \A i \in I : i \in Nat /\ globs[i] \in Pattern /\ globs[i].owner # ""
    <2>1. \A i \in 1..Len(globs) : i \in Nat /\ globs[i] \in Pattern
      OBVIOUS
    <2>2. \A i : i \in I => i \in 1..Len(globs) /\ globs[i].owner # ""
      BY Zenon
    <2> HIDE DEF I
    <2> QED
      BY <2>1, <2>2
  <1>3. \A i \in I : globs[i].owner \in Owners
    <2> HIDE DEF I
    <2> QED
      BY <1>2 DEF Pattern
  <1>4. I # {} => Min(I) \in I
    <2>1. I \in SUBSET Nat
      <3> HIDE DEF I
      <3> QED
        BY <1>2
    <2> HIDE DEF I
    <2> QED
      BY <2>1, LeastExists DEF Min
  <1> HIDE DEF I
  <1> QED
    BY <1>1, <1>3, <1>4

(* The owner that is enumerated is one the platform was asked about.           *)
LEMMA OwnerIsKnown ==
    ASSUME TypeOK
    PROVE  OwnerKind[discoveryOwner] \in {"org", "user", "none"}
  <1>1. \A s \in Specs : s.patterns \in Seq(Pattern)
    BY SpecsAssumption
  <1>2. discovery.patterns \in Seq(Pattern)
    BY <1>1 DEF TypeOK
  <1>3. discoveryOwner \in Owners
    BY <1>2, FirstGlob, PlatformAssumption DEF discoveryOwner
  <1> QED
    BY <1>3, PlatformAssumption

(* What a Run asks for is fixed.                                               *)
LEMMA AskedIsFixed ==
    ASSUME UNCHANGED runVars
    PROVE  /\ discoveryOwner' = discoveryOwner /\ Owned' = Owned
           /\ Wanted' = Wanted /\ Asked' = Asked
           /\ derefOrTrue(discovery.requireConfig)' = derefOrTrue(discovery.requireConfig)
  <1>1. client' = client /\ discovery' = discovery
    BY DEF runVars
  <1>2. discoveryOwner' = discoveryOwner
    BY <1>1 DEF discoveryOwner, SelectInSeq
  <1>3. Owned' = Owned
    BY <1>2 DEF Owned
  <1>4. \A r : matchesFilter(r)' <=> matchesFilter(r)
    BY <1>1 DEF matchesFilter, anyPatternMatches, derefOrTrue
  <1>5. \A r : Eligible(r)' <=> Eligible(r)
    BY <1>1, <1>2 DEF Eligible
  <1> QED
    BY <1>1, <1>2, <1>3, <1>4, <1>5 DEF Wanted, Asked

(* matchesFilter is the part of Eligible that needs no request: what it lets    *)
(* through is eligible once it has a config, or needs none.                     *)
LEMMA WantedAndAsked ==
    ASSUME TypeOK
    PROVE  /\ Asked \subseteq Wanted /\ Owned \subseteq Repos /\ Wanted \subseteq Owned
           /\ \A r \in Wanted : Attr[r].config # {} => r \in Asked
           /\ ~ derefOrTrue(discovery.requireConfig) => Wanted \subseteq Asked
           /\ derefOrTrue(discovery.requireConfig) => \A r \in Asked : Attr[r].config # {}
  <1>1. {discovery.skipForks, discovery.skipArchived, discovery.requireConfig} \subseteq Optional
    BY SpecsAssumption DEF TypeOK
  <1>2. \A r \in Repos : Attr[r].archived \in BOOLEAN /\ Attr[r].fork \in BOOLEAN
    BY PlatformAssumption DEF AttrType
  <1>3. \A r \in Repos : r \in Asked <=>
            r \in Wanted /\ (Attr[r].config = {} => discovery.requireConfig = "false")
    BY <1>2 DEF Asked, Wanted, Owned, Eligible, matchesFilter, anyPatternMatches, derefOrTrue
  <1>4. Asked \subseteq Repos /\ Wanted \subseteq Repos
    BY DEF Asked, Wanted, Owned
  <1> QED
    BY <1>3, <1>4 DEF Owned, Wanted, derefOrTrue

-----------------------------------------------------------------------------
(* Initial states, and the ends of an attempt.                                 *)

(* The five paths that HasRenovateConfig tries.                                 *)
LEMMA ConfigPathsAre ==
    /\ DOMAIN ConfigPaths = 1..5 /\ Len(ConfigPaths) = 5
    /\ \A x \in ToSet(ConfigPaths) : \E q \in 1..5 : ConfigPaths[q] = x
  <1> DEFINE c == ConfigPaths
  <1>1. DOMAIN c = 1..5 /\ Len(c) = 5
    BY DEF ConfigPaths
  <1> HIDE DEF c
  <1>2. \A x \in ToSet(c) : \E q \in 1..5 : c[q] = x
    BY <1>1 DEF ToSet
  <1> QED
    BY <1>1, <1>2 DEF c

(* A list without entries.                                                     *)
LEMMA EmptyList ==
    <<>> \in Seq(Repos) /\ ToSet(<<>>) = {} /\ IsInjective(<<>>) /\ Len(<<>>) = 0
  <1>1. DOMAIN <<>> = {} /\ <<>> \in Seq(Repos) /\ Len(<<>>) = 0
    OBVIOUS
  <1>2. \A f : DOMAIN f = {} => ToSet(f) = {} /\ IsInjective(f)
    BY DEF ToSet, IsInjective
  <1> QED
    BY <1>1, <1>2

(* Nothing has been asked yet.                                                 *)
LEMMA InitInv == Init => Inv
  <1> SUFFICES ASSUME Init PROVE Inv
    OBVIOUS
  <1>1. platform \in Seq(Repos) /\ IsInjective(platform) /\ ToSet(platform) \subseteq Repos
    BY PlatformAssumption, EntriesOf DEF Init
  <1>2. TypeOK
    <2>1. 1 \in DOMAIN ConfigPaths /\ 1 \in Nat \ {0} /\ 0 \in 0..MaxFaults /\ 0 \in 0..MaxChanges
      BY ConfigPathsAre, SizesAssumption
    <2> QED
      BY <1>1, <2>1, EmptyList DEF Init, TypeOK, Requests
  <1>3. GatheredIsAskedFor
    BY DEF Init, GatheredIsAskedFor
  <1>4. FailuresAreExplained
    BY DEF Init, FailuresAreExplained, FailsOnlyWhenHopeless
  <1>5. NothingIsMissed
    BY DEF Init, NothingIsMissed
  <1>6. NothingComesTwice
    BY EmptyList DEF Init, NothingComesTwice
  <1> QED
    BY <1>2, <1>3, <1>4, <1>5, <1>6 DEF Inv

(* While there are requests to make there is no result.                         *)
LEMMA WhileAsking ==
    ASSUME Inv, pc \in Requests
    PROVE  /\ outcome = "none" /\ found = <<>> /\ pc # "done"
  BY DEF Inv, TypeOK, GatheredIsAskedFor, Requests

(* A new attempt knows nothing of the one before.                               *)
LEMMA BeginKeepsInv ==
    ASSUME Inv, pc \in Requests, Begin, UNCHANGED <<platform, runVars, resultVars>>,
           faults' \in 0..MaxFaults, changes' = changes
    PROVE  Inv'
  <1>1. outcome = "none" /\ found = <<>>
    BY WhileAsking
  <1>2. /\ platform' = platform /\ client' = client /\ discovery' = discovery
        /\ outcome' = "none" /\ found' = <<>> /\ cause' = cause
        /\ pc' = "connect" /\ endpoint' = "none" /\ page' = 1 /\ all' = <<>> /\ path' = 1
        /\ out' = <<>> /\ start' = ToSet(platform) /\ known' = ToSet(platform) /\ shifts' = {}
    BY <1>1 DEF Begin, runVars, resultVars
  <1>3. TypeOK'
    <2>1. 1 \in DOMAIN ConfigPaths /\ 1 \in Nat \ {0}
      BY ConfigPathsAre
    <2>2. ToSet(platform) \subseteq Repos
      BY EntriesOf DEF Inv, TypeOK
    <2> QED
      BY <1>2, <2>1, <2>2, EmptyList DEF Inv, TypeOK, Requests
  <1>4. GatheredIsAskedFor'
    BY <1>2 DEF GatheredIsAskedFor
  <1>5. FailuresAreExplained'
    BY <1>2 DEF FailuresAreExplained, FailsOnlyWhenHopeless
  <1>6. NothingIsMissed'
    BY <1>2 DEF NothingIsMissed
  <1>7. NothingComesTwice'
    BY <1>2, EmptyList DEF NothingComesTwice
  <1> QED
    BY <1>3, <1>4, <1>5, <1>6, <1>7 DEF Inv

(* A Run that fails for a good reason.                                          *)
LEMMA FailKeepsInv ==
    ASSUME Inv, pc \in Requests, NEW answer \in Answers \cup {"notFound"}, Fail(answer),
           \/ answer \in {"unauthorized", "clientError"}
           \/ answer = "notFound" /\ OwnerKind[discoveryOwner] = "none"
           \/ answer = "network" /\ client # "forgejo"
           \/ pc = "connect",
           UNCHANGED <<platform, runVars, changes>>, faults' \in 0..MaxFaults
    PROVE  Inv'
  <1>1. found = <<>>
    BY WhileAsking
  <1>2. /\ platform' = platform /\ client' = client /\ discovery' = discovery
        /\ changes' = changes /\ endpoint' = endpoint /\ page' = page /\ all' = all /\ path' = path
        /\ out' = out /\ found' = <<>> /\ start' = start /\ known' = known /\ shifts' = shifts
        /\ outcome' = "failed" /\ pc' = "done" /\ cause' = [at |-> pc, answer |-> answer]
    BY <1>1 DEF Fail, runVars, historyVars
  <1>3. TypeOK'
    BY <1>2, EmptyList DEF Inv, TypeOK, Requests
  <1>4. GatheredIsAskedFor'
    BY <1>2 DEF GatheredIsAskedFor
  <1>5. FailuresAreExplained'
    <2>1. discoveryOwner' = discoveryOwner
      BY AskedIsFixed
    <2> QED
      BY <1>2, <2>1 DEF FailuresAreExplained, FailsOnlyWhenHopeless
  <1>6. NothingIsMissed'
    BY <1>2 DEF Inv, NothingIsMissed
  <1>7. NothingComesTwice'
    BY <1>2, EmptyList DEF NothingComesTwice
  <1> QED
    BY <1>3, <1>4, <1>5, <1>6, <1>7 DEF Inv

(* A failing request: what its error is taken for decides between the two.      *)
LEMMA ErrorKeepsInv ==
    ASSUME Inv, pc \in Requests, NEW answer \in Answers \cup {"notFound"}, handleDiscoverErr(answer),
           answer = "notFound" => OwnerKind[discoveryOwner] = "none",
           UNCHANGED <<platform, runVars, changes>>, faults' \in 0..MaxFaults
    PROVE  Inv'
  <1>1. CASE Begin /\ UNCHANGED resultVars
    BY <1>1, BeginKeepsInv
  <1>2. CASE classifyErr(answer) # "ErrTransient" /\ Fail(answer)
    <2>1. answer \notin {"rateLimited", "serverError"}
      BY <1>2 DEF classifyErr
    <2>2. answer = "network" => client # "forgejo"
      BY <1>2 DEF classifyErr
    <2> QED
      BY <1>2, <2>1, <2>2, FailKeepsInv DEF Answers
  <1> QED
    BY <1>1, <1>2 DEF handleDiscoverErr

-----------------------------------------------------------------------------
(* Listing.                                                                     *)

(* Lists without doubles and without common entries make one without doubles.   *)
LEMMA JoinedOnce ==
    ASSUME NEW s \in Seq(Repos), NEW t \in Seq(Repos), IsInjective(s), IsInjective(t),
           ToSet(s) \cap ToSet(t) = {}
    PROVE  IsInjective(s \o t)
  <1> DEFINE u == s \o t
  <1>1. /\ u \in Seq(Repos)
        /\ \A j \in 1..Len(s) : u[j] = s[j]
        /\ \A j \in 1..Len(t) : u[Len(s) + j] = t[j]
        /\ \A k \in 1..Len(u) : k \in 1..Len(s) \/ \E j \in 1..Len(t) : k = Len(s) + j
    BY JoinedEntries
  <1>2. /\ DOMAIN s = 1..Len(s) /\ DOMAIN t = 1..Len(t) /\ DOMAIN u = 1..Len(u)
    BY <1>1, EntriesOf
  <1> HIDE DEF u
  <1>3. \A i \in 1..Len(s), j \in 1..Len(t) : s[i] # t[j]
    BY <1>2 DEF ToSet
  <1> SUFFICES ASSUME NEW k \in 1..Len(u), NEW m \in 1..Len(u), u[k] = u[m]
               PROVE  k = m
    BY <1>2 DEF IsInjective, u
  <1>4. CASE k \in 1..Len(s) /\ m \in 1..Len(s)
    BY <1>1, <1>2, <1>4 DEF IsInjective
  <1>5. CASE k \in 1..Len(s) /\ m \notin 1..Len(s)
    <2>1. PICK j \in 1..Len(t) : m = Len(s) + j
      BY <1>1, <1>5
    <2> QED
      BY <1>1, <1>3, <1>5, <2>1
  <1>6. CASE k \notin 1..Len(s) /\ m \in 1..Len(s)
    <2>1. PICK j \in 1..Len(t) : k = Len(s) + j
      BY <1>1, <1>6
    <2> QED
      BY <1>1, <1>3, <1>6, <2>1
  <1>7. CASE k \notin 1..Len(s) /\ m \notin 1..Len(s)
    <2>1. PICK i \in 1..Len(t) : k = Len(s) + i
      BY <1>1, <1>7
    <2>2. PICK j \in 1..Len(t) : m = Len(s) + j
      BY <1>1, <1>7
    <2>3. t[i] = t[j]
      BY <1>1, <2>1, <2>2
    <2>4. i = j
      BY <1>2, <2>3 DEF IsInjective
    <2> QED
      BY <2>1, <2>2, <2>4
  <1> QED
    BY <1>4, <1>5, <1>6, <1>7

(* What the listing is, and what a page of it shows.                            *)
LEMMA PageShows ==
    ASSUME Inv
    PROVE  /\ Listing = ListingOf(platform, endpoint, Owned)
           /\ Listing \in Seq(Repos) /\ IsInjective(Listing) /\ DOMAIN Listing = 1..Len(Listing)
           /\ ToSet(Listing) \subseteq known /\ Len(Listing) \in Nat
           /\ Page \in Seq(Repos) /\ IsInjective(Page)
           /\ \A x : x \in ToSet(Page) <=>
                \E k \in 1..Len(Listing) : Shown < k /\ k <= Shown + Served /\ Listing[k] = x
           /\ ServerLimit >= PageSize /\ ~ MorePages => Len(Listing) <= Shown + Served
  <1>1. TypeOK /\ platform \in Seq(Repos) /\ IsInjective(platform) /\ ToSet(platform) \subseteq known
    BY DEF Inv, TypeOK
  <1>2. Owned \in SUBSET Repos
    BY DEF Owned
  <1>3. Listing = ListingOf(platform, endpoint, Owned)
    BY DEF Listing, ListingOf
  <1>4. Listing \in Seq(Repos) /\ IsInjective(Listing) /\ ToSet(Listing) \subseteq ToSet(platform)
    BY <1>1, <1>2, <1>3, ListingHasTheOwned
  <1>5. DOMAIN Listing = 1..Len(Listing) /\ Len(Listing) \in Nat
    BY <1>4, EntriesOf
  <1>6. /\ Served \in Nat \ {0} /\ Shown \in Nat /\ page * Served = Shown + Served
        /\ ServerLimit >= PageSize => Served = PageSize
    BY <1>1, PagesFollow
  <1>7. Page = SubSeq(Listing, Shown + 1, IF Shown + Served < Len(Listing) THEN Shown + Served
                                                                          ELSE Len(Listing))
    BY <1>6 DEF Page, Shown
  <1>8. /\ Page \in Seq(Repos) /\ IsInjective(Page)
        /\ \A x : x \in ToSet(Page) <=>
             \E k \in 1..Len(Listing) : Shown < k /\ k <= Shown + Served /\ Listing[k] = x
        /\ Len(Page) < Served => Len(Listing) < Shown + Served
    <2> DEFINE L == Listing
               low == Shown
               size == Served
               high == IF low + size < Len(L) THEN low + size ELSE Len(L)
               part == SubSeq(L, low + 1, high)
    <2>1. L \in Seq(Repos) /\ IsInjective(L) /\ low \in Nat /\ size \in Nat
      BY <1>4, <1>6
    <2> HIDE DEF L, low, size
    <2>2. /\ part \in Seq(Repos) /\ IsInjective(part)
          /\ \A x : x \in ToSet(part) <=>
               \E k \in 1..Len(L) : low < k /\ k <= low + size /\ L[k] = x
          /\ Len(part) < size => Len(L) < low + size
      BY <2>1, PageEntries
    <2>3. Page = part
      BY <1>7 DEF L, low, size
    <2> HIDE DEF part
    <2> QED
      BY <2>2, <2>3 DEF L, low, size
  <1>9. ASSUME ServerLimit >= PageSize, ~ MorePages
        PROVE  Len(Listing) <= Shown + Served
    <2>1. CASE client # "forgejo"
      <3>1. ~ (page * Served < Len(Listing))
        BY <1>9, <2>1 DEF MorePages
      <3> QED
        BY <1>5, <1>6, <3>1
    <2>2. CASE client = "forgejo"
      <3>1. ~ (Len(Page) >= PageSize) /\ PageSize = Served /\ Len(Page) \in Nat
        BY <1>6, <1>8, <1>9, <2>2 DEF MorePages
      <3>2. Len(Page) < Served
        BY <1>6, <3>1
      <3> QED
        BY <1>5, <1>6, <1>8, <3>2
    <2> QED
      BY <2>1, <2>2
  <1> QED
    BY <1>1, <1>3, <1>4, <1>5, <1>8, <1>9

(* What has been gathered with one more page.                                   *)
LEMMA PageIsGathered ==
    ASSUME Inv, pc = "list"
    PROVE  LET got == all \o Keep[Page][Owned]
           IN  /\ got \in Seq(Repos) /\ ToSet(got) \subseteq known \cap Owned
               /\ "added" \notin shifts =>
                    /\ IsInjective(got)
                    /\ \A k \in 1..Len(Listing) : Listing[k] \in ToSet(got) => k <= Shown + Served
               /\ "removed" \notin shifts /\ ServerLimit >= PageSize =>
                    /\ \A r \in start \cap Owned :
                        \/ r \in ToSet(got)
                        \/ \E k \in 1..Len(Listing) : k > Shown + Served /\ Listing[k] = r
                    /\ ~ MorePages => start \cap Owned \subseteq ToSet(got)
  <1> DEFINE kept == Keep[Page][Owned]
             got == all \o kept
             L == Listing
             n == Len(Listing)
             high == Shown + Served
  <1>1. /\ L \in Seq(Repos) /\ IsInjective(L) /\ DOMAIN L = 1..n /\ n \in Nat
        /\ ToSet(L) \subseteq known /\ Page \in Seq(Repos) /\ IsInjective(Page)
        /\ \A x : x \in ToSet(Page) <=> \E k \in 1..n : Shown < k /\ k <= high /\ L[k] = x
        /\ ServerLimit >= PageSize /\ ~ MorePages => n <= high
    BY PageShows
  <1>2. Shown \in Nat /\ high \in Nat /\ Shown <= high
    BY PagesFollow DEF Inv
  <1>3. /\ all \in Seq(Repos) /\ ToSet(all) \subseteq known \cap Owned
        /\ "added" \notin shifts => IsInjective(all) /\ \A k \in 1..n : L[k] \in ToSet(all) => k <= Shown
        /\ "removed" \notin shifts /\ ServerLimit >= PageSize => \A r \in start \cap Owned :
                r \in ToSet(all) \/ \E k \in 1..n : k > Shown /\ L[k] = r
    BY <1>1 DEF Inv, TypeOK, GatheredIsAskedFor, NothingIsMissed, NothingComesTwice
  <1>4. Owned \in SUBSET Repos
    BY DEF Owned
  <1>5. kept \in Seq(Repos) /\ ToSet(kept) = ToSet(Page) \cap Owned /\ IsInjective(kept)
    BY <1>1, <1>4, KeepIsSelection
  <1> HIDE DEF kept, L, n, high
  <1>6. got \in Seq(Repos) /\ ToSet(got) = ToSet(all) \cup (ToSet(Page) \cap Owned)
    BY <1>3, <1>5, JoinedEntries
  <1>7. ToSet(Page) \subseteq known
    <2>1. \A k \in 1..n : L[k] \in ToSet(L)
      BY <1>1 DEF ToSet
    <2> QED
      BY <1>1, <2>1
  <1>8. ASSUME "added" \notin shifts
        PROVE  /\ IsInjective(got)
               /\ \A k \in 1..n : L[k] \in ToSet(got) => k <= high
    <2>1. \A k, m \in 1..n : L[k] = L[m] => k = m
      BY <1>1 DEF IsInjective
    <2>2. ToSet(all) \cap ToSet(kept) = {}
      <3> SUFFICES ASSUME NEW x \in ToSet(all), x \in ToSet(Page)
                   PROVE  FALSE
        BY <1>5
      <3>1. PICK k \in 1..n : Shown < k /\ L[k] = x
        BY <1>1
      <3>2. k <= Shown
        BY <1>3, <1>8, <3>1
      <3> QED
        BY <1>1, <1>2, <3>1, <3>2
    <2>3. IsInjective(got)
      BY <1>3, <1>5, <1>8, <2>2, JoinedOnce
    <2>4. ASSUME NEW k \in 1..n, L[k] \in ToSet(got)
          PROVE  k <= high
      <3>1. CASE L[k] \in ToSet(all)
        <4>1. k <= Shown /\ k \in Int
          BY <1>1, <1>3, <1>8, <3>1
        <4> QED
          BY <1>2, <4>1
      <3>2. CASE L[k] \in ToSet(Page)
        <4>1. PICK m \in 1..n : m <= high /\ L[m] = L[k]
          BY <1>1, <3>2
        <4>2. m = k
          BY <2>1, <4>1
        <4> QED
          BY <4>1, <4>2
      <3> QED
        BY <1>6, <2>4, <3>1, <3>2
    <2> HIDE DEF got
    <2> QED
      BY <2>3, <2>4
  <1>9. ASSUME "removed" \notin shifts, ServerLimit >= PageSize, NEW r \in start \cap Owned,
               r \notin ToSet(got)
        PROVE  (\E k \in 1..n : k > high /\ L[k] = r) /\ MorePages
    <2>1. r \notin ToSet(all) /\ r \notin ToSet(Page)
      BY <1>6, <1>9
    <2>2. PICK k \in 1..n : k > Shown /\ L[k] = r
      BY <1>3, <1>9, <2>1
    <2>3. k \in Int /\ k <= n
      BY <1>1
    <2>4. ~ (k <= high)
      BY <1>1, <1>2, <2>1, <2>2, <2>3
    <2>5. k > high
      BY <1>2, <2>3, <2>4
    <2>6. MorePages
      BY <1>1, <1>2, <1>9, <2>3, <2>5
    <2> QED
      BY <2>2, <2>5, <2>6
  <1> HIDE DEF got
  <1> QED
    BY <1>3, <1>6, <1>7, <1>8, <1>9 DEF got, kept, L, n, high

(* A listing that is begun has everything still to come.                        *)
LEMMA ListFromKeepsInv ==
    ASSUME Inv, pc \in {"connect", "list"}, NEW e \in {"installation", "org", "user"}, ListFrom(e),
           e = "user" => OwnerKind[discoveryOwner] # "org",
           UNCHANGED <<platform, runVars, changes, faults>>
    PROVE  Inv'
  <1>1. outcome = "none" /\ found = <<>>
    BY WhileAsking DEF Requests
  <1>2. /\ platform' = platform /\ client' = client /\ discovery' = discovery
        /\ changes' = changes /\ faults' = faults
        /\ pc' = "list" /\ endpoint' = e /\ page' = 1 /\ all' = <<>>
        /\ path' = path /\ out' = out /\ outcome' = outcome /\ found' = found /\ cause' = cause
        /\ start' = start /\ known' = known /\ shifts' = shifts
    BY DEF ListFrom, runVars, resultVars, historyVars
  <1>3. discoveryOwner' = discoveryOwner /\ Owned' = Owned /\ Asked' = Asked
    BY AskedIsFixed
  <1>4. TypeOK'
    BY <1>1, <1>2, EmptyList DEF Inv, TypeOK, Requests
  <1>5. GatheredIsAskedFor'
    BY <1>1, <1>2, EmptyList DEF Inv, GatheredIsAskedFor
  <1>6. FailuresAreExplained'
    BY <1>1, <1>2, <1>3 DEF FailuresAreExplained, FailsOnlyWhenHopeless
  <1> DEFINE L == ListingOf(platform, e, Owned)
  <1>7. Listing' = L
    BY <1>2, <1>3 DEF Listing, ListingOf
  <1>8. Shown' = 0
    <2>1. Shown' = (1 - 1) * Served
      BY <1>2 DEF Shown, Served
    <2> QED
      BY <2>1, PagesFollow DEF Inv
  <1>9. L \in Seq(Repos) /\ ToSet(platform) \cap Owned \subseteq ToSet(L)
    <2>1. platform \in Seq(Repos) /\ IsInjective(platform) /\ Owned \in SUBSET Repos
      BY DEF Inv, TypeOK, Owned
    <2> QED
      BY <2>1, ListingHasTheOwned
  <1> HIDE DEF L
  <1>10. DOMAIN L = 1..Len(L) /\ \A x \in ToSet(L) : \E k \in 1..Len(L) : k > 0 /\ L[k] = x
    BY <1>9, EntriesOf
  <1>11. NothingIsMissed'
    <2>1. ASSUME "removed" \notin shifts
          PROVE  start \subseteq ToSet(platform)
      BY <2>1 DEF Inv, NothingIsMissed
    <2>2. ASSUME "removed" \notin shifts, NEW r \in start \cap Owned
          PROVE  \E k \in DOMAIN L : k > 0 /\ L[k] = r
      BY <1>9, <1>10, <2>1, <2>2
    <2> QED
      BY <1>1, <1>2, <1>3, <1>7, <1>8, <2>1, <2>2 DEF NothingIsMissed
  <1>12. NothingComesTwice'
    BY <1>1, <1>2, EmptyList DEF NothingComesTwice
  <1> QED
    BY <1>4, <1>5, <1>6, <1>11, <1>12 DEF Inv

(* On to the next page.                                                         *)
LEMMA NextPageKeepsInv ==
    ASSUME Inv, pc = "list", page' = page + 1, all' = all \o Keep[Page][Owned],
           UNCHANGED <<pc, endpoint, path, out, resultVars, historyVars>>,
           UNCHANGED <<platform, runVars, changes, faults>>
    PROVE  Inv'
  <1> DEFINE got == all \o Keep[Page][Owned]
             high == Shown + Served
             L == Listing
  <1>1. outcome = "none" /\ found = <<>>
    BY WhileAsking DEF Requests
  <1>2. /\ platform' = platform /\ client' = client /\ discovery' = discovery
        /\ changes' = changes /\ faults' = faults /\ pc' = "list" /\ endpoint' = endpoint
        /\ path' = path /\ out' = out /\ outcome' = outcome /\ found' = found /\ cause' = cause
        /\ start' = start /\ known' = known /\ shifts' = shifts /\ all' = got /\ page' = page + 1
    BY DEF runVars, resultVars, historyVars
  <1>3. discoveryOwner' = discoveryOwner /\ Owned' = Owned
    BY AskedIsFixed
  <1>4. /\ got \in Seq(Repos) /\ ToSet(got) \subseteq known \cap Owned
        /\ "added" \notin shifts =>
            IsInjective(got) /\ \A k \in 1..Len(L) : L[k] \in ToSet(got) => k <= high
        /\ "removed" \notin shifts /\ ServerLimit >= PageSize => \A r \in start \cap Owned :
            r \in ToSet(got) \/ \E k \in 1..Len(L) : k > high /\ L[k] = r
    BY PageIsGathered
  <1>5. Listing' = L /\ DOMAIN L = 1..Len(L)
    BY <1>2, <1>3, PageShows DEF Listing
  <1>6. Shown' = high
    <2>1. Shown' = (page' - 1) * Served
      BY Zenon DEF Shown, Served
    <2>2. page' - 1 = page
      BY <1>2 DEF Inv, TypeOK
    <2>3. Shown' = page * Served
      BY <2>1, <2>2
    <2> QED
      BY <2>3, PagesFollow DEF Inv
  <1> HIDE DEF got, high, L
  <1>7. TypeOK'
    <2>1. page + 1 \in Nat \ {0}
      BY DEF Inv, TypeOK
    <2> QED
      BY <1>1, <1>2, <1>4, <2>1 DEF Inv, TypeOK, Requests
  <1>8. GatheredIsAskedFor'
    BY <1>1, <1>2, <1>3, <1>4 DEF Inv, GatheredIsAskedFor
  <1>9. FailuresAreExplained'
    BY <1>1, <1>2, <1>3 DEF Inv, FailuresAreExplained, FailsOnlyWhenHopeless
  <1>10. NothingIsMissed'
    <2>1. "removed" \notin shifts => start \subseteq ToSet(platform)
      BY DEF Inv, NothingIsMissed
    <2> QED
      BY <1>1, <1>2, <1>3, <1>4, <1>5, <1>6, <2>1 DEF NothingIsMissed
  <1>11. NothingComesTwice'
    BY <1>1, <1>2, <1>4, <1>5, <1>6, EmptyList DEF NothingComesTwice
  <1> QED
    BY <1>7, <1>8, <1>9, <1>10, <1>11 DEF Inv

(* Discovery returns what it was asked for.                                     *)
LEMMA ConcludeKeepsInv ==
    ASSUME Inv, pc \in Requests, NEW repos \in Seq(Repos), Conclude(repos),
           ToSet(repos) \subseteq known \cap Asked,
           "removed" \notin shifts /\ ServerLimit >= PageSize => start \cap Asked \subseteq ToSet(repos),
           "added" \notin shifts => IsInjective(repos),
           UNCHANGED <<platform, runVars, faults, changes>>
    PROVE  Inv'
  <1>1. outcome = "none"
    BY WhileAsking
  <1>2. /\ platform' = platform /\ client' = client /\ discovery' = discovery
        /\ changes' = changes /\ faults' = faults /\ endpoint' = endpoint /\ page' = page
        /\ all' = all /\ path' = path /\ out' = out /\ cause' = cause
        /\ start' = start /\ known' = known /\ shifts' = shifts
        /\ pc' = "done" /\ found' = repos /\ outcome' \in {"found", "empty"}
    BY DEF Conclude, runVars, historyVars
  <1>3. discoveryOwner' = discoveryOwner /\ Asked' = Asked
    BY AskedIsFixed
  <1>4. TypeOK'
    BY <1>2 DEF Inv, TypeOK, Requests
  <1>5. GatheredIsAskedFor'
    BY <1>2, <1>3 DEF GatheredIsAskedFor
  <1>6. FailuresAreExplained'
    BY <1>2 DEF FailuresAreExplained, FailsOnlyWhenHopeless
  <1>7. NothingIsMissed'
    BY <1>2, <1>3 DEF Inv, NothingIsMissed
  <1>8. NothingComesTwice'
    BY <1>2 DEF NothingComesTwice
  <1> QED
    BY <1>4, <1>5, <1>6, <1>7, <1>8 DEF Inv

(* The listing is complete: its survivors are returned, or probed.              *)
LEMMA ListedKeepsInv ==
    ASSUME Inv, pc = "list", ~ MorePages, Listed(all \o Keep[Page][Owned]),
           UNCHANGED <<platform, runVars, changes, faults>>
    PROVE  Inv'
  <1> DEFINE got == all \o Keep[Page][Owned]
             matching == {r \in Repos : matchesFilter(r)}
             survivors == Keep[got][matching]
  <1>1. outcome = "none" /\ found = <<>>
    BY WhileAsking DEF Requests
  <1>2. /\ got \in Seq(Repos) /\ ToSet(got) \subseteq known \cap Owned
        /\ "added" \notin shifts => IsInjective(got)
        /\ "removed" \notin shifts /\ ServerLimit >= PageSize => start \cap Owned \subseteq ToSet(got)
    BY PageIsGathered
  <1>3. Listed(got)
    OBVIOUS
  <1>4. \/ ~ derefOrTrue(discovery.requireConfig) /\ Conclude(survivors)
        \/ /\ derefOrTrue(discovery.requireConfig)
           /\ pc' = "probe" /\ all' = survivors
           /\ UNCHANGED <<endpoint, page, path, out, resultVars, historyVars>>
    <2> HIDE DEF got
    <2> QED
      BY <1>3 DEF Listed
  <1> HIDE DEF got
  <1>5. /\ survivors \in Seq(Repos) /\ ToSet(survivors) = ToSet(got) \cap matching
        /\ "added" \notin shifts => IsInjective(survivors)
    <2>1. matching \in SUBSET Repos
      OBVIOUS
    <2> HIDE DEF matching
    <2> QED
      BY <1>2, <2>1, KeepIsSelection
  <1>6. Owned \cap matching = Wanted /\ TypeOK
    BY DEF Owned, Wanted, Inv
  <1> HIDE DEF matching, survivors
  <1>7. /\ ToSet(survivors) \subseteq known \cap Wanted
        /\ "removed" \notin shifts /\ ServerLimit >= PageSize =>
            start \cap Wanted \subseteq ToSet(survivors)
    BY <1>2, <1>5, <1>6
  <1>8. /\ Asked \subseteq Wanted
        /\ ~ derefOrTrue(discovery.requireConfig) => Wanted \subseteq Asked
    BY <1>6, WantedAndAsked
  <1>9. CASE ~ derefOrTrue(discovery.requireConfig) /\ Conclude(survivors)
    <2>1. /\ ToSet(survivors) \subseteq known \cap Asked
          /\ "removed" \notin shifts /\ ServerLimit >= PageSize =>
              start \cap Asked \subseteq ToSet(survivors)
      BY <1>7, <1>8, <1>9
    <2>2. pc \in Requests /\ UNCHANGED <<platform, runVars, faults, changes>>
      BY DEF Requests
    <2> QED
      BY <1>5, <1>9, <2>1, <2>2, ConcludeKeepsInv
  <1>10. CASE /\ derefOrTrue(discovery.requireConfig)
              /\ pc' = "probe" /\ all' = survivors
              /\ UNCHANGED <<endpoint, page, path, out, resultVars, historyVars>>
    <2>1. /\ platform' = platform /\ client' = client /\ discovery' = discovery
          /\ changes' = changes /\ faults' = faults /\ pc' = "probe" /\ endpoint' = endpoint
          /\ page' = page /\ all' = survivors /\ path' = path /\ out' = out /\ outcome' = outcome
          /\ found' = found /\ cause' = cause /\ start' = start /\ known' = known /\ shifts' = shifts
      BY <1>10 DEF runVars, resultVars, historyVars
    <2>2. /\ Asked' = Asked /\ Wanted' = Wanted
          /\ derefOrTrue(discovery.requireConfig)' = derefOrTrue(discovery.requireConfig)
      BY AskedIsFixed
    <2>3. out = <<>> /\ path = 1
      BY DEF Inv, GatheredIsAskedFor
    <2>4. TypeOK'
      BY <1>1, <1>5, <2>1 DEF Inv, TypeOK, Requests
    <2>5. GatheredIsAskedFor'
      BY <1>1, <1>7, <1>10, <2>1, <2>2, <2>3, EmptyList DEF GatheredIsAskedFor
    <2>6. FailuresAreExplained'
      BY <1>1, <2>1 DEF FailuresAreExplained, FailsOnlyWhenHopeless
    <2>7. NothingIsMissed'
      <3>1. "removed" \notin shifts => start \subseteq ToSet(platform)
        BY DEF Inv, NothingIsMissed
      <3>2. 1..(path' - 1) = {}
        BY <2>1, <2>3
      <3>3. "removed" \notin shifts /\ ServerLimit >= PageSize =>
                start \cap Asked \subseteq ToSet(survivors)
        BY <1>7, <1>8
      <3> QED
        BY <1>1, <2>1, <2>2, <3>1, <3>2, <3>3 DEF NothingIsMissed
    <2>8. NothingComesTwice'
      BY <1>1, <1>5, <2>1, <2>3, EmptyList DEF NothingComesTwice
    <2> QED
      BY <2>4, <2>5, <2>6, <2>7, <2>8 DEF Inv
  <1> QED
    BY <1>4, <1>9, <1>10

(* A failing request is counted.                                                *)
LEMMA FaultIsCounted ==
    ASSUME Inv, Fault
    PROVE  faults' \in 0..MaxFaults
  BY SizesAssumption DEF Inv, TypeOK, Fault

(* The client is made, or never.                                                *)
LEMMA ConnectKeepsInv ==
    ASSUME Inv, Connect
    PROVE  Inv'
  <1>1. pc = "connect" /\ pc \in Requests /\ UNCHANGED <<platform, runVars, changes>>
    BY DEF Connect, Requests
  <1>2. CASE ListFrom(IF client = "githubApp" THEN "installation" ELSE "org") /\ NoFault
    <2> DEFINE e == IF client = "githubApp" THEN "installation" ELSE "org"
    <2>1. e \in {"installation", "org", "user"} /\ e # "user" /\ pc \in {"connect", "list"}
      BY <1>1
    <2>2. ListFrom(e) /\ UNCHANGED <<platform, runVars, changes, faults>>
      BY <1>1, <1>2 DEF NoFault
    <2> HIDE DEF e
    <2> QED
      BY <2>1, <2>2, ListFromKeepsInv
  <1>3. CASE Fault /\ \E answer \in Answers : Fail(answer)
    <2>1. PICK answer \in Answers : Fail(answer)
      BY <1>3
    <2>2. faults' \in 0..MaxFaults
      BY <1>3, FaultIsCounted
    <2> QED
      BY <1>1, <2>1, <2>2, FailKeepsInv
  <1> QED
    BY <1>2, <1>3 DEF Connect

(* A page comes, or an error; the organisation's listing may give way to the     *)
(* user's.                                                                       *)
LEMMA ListPageKeepsInv ==
    ASSUME Inv, ListPage
    PROVE  Inv'
  <1>1. pc = "list" /\ pc \in Requests /\ UNCHANGED <<platform, runVars, changes>> /\ TypeOK
    BY DEF ListPage, Requests, Inv
  <1>2. CASE /\ NoFault /\ MorePages /\ page' = page + 1 /\ all' = all \o Keep[Page][Owned]
             /\ UNCHANGED <<pc, endpoint, path, out, resultVars, historyVars>>
    <2>1. UNCHANGED <<platform, runVars, changes, faults>>
      BY <1>1, <1>2 DEF NoFault
    <2> QED
      BY <1>1, <1>2, <2>1, NextPageKeepsInv
  <1>3. CASE NoFault /\ ~ MorePages /\ Listed(all \o Keep[Page][Owned])
    <2>1. UNCHANGED <<platform, runVars, changes, faults>>
      BY <1>1, <1>3 DEF NoFault
    <2> QED
      BY <1>1, <1>3, <2>1, ListedKeepsInv
  <1>4. CASE AccountMissing /\ endpoint = "org" /\ ListFrom("user") /\ NoFault
    <2>1. UNCHANGED <<platform, runVars, changes, faults>>
      BY <1>1, <1>4 DEF NoFault
    <2>2. OwnerKind[discoveryOwner] # "org"
      BY <1>4 DEF AccountMissing
    <2> QED
      BY <1>1, <1>4, <2>1, <2>2, ListFromKeepsInv
  <1>5. CASE AccountMissing /\ endpoint = "user" /\ handleDiscoverErr("notFound") /\ NoFault
    <2>1. faults' \in 0..MaxFaults
      BY <1>5 DEF NoFault, Inv, TypeOK
    <2>2. OwnerKind[discoveryOwner] # "user"
      BY <1>5 DEF AccountMissing
    <2>3. OwnerKind[discoveryOwner] # "org"
      BY <1>1, <1>5 DEF Inv, FailuresAreExplained
    <2>4. OwnerKind[discoveryOwner] = "none"
      BY <1>1, <2>2, <2>3, OwnerIsKnown
    <2> QED
      BY <1>1, <1>5, <2>1, <2>4, ErrorKeepsInv
  <1>6. CASE \E answer \in Answers : handleDiscoverErr(answer) /\ Fault
    <2>1. PICK answer \in Answers : handleDiscoverErr(answer) /\ Fault
      BY <1>6
    <2>2. faults' \in 0..MaxFaults
      BY <2>1, FaultIsCounted
    <2>3. answer # "notFound"
      BY DEF Answers
    <2> QED
      BY <1>1, <2>1, <2>2, <2>3, ErrorKeepsInv
  <1> QED
    BY <1>2, <1>3, <1>4, <1>5, <1>6 DEF ListPage

-----------------------------------------------------------------------------
(* Probing.                                                                     *)

(* A list, its first entry and the others.                                      *)
LEMMA FirstAndOthers ==
    ASSUME NEW s \in Seq(Repos), s # <<>>
    PROVE  /\ Head(s) \in Repos /\ Tail(s) \in Seq(Repos)
           /\ ToSet(s) = ToSet(Tail(s)) \cup {Head(s)}
           /\ IsInjective(s) => IsInjective(Tail(s)) /\ Head(s) \notin ToSet(Tail(s))
  <1> DEFINE t == Tail(s)
             n == Len(s)
  <1>1. /\ n \in Nat /\ n >= 1 /\ Head(s) = s[1] /\ t \in Seq(Repos) /\ Len(t) = n - 1
        /\ \A j \in 1..(n - 1) : t[j] = s[j + 1]
        /\ Head(s) \in Repos
    OBVIOUS
  <1> HIDE DEF t
  <1>2. DOMAIN s = 1..n /\ DOMAIN t = 1..(n - 1)
    BY <1>1
  <1> HIDE DEF n
  <1>3. /\ \A j \in 1..(n - 1) : j + 1 \in 1..n
        /\ \A k \in 1..n : k = 1 \/ (k - 1 \in 1..(n - 1) /\ k - 1 + 1 = k)
        /\ 1 \in 1..n
    BY <1>1
  <1>4. \A k \in 1..n : k = 1 \/ t[k - 1] = s[k]
    BY <1>1, <1>3
  <1>5. ToSet(s) = ToSet(t) \cup {Head(s)}
    <2>1. ASSUME NEW x \in ToSet(s)
          PROVE  x \in ToSet(t) \cup {Head(s)}
      <3>1. PICK k \in 1..n : s[k] = x
        BY <1>2 DEF ToSet
      <3>2. k = 1 \/ (k - 1 \in DOMAIN t /\ t[k - 1] = x)
        BY <1>2, <1>3, <1>4, <3>1
      <3> QED
        BY <1>1, <3>1, <3>2 DEF ToSet
    <2>2. ASSUME NEW x \in ToSet(t)
          PROVE  x \in ToSet(s)
      <3>1. PICK j \in 1..(n - 1) : t[j] = x
        BY <1>2 DEF ToSet
      <3>2. j + 1 \in DOMAIN s /\ s[j + 1] = x
        BY <1>1, <1>2, <1>3, <3>1
      <3> QED
        BY <3>2 DEF ToSet
    <2>3. Head(s) \in ToSet(s)
      BY <1>1, <1>2, <1>3 DEF ToSet
    <2> QED
      BY <2>1, <2>2, <2>3
  <1>6. ASSUME IsInjective(s)
        PROVE  IsInjective(t) /\ Head(s) \notin ToSet(t)
    <2>1. \A i, j \in 1..n : s[i] = s[j] => i = j
      BY <1>2, <1>6 DEF IsInjective
    <2>2. ASSUME NEW i \in 1..(n - 1), NEW j \in 1..(n - 1), t[i] = t[j]
          PROVE  i = j
      <3>1. i + 1 = j + 1
        BY <1>1, <1>3, <2>1, <2>2
      <3> QED
        BY <3>1
    <2>3. \A i \in 1..(n - 1) : t[i] # Head(s)
      <3> SUFFICES ASSUME NEW i \in 1..(n - 1), t[i] = Head(s)
                   PROVE  FALSE
        OBVIOUS
      <3>1. i + 1 = 1
        BY <1>1, <1>3, <2>1
      <3> QED
        BY <3>1
    <2> QED
      BY <1>2, <2>2, <2>3 DEF IsInjective, ToSet
  <1> QED
    BY <1>1, <1>5, <1>6 DEF t

(* A list with one more entry at its end.                                       *)
LEMMA AppendedOnce ==
    ASSUME NEW s \in Seq(Repos), NEW r \in Repos
    PROVE  /\ Append(s, r) \in Seq(Repos) /\ ToSet(Append(s, r)) = ToSet(s) \cup {r}
           /\ IsInjective(s) /\ r \notin ToSet(s) => IsInjective(Append(s, r))
  <1> DEFINE t == Append(s, r)
             n == Len(s)
  <1>1. /\ n \in Nat /\ t \in Seq(Repos) /\ Len(t) = n + 1 /\ t[n + 1] = r
        /\ \A j \in 1..n : t[j] = s[j]
    OBVIOUS
  <1> HIDE DEF t
  <1>2. DOMAIN s = 1..n /\ DOMAIN t = 1..(n + 1)
    BY <1>1
  <1> HIDE DEF n
  <1>3. /\ \A j \in 1..n : j \in 1..(n + 1) /\ j # n + 1
        /\ \A k \in 1..(n + 1) : k \in 1..n \/ k = n + 1
        /\ n + 1 \in 1..(n + 1)
    BY <1>1
  <1>4. ToSet(t) = ToSet(s) \cup {r}
    <2>1. ASSUME NEW x \in ToSet(t)
          PROVE  x \in ToSet(s) \cup {r}
      BY <1>1, <1>2, <1>3 DEF ToSet
    <2>2. ASSUME NEW x \in ToSet(s)
          PROVE  x \in ToSet(t)
      BY <1>1, <1>2, <1>3 DEF ToSet
    <2>3. r \in ToSet(t)
      BY <1>1, <1>2, <1>3 DEF ToSet
    <2> QED
      BY <2>1, <2>2, <2>3
  <1>5. ASSUME IsInjective(s), r \notin ToSet(s)
        PROVE  IsInjective(t)
    <2>1. \A i \in 1..n : t[i] # r
      BY <1>1, <1>2, <1>5 DEF ToSet
    <2>2. ASSUME NEW i \in 1..(n + 1), NEW j \in 1..(n + 1), t[i] = t[j]
          PROVE  i = j
      BY <1>1, <1>2, <1>3, <1>5, <2>1, <2>2 DEF IsInjective
    <2> QED
      BY <1>2, <2>2 DEF IsInjective
  <1> QED
    BY <1>1, <1>4, <1>5 DEF t

(* What is known while repositories are probed.                                 *)
LEMMA WhileProbing ==
    ASSUME Inv, pc = "probe"
    PROVE  /\ all \in Seq(Repos) /\ out \in Seq(Repos) /\ outcome = "none" /\ found = <<>>
           /\ path \in 1..5 /\ derefOrTrue(discovery.requireConfig)
           /\ ToSet(all) \subseteq known \cap Wanted /\ ToSet(out) \subseteq known \cap Asked
           /\ "removed" \notin shifts =>
                /\ start \subseteq ToSet(platform)
                /\ ServerLimit >= PageSize => start \cap Asked \subseteq ToSet(all) \cup ToSet(out)
           /\ "added" \notin shifts =>
                IsInjective(all) /\ IsInjective(out) /\ ToSet(all) \cap ToSet(out) = {}
  <1>1. outcome = "none" /\ found = <<>>
    BY WhileAsking DEF Requests
  <1>2. path \in 1..5
    BY ConfigPathsAre DEF Inv, TypeOK
  <1> QED
    BY <1>1, <1>2 DEF Inv, TypeOK, GatheredIsAskedFor, NothingIsMissed, NothingComesTwice

(* A repository is done with: it has a config, or it is not asked for.          *)
LEMMA ProbedKeepsInv ==
    ASSUME Inv, pc = "probe", all # <<>>, path' = 1, all' = Tail(all),
           \/ out' = out /\ ("removed" \notin shifts /\ Head(all) \in start => Head(all) \notin Asked)
           \/ out' = Append(out, Head(all)) /\ Head(all) \in Asked,
           UNCHANGED <<pc, endpoint, page, resultVars, historyVars>>,
           UNCHANGED <<platform, runVars, changes, faults>>
    PROVE  Inv'
  <1> DEFINE r == Head(all)
             rest == Tail(all)
  <1>1. /\ all \in Seq(Repos) /\ out \in Seq(Repos) /\ outcome = "none" /\ found = <<>>
        /\ path \in 1..5 /\ derefOrTrue(discovery.requireConfig)
        /\ ToSet(all) \subseteq known \cap Wanted /\ ToSet(out) \subseteq known \cap Asked
        /\ "removed" \notin shifts =>
             /\ start \subseteq ToSet(platform)
             /\ ServerLimit >= PageSize => start \cap Asked \subseteq ToSet(all) \cup ToSet(out)
        /\ "added" \notin shifts =>
             IsInjective(all) /\ IsInjective(out) /\ ToSet(all) \cap ToSet(out) = {}
    BY WhileProbing
  <1>2. /\ r \in Repos /\ rest \in Seq(Repos) /\ ToSet(all) = ToSet(rest) \cup {r}
        /\ IsInjective(all) => IsInjective(rest) /\ r \notin ToSet(rest)
    BY <1>1, FirstAndOthers
  <1>3. /\ platform' = platform /\ client' = client /\ discovery' = discovery
        /\ changes' = changes /\ faults' = faults /\ pc' = "probe" /\ endpoint' = endpoint
        /\ page' = page /\ outcome' = outcome /\ found' = found /\ cause' = cause
        /\ start' = start /\ known' = known /\ shifts' = shifts /\ all' = rest /\ path' = 1
    BY DEF runVars, resultVars, historyVars
  <1>4. /\ Asked' = Asked /\ Wanted' = Wanted
        /\ derefOrTrue(discovery.requireConfig)' = derefOrTrue(discovery.requireConfig)
    BY AskedIsFixed
  <1>5. \/ out' = out /\ ("removed" \notin shifts /\ r \in start => r \notin Asked)
        \/ out' = Append(out, r) /\ r \in Asked
    OBVIOUS
  <1> HIDE DEF r, rest
  <1>6. /\ out' \in Seq(Repos) /\ ToSet(out') \subseteq known \cap Asked
        /\ "removed" \notin shifts /\ ServerLimit >= PageSize =>
             start \cap Asked \subseteq ToSet(rest) \cup ToSet(out')
        /\ "added" \notin shifts => IsInjective(out') /\ ToSet(rest) \cap ToSet(out') = {}
    <2>1. CASE out' = out /\ ("removed" \notin shifts /\ r \in start => r \notin Asked)
      BY <1>1, <1>2, <2>1
    <2>2. CASE out' = Append(out, r) /\ r \in Asked
      <3>1. /\ out' \in Seq(Repos) /\ ToSet(out') = ToSet(out) \cup {r}
            /\ IsInjective(out) /\ r \notin ToSet(out) => IsInjective(out')
        BY <1>1, <1>2, <2>2, AppendedOnce
      <3> QED
        BY <1>1, <1>2, <2>2, <3>1
    <2> QED
      BY <1>5, <2>1, <2>2
  <1>7. TypeOK'
    <2>1. 1 \in DOMAIN ConfigPaths
      BY ConfigPathsAre
    <2> QED
      BY <1>1, <1>2, <1>3, <1>6, <2>1 DEF Inv, TypeOK, Requests
  <1>8. GatheredIsAskedFor'
    BY <1>1, <1>2, <1>3, <1>4, <1>6 DEF GatheredIsAskedFor
  <1>9. FailuresAreExplained'
    BY <1>1, <1>3 DEF FailuresAreExplained, FailsOnlyWhenHopeless
  <1>10. NothingIsMissed'
    <2>1. 1..(path' - 1) = {}
      BY <1>3
    <2> QED
      BY <1>1, <1>3, <1>4, <1>6, <2>1 DEF NothingIsMissed
  <1>11. NothingComesTwice'
    BY <1>1, <1>2, <1>3, <1>6, EmptyList DEF NothingComesTwice
  <1> QED
    BY <1>7, <1>8, <1>9, <1>10, <1>11 DEF Inv

(* A path that is missing, and not the last: on to the next.                    *)
LEMMA NextPathKeepsInv ==
    ASSUME Inv, pc = "probe", all # <<>>, path < Len(ConfigPaths), path' = path + 1, all' = all,
           Head(all) \in ToSet(platform) => ConfigPaths[path] \notin Attr[Head(all)].config,
           UNCHANGED <<pc, endpoint, page, out, resultVars, historyVars>>,
           UNCHANGED <<platform, runVars, changes, faults>>
    PROVE  Inv'
  <1>1. /\ platform' = platform /\ client' = client /\ discovery' = discovery
        /\ changes' = changes /\ faults' = faults /\ pc' = "probe" /\ endpoint' = endpoint
        /\ page' = page /\ all' = all /\ path' = path + 1 /\ out' = out /\ outcome' = outcome
        /\ found' = found /\ cause' = cause /\ start' = start /\ known' = known /\ shifts' = shifts
    BY DEF runVars, resultVars, historyVars
  <1>2. outcome = "none" /\ path \in 1..5 /\ ("removed" \notin shifts => start \subseteq ToSet(platform))
    BY WhileProbing
  <1>3. /\ Asked' = Asked /\ Wanted' = Wanted
        /\ derefOrTrue(discovery.requireConfig)' = derefOrTrue(discovery.requireConfig)
    BY AskedIsFixed
  <1>4. TypeOK'
    <2>1. path + 1 \in DOMAIN ConfigPaths
      BY <1>2, ConfigPathsAre
    <2> QED
      BY <1>1, <2>1 DEF Inv, TypeOK
  <1>5. GatheredIsAskedFor'
    BY <1>1, <1>3 DEF Inv, GatheredIsAskedFor
  <1>6. FailuresAreExplained'
    BY <1>1, <1>2 DEF FailuresAreExplained, FailsOnlyWhenHopeless
  <1>7. NothingIsMissed'
    <2>1. ASSUME "removed" \notin shifts, Head(all) \in start, NEW q \in 1..(path + 1 - 1)
          PROVE  ConfigPaths[q] \notin Attr[Head(all)].config
      <3>1. \A p \in 1..(path - 1) : ConfigPaths[p] \notin Attr[Head(all)].config
        BY <2>1 DEF Inv, NothingIsMissed
      <3>2. ConfigPaths[path] \notin Attr[Head(all)].config
        BY <1>2, <2>1
      <3>3. q = path \/ q \in 1..(path - 1)
        BY <1>2
      <3> QED
        BY <3>1, <3>2, <3>3
    <2>2. "removed" \notin shifts =>
            /\ start \subseteq ToSet(platform)
            /\ ServerLimit >= PageSize => start \cap Asked \subseteq ToSet(all) \cup ToSet(out)
      BY WhileProbing
    <2> QED
      BY <1>1, <1>2, <1>3, <2>1, <2>2 DEF NothingIsMissed
  <1>8. NothingComesTwice'
    BY <1>1 DEF Inv, NothingComesTwice
  <1> QED
    BY <1>4, <1>5, <1>6, <1>7, <1>8 DEF Inv

(* One request for a config.                                                    *)
LEMMA HasRenovateConfigKeepsInv ==
    ASSUME Inv, HasRenovateConfig
    PROVE  Inv'
  <1> DEFINE r == Head(all)
             there == r \in ToSet(platform) /\ ConfigPaths[path] \in Attr[r].config
  <1>1. /\ pc = "probe" /\ pc \in Requests /\ all # <<>> /\ TypeOK
        /\ UNCHANGED <<platform, runVars, changes>>
    BY DEF HasRenovateConfig, Requests, Inv
  <1>2. /\ all \in Seq(Repos) /\ path \in 1..5 /\ derefOrTrue(discovery.requireConfig)
        /\ ToSet(all) \subseteq known \cap Wanted
        /\ "removed" \notin shifts => start \subseteq ToSet(platform)
    BY <1>1, WhileProbing
  <1>3. r \in ToSet(all) /\ r \in Repos /\ r \in Wanted
    BY <1>1, <1>2, FirstAndOthers
  <1>4. CASE /\ there /\ NoFault
             /\ out' = Append(out, r) /\ all' = Tail(all) /\ path' = 1
             /\ UNCHANGED <<pc, endpoint, page, resultVars, historyVars>>
    <2>1. r \in Asked
      BY <1>1, <1>3, <1>4, WantedAndAsked
    <2>2. UNCHANGED <<platform, runVars, changes, faults>>
      BY <1>1, <1>4 DEF NoFault
    <2> QED
      BY <1>1, <1>4, <2>1, <2>2, ProbedKeepsInv
  <1>5. CASE ~ there /\ PathMissing /\ NoFault
    <2>1. UNCHANGED <<platform, runVars, changes, faults>>
      BY <1>1, <1>5 DEF NoFault
    <2>2. CASE path < Len(ConfigPaths)
      <3>1. /\ path' = path + 1 /\ all' = all
            /\ UNCHANGED <<pc, endpoint, page, out, resultVars, historyVars>>
        BY <1>5, <2>2 DEF PathMissing
      <3> QED
        BY <1>1, <1>5, <2>1, <2>2, <3>1, NextPathKeepsInv
    <2>3. CASE ~ (path < Len(ConfigPaths))
      <3>1. path' = 1 /\ all' = Tail(all)
        BY <1>5, <2>3 DEF PathMissing
      <3>2. UNCHANGED <<pc, endpoint, page, out, resultVars, historyVars>>
        BY <1>5 DEF PathMissing
      <3>3. path = 5
        BY <1>2, <2>3, ConfigPathsAre
      <3>4. ASSUME "removed" \notin shifts, r \in start
            PROVE  r \notin Asked
        <4>1. \A q \in 1..(path - 1) : ConfigPaths[q] \notin Attr[r].config
          BY <1>1, <3>4 DEF Inv, NothingIsMissed
        <4>2. ConfigPaths[path] \notin Attr[r].config
          BY <1>2, <1>5, <3>4
        <4>3. \A q \in 1..5 : q = path \/ q \in 1..(path - 1)
          BY <3>3
        <4>4. \A q \in 1..5 : ConfigPaths[q] \notin Attr[r].config
          BY <4>1, <4>2, <4>3
        <4>5. Attr[r].config \subseteq ToSet(ConfigPaths)
          BY <1>3, PlatformAssumption DEF AttrType
        <4>6. Attr[r].config = {}
          BY <4>4, <4>5, ConfigPathsAre
        <4> QED
          BY <1>1, <1>2, <4>6, WantedAndAsked
      <3> QED
        BY <1>1, <2>1, <3>1, <3>2, <3>4, ProbedKeepsInv
    <2> QED
      BY <2>2, <2>3
  <1>6. CASE \E answer \in Answers : handleDiscoverErr(answer) /\ Fault
    <2>1. PICK answer \in Answers : handleDiscoverErr(answer) /\ Fault
      BY <1>6
    <2>2. faults' \in 0..MaxFaults
      BY <2>1, FaultIsCounted
    <2>3. answer # "notFound"
      BY DEF Answers
    <2> QED
      BY <1>1, <2>1, <2>2, <2>3, ErrorKeepsInv
  <1> QED
    BY <1>4, <1>5, <1>6 DEF HasRenovateConfig

(* Every survivor has been probed.                                              *)
LEMMA AllProbedKeepsInv ==
    ASSUME Inv, AllProbed
    PROVE  Inv'
  <1>1. /\ pc = "probe" /\ pc \in Requests /\ all = <<>> /\ Conclude(out)
        /\ UNCHANGED <<platform, runVars, faults, changes>>
    BY DEF AllProbed, Requests
  <1>2. /\ out \in Seq(Repos) /\ ToSet(out) \subseteq known \cap Asked
        /\ "removed" \notin shifts /\ ServerLimit >= PageSize =>
              start \cap Asked \subseteq ToSet(all) \cup ToSet(out)
        /\ "added" \notin shifts => IsInjective(out)
    BY <1>1, WhileProbing
  <1>3. ToSet(all) = {}
    BY <1>1, EmptyList
  <1>4. "removed" \notin shifts /\ ServerLimit >= PageSize => start \cap Asked \subseteq ToSet(out)
    BY <1>2, <1>3
  <1> QED
    BY <1>1, <1>2, <1>4, ConcludeKeepsInv

-----------------------------------------------------------------------------
(* Meanwhile, on the platform.                                                  *)

(* A change leaves the attempt alone.                                           *)
LEMMA ChangeLeaves ==
    ASSUME Inv, Change, UNCHANGED <<runVars, attemptVars, resultVars, faults, start>>
    PROVE  /\ client' = client /\ discovery' = discovery /\ pc' = pc /\ endpoint' = endpoint
           /\ page' = page /\ all' = all /\ path' = path /\ out' = out /\ outcome' = outcome
           /\ found' = found /\ cause' = cause /\ faults' = faults /\ start' = start
           /\ changes' \in 0..MaxChanges /\ outcome = "none" /\ found = <<>>
           /\ discoveryOwner' = discoveryOwner /\ Owned' = Owned
           /\ Wanted' = Wanted /\ Asked' = Asked
           /\ derefOrTrue(discovery.requireConfig)' = derefOrTrue(discovery.requireConfig)
           /\ Shown' = Shown /\ Shown \in Nat
  <1>1. /\ client' = client /\ discovery' = discovery /\ pc' = pc /\ endpoint' = endpoint
        /\ page' = page /\ all' = all /\ path' = path /\ out' = out /\ outcome' = outcome
        /\ found' = found /\ cause' = cause /\ faults' = faults /\ start' = start
    BY DEF runVars, attemptVars, resultVars
  <1>2. changes' \in 0..MaxChanges
    BY SizesAssumption DEF Change, Inv, TypeOK
  <1>3. outcome = "none" /\ found = <<>>
    BY WhileAsking DEF Change, Inv, TypeOK
  <1>4. /\ discoveryOwner' = discoveryOwner /\ Owned' = Owned
        /\ Wanted' = Wanted /\ Asked' = Asked
        /\ derefOrTrue(discovery.requireConfig)' = derefOrTrue(discovery.requireConfig)
    BY AskedIsFixed
  <1>5. Shown' = Shown
    BY <1>1 DEF Shown, Served
  <1>6. Shown \in Nat
    BY PagesFollow DEF Inv
  <1> QED
    BY <1>1, <1>2, <1>3, <1>4, <1>5, <1>6

(* A repository that comes moves those still to be listed on, out of no page.   *)
LEMMA AddRepoKeepsInv ==
    ASSUME Inv, NEW r \in Repos, NEW i \in 1..(Len(platform) + 1), AddRepo(r, i)
    PROVE  Inv'
  <1>1. /\ client' = client /\ discovery' = discovery /\ pc' = pc /\ endpoint' = endpoint
        /\ page' = page /\ all' = all /\ path' = path /\ out' = out /\ outcome' = outcome
        /\ found' = found /\ cause' = cause /\ faults' = faults /\ start' = start
        /\ changes' \in 0..MaxChanges /\ outcome = "none" /\ found = <<>>
        /\ discoveryOwner' = discoveryOwner /\ Owned' = Owned
        /\ Wanted' = Wanted /\ Asked' = Asked
        /\ derefOrTrue(discovery.requireConfig)' = derefOrTrue(discovery.requireConfig)
        /\ Shown' = Shown /\ Shown \in Nat
    BY ChangeLeaves DEF AddRepo
  <1>2. /\ known' = known \cup {r} /\ shifts' = shifts \cup {"added"}
        /\ platform' = InsertAt(platform, i, r) /\ r \notin ToSet(platform)
    BY DEF AddRepo
  <1>3. platform \in Seq(Repos) /\ IsInjective(platform)
    BY DEF Inv, TypeOK
  <1>4. /\ platform' \in Seq(Repos) /\ IsInjective(platform')
        /\ ToSet(platform') = ToSet(platform) \cup {r} /\ Embeds(platform, platform')
    BY <1>2, <1>3, InsertPutsIn
  <1>5. TypeOK'
    BY <1>1, <1>2, <1>4 DEF Inv, TypeOK
  <1>6. GatheredIsAskedFor'
    BY <1>1, <1>2 DEF Inv, GatheredIsAskedFor
  <1>7. FailuresAreExplained'
    BY <1>1 DEF Inv, FailuresAreExplained, FailsOnlyWhenHopeless
  <1> DEFINE L == ListingOf(platform, endpoint, Owned)
             M == ListingOf(platform', endpoint, Owned)
  <1>8. Listing = L /\ Listing' = M
    BY <1>1 DEF Listing, ListingOf
  <1>9. /\ DOMAIN L = 1..Len(L) /\ DOMAIN M = 1..Len(M)
        /\ \A k \in 1..Len(L) : \E m \in 1..Len(M) : m >= k /\ M[m] = L[k]
    <2>1. Owned \in SUBSET Repos
      BY DEF Owned
    <2>2. L \in Seq(Repos) /\ M \in Seq(Repos)
      BY <1>3, <1>4, <2>1, ListingHasTheOwned
    <2>3. \A k \in 1..Len(L) : \E m \in 1..Len(M) : m >= k /\ M[m] = L[k]
      BY <1>3, <1>4, <2>1, ListingMovesOn
    <2> HIDE DEF L, M
    <2> QED
      BY <2>2, <2>3, EntriesOf
  <1> HIDE DEF L, M
  <1>10. NothingIsMissed'
    <2> SUFFICES ASSUME "removed" \notin shifts'
                 PROVE  NothingIsMissed'
      BY DEF NothingIsMissed
    <2>1. "removed" \notin shifts
      BY <1>2
    <2>2. start \subseteq ToSet(platform)
      BY <2>1 DEF Inv, NothingIsMissed
    <2>3. pc = "probe" /\ all # <<>> /\ Head(all) \in start =>
            \A q \in 1..(path - 1) : ConfigPaths[q] \notin Attr[Head(all)].config
      BY <2>1 DEF Inv, NothingIsMissed
    <2>4. ServerLimit >= PageSize /\ pc = "probe" => start \cap Asked \subseteq ToSet(all) \cup ToSet(out)
      BY <2>1 DEF Inv, NothingIsMissed
    <2>5. ASSUME ServerLimit >= PageSize, pc = "list", NEW x \in start \cap Owned, x \notin ToSet(all)
          PROVE  \E m \in DOMAIN M : m > Shown /\ M[m] = x
      <3>1. PICK k \in DOMAIN L : k > Shown /\ L[k] = x
        BY <1>8, <2>1, <2>5 DEF Inv, NothingIsMissed
      <3>2. PICK m \in 1..Len(M) : m >= k /\ M[m] = L[k]
        BY <1>9, <3>1
      <3>3. m > Shown
        BY <1>1, <1>9, <3>1, <3>2
      <3> QED
        BY <1>9, <3>1, <3>2, <3>3
    <2> QED
      BY <1>1, <1>4, <1>8, <2>2, <2>3, <2>4, <2>5 DEF NothingIsMissed
  <1>11. NothingComesTwice'
    BY <1>2 DEF NothingComesTwice
  <1> QED
    BY <1>5, <1>6, <1>7, <1>10, <1>11 DEF Inv

(* A repository that goes moves others to earlier pages, never to later ones.   *)
LEMMA RemoveRepoKeepsInv ==
    ASSUME Inv, NEW i \in 1..Len(platform), RemoveRepo(i)
    PROVE  Inv'
  <1>1. /\ client' = client /\ discovery' = discovery /\ pc' = pc /\ endpoint' = endpoint
        /\ page' = page /\ all' = all /\ path' = path /\ out' = out /\ outcome' = outcome
        /\ found' = found /\ cause' = cause /\ faults' = faults /\ start' = start
        /\ changes' \in 0..MaxChanges /\ outcome = "none" /\ found = <<>>
        /\ discoveryOwner' = discoveryOwner /\ Owned' = Owned
        /\ Wanted' = Wanted /\ Asked' = Asked
        /\ derefOrTrue(discovery.requireConfig)' = derefOrTrue(discovery.requireConfig)
        /\ Shown' = Shown /\ Shown \in Nat
    BY ChangeLeaves DEF RemoveRepo
  <1>2. /\ known' = known /\ shifts' = shifts \cup {"removed"}
        /\ platform' = RemoveAt(platform, i)
    BY DEF RemoveRepo
  <1>3. platform \in Seq(Repos) /\ IsInjective(platform)
    BY DEF Inv, TypeOK
  <1>4. /\ platform' \in Seq(Repos) /\ IsInjective(platform')
        /\ ToSet(platform') \subseteq ToSet(platform) /\ Embeds(platform', platform)
    BY <1>2, <1>3, RemoveTakesOut
  <1>5. TypeOK'
    BY <1>1, <1>2, <1>4 DEF Inv, TypeOK
  <1>6. GatheredIsAskedFor'
    BY <1>1, <1>2 DEF Inv, GatheredIsAskedFor
  <1>7. FailuresAreExplained'
    BY <1>1 DEF Inv, FailuresAreExplained, FailsOnlyWhenHopeless
  <1> DEFINE L == ListingOf(platform, endpoint, Owned)
             M == ListingOf(platform', endpoint, Owned)
  <1>8. Listing = L /\ Listing' = M
    BY <1>1 DEF Listing, ListingOf
  <1>9. /\ DOMAIN L = 1..Len(L) /\ DOMAIN M = 1..Len(M)
        /\ \A k \in 1..Len(M) : \E m \in 1..Len(L) : m >= k /\ L[m] = M[k]
    <2>1. Owned \in SUBSET Repos
      BY DEF Owned
    <2>2. L \in Seq(Repos) /\ M \in Seq(Repos)
      BY <1>3, <1>4, <2>1, ListingHasTheOwned
    <2>3. \A k \in 1..Len(M) : \E m \in 1..Len(L) : m >= k /\ L[m] = M[k]
      BY <1>3, <1>4, <2>1, ListingMovesOn
    <2> HIDE DEF L, M
    <2> QED
      BY <2>2, <2>3, EntriesOf
  <1> HIDE DEF L, M
  <1>10. NothingIsMissed'
    BY <1>2 DEF NothingIsMissed
  <1>11. NothingComesTwice'
    <2>1. "added" \notin shifts' => "added" \notin shifts
      BY <1>2
    <2>2. ASSUME "added" \notin shifts, pc = "list", NEW k \in DOMAIN M, M[k] \in ToSet(all)
          PROVE  k <= Shown
      <3>1. PICK m \in 1..Len(L) : m >= k /\ L[m] = M[k]
        BY <1>9, <2>2
      <3>2. m <= Shown
        BY <1>8, <1>9, <2>2, <3>1 DEF Inv, NothingComesTwice
      <3> QED
        BY <1>1, <1>9, <3>1, <3>2
    <2>3. "added" \notin shifts =>
            /\ pc = "list" => IsInjective(all)
            /\ pc = "probe" => IsInjective(all) /\ IsInjective(out) /\ ToSet(all) \cap ToSet(out) = {}
      BY DEF Inv, NothingComesTwice
    <2> QED
      BY <1>1, <1>8, <2>1, <2>2, <2>3, EmptyList DEF NothingComesTwice
  <1> QED
    BY <1>5, <1>6, <1>7, <1>10, <1>11 DEF Inv

-----------------------------------------------------------------------------
(* Every step keeps the invariant.                                              *)
LEMMA NextInv == Inv /\ [Next]_vars => Inv'
  <1> SUFFICES ASSUME Inv, [Next]_vars PROVE Inv'
    OBVIOUS
  <1>1. CASE Connect
    BY <1>1, ConnectKeepsInv
  <1>2. CASE ListPage
    BY <1>2, ListPageKeepsInv
  <1>3. CASE HasRenovateConfig
    BY <1>3, HasRenovateConfigKeepsInv
  <1>4. CASE AllProbed
    BY <1>4, AllProbedKeepsInv
  <1>5. CASE Crash
    <2>1. pc \in Requests /\ Begin /\ UNCHANGED <<platform, runVars, resultVars>> /\ changes' = changes
      BY <1>5 DEF Crash, Inv, TypeOK
    <2>2. faults' \in 0..MaxFaults
      BY <1>5, FaultIsCounted DEF Crash
    <2> QED
      BY <2>1, <2>2, BeginKeepsInv
  <1>6. ASSUME NEW r \in Repos, NEW i \in 1..(Len(platform) + 1), AddRepo(r, i)
        PROVE  Inv'
    BY <1>6, AddRepoKeepsInv
  <1>7. ASSUME NEW i \in 1..Len(platform), RemoveRepo(i)
        PROVE  Inv'
    BY <1>7, RemoveRepoKeepsInv
  <1>8. CASE UNCHANGED vars
    <2>1. /\ platform' = platform /\ client' = client /\ discovery' = discovery
          /\ changes' = changes /\ faults' = faults /\ pc' = pc /\ endpoint' = endpoint
          /\ page' = page /\ all' = all /\ path' = path /\ out' = out /\ outcome' = outcome
          /\ found' = found /\ cause' = cause /\ start' = start /\ known' = known /\ shifts' = shifts
      BY <1>8 DEF vars, runVars, attemptVars, resultVars, historyVars
    <2>2. /\ discoveryOwner' = discoveryOwner /\ Owned' = Owned /\ Wanted' = Wanted /\ Asked' = Asked
          /\ derefOrTrue(discovery.requireConfig)' = derefOrTrue(discovery.requireConfig)
      BY <2>1, AskedIsFixed DEF runVars
    <2>3. Shown' = Shown /\ Listing' = Listing
      BY <2>1, <2>2 DEF Shown, Served, Listing
    <2>4. TypeOK'
      BY <2>1 DEF Inv, TypeOK
    <2>5. GatheredIsAskedFor'
      BY <2>1, <2>2 DEF Inv, GatheredIsAskedFor
    <2>6. FailuresAreExplained'
      BY <2>1, <2>2 DEF Inv, FailuresAreExplained, FailsOnlyWhenHopeless
    <2>7. NothingIsMissed'
      BY <2>1, <2>2, <2>3 DEF Inv, NothingIsMissed
    <2>8. NothingComesTwice'
      BY <2>1, <2>3 DEF Inv, NothingComesTwice
    <2> QED
      BY <2>4, <2>5, <2>6, <2>7, <2>8 DEF Inv
  <1> QED
    BY <1>1, <1>2, <1>3, <1>4, <1>5, <1>6, <1>7, <1>8 DEF Next, Request

(* What discovery has gathered, still has to see and may fail for, at any time.  *)
THEOREM InvHolds == Spec => []Inv
  <1>1. Init => Inv
    BY InitInv
  <1>2. Inv /\ [Next]_vars => Inv'
    BY NextInv
  <1> QED
    BY <1>1, <1>2, PTL DEF Spec

(* The state of a discovery keeps its type.                                      *)
THEOREM TypeCorrect == Spec => []TypeOK
  <1>1. Inv => TypeOK
    BY DEF Inv
  <1> QED
    BY <1>1, InvHolds, PTL

(* Whatever the listing's pages, the fallback from organisation to user, the      *)
(* retries and the crashes: Discover returns only repositories it was asked for    *)
(* and, unless one is removed meanwhile or the platform serves smaller pages, all   *)
(* that were there from the start.                                                  *)
THEOREM FindsWhatWasAsked == Spec => []FindsTheEligible
  <1>1. Inv => FindsTheEligible
    <2> SUFFICES ASSUME Inv, outcome \in {"found", "empty"}
                 PROVE  /\ ToSet(found) \subseteq {r \in known : Eligible(r)}
                        /\ "removed" \notin shifts /\ ServerLimit >= PageSize =>
                              {r \in start : Eligible(r)} \subseteq ToSet(found)
      BY DEF FindsTheEligible
    <2>1. ToSet(found) \subseteq known \cap Asked
      BY DEF Inv, GatheredIsAskedFor
    <2>2. "removed" \notin shifts /\ ServerLimit >= PageSize => start \cap Asked \subseteq ToSet(found)
      BY DEF Inv, NothingIsMissed
    <2>3. start \subseteq Repos
      BY DEF Inv, TypeOK
    <2> QED
      BY <2>1, <2>2, <2>3 DEF Asked
  <1> QED
    BY <1>1, InvHolds, PTL

(* Unless a repository is added while pages are read, Discover returns none twice. *)
THEOREM NothingFoundTwice == Spec => []NoRepoTwice
  <1>1. Inv => NoRepoTwice
    BY DEF Inv, NothingComesTwice, NoRepoTwice
  <1> QED
    BY <1>1, InvHolds, PTL

(* A Run fails in discovery only where a retry is hopeless; the user listing's 404   *)
(* comes only after the organisation's, so then the owner has no account at all.     *)
THEOREM FailsForAReason == Spec => []FailsOnlyWhenHopeless
  <1>1. Inv => FailsOnlyWhenHopeless
    BY DEF Inv, FailuresAreExplained
  <1> QED
    BY <1>1, InvHolds, PTL
=============================================================================
