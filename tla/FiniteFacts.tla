----------------------------- MODULE FiniteFacts -----------------------------
(***************************************************************************)
(* What the proofs need to know of finite sets: that a set of numbers has  *)
(* a least member, and how the sums of the community modules change with   *)
(* the set they run over.  A library sum takes one member after another as *)
(* CHOOSE will have it; that it exists, and does not depend on the order,  *)
(* is shown on a smallest subset for which it would fail.                  *)
(***************************************************************************)
EXTENDS Ascending, Integers, Sequences, FiniteSetsExt, FiniteSetTheorems, WellFoundedInduction, TLAPS

-----------------------------------------------------------------------------
(* Any set of numbers has a least one. *)

\* The numbers of a set up to one of them.
UpTo(S, x) == {y \in S : y <= x}

\* Each such segment is finite, and grows with the number.
LEMMA SegmentProperties ==
    ASSUME NEW S \in SUBSET Nat, NEW x \in S
    PROVE  /\ x \in UpTo(S, x) /\ UpTo(S, x) \in SUBSET S /\ IsFiniteSet(UpTo(S, x))
           /\ \A k \in S : k < x => UpTo(S, k) \subseteq UpTo(S, x) /\ x \notin UpTo(S, k)
<1>1. x \in Nat /\ \A y \in S : y \in Nat
  OBVIOUS
<1>2. x \in UpTo(S, x) /\ UpTo(S, x) \in SUBSET S
  BY <1>1 DEF UpTo
<1>3. UpTo(S, x) \subseteq 0..x
  <2>1. \A y \in S : y <= x => y \in 0..x
    BY <1>1
  <2> QED BY <2>1 DEF UpTo
<1>4. IsFiniteSet(UpTo(S, x))
  <2>1. IsFiniteSet(0..x)
    BY <1>1, FS_Interval
  <2> QED BY <1>3, <2>1, FS_Subset
<1>5. ASSUME NEW k \in S, k < x PROVE UpTo(S, k) \subseteq UpTo(S, x) /\ x \notin UpTo(S, k)
  <2>1. \A y \in S : (y <= k => y <= x) /\ ~(x <= k)
    BY <1>1, <1>5
  <2> QED BY <2>1 DEF UpTo
<1> QED BY <1>2, <1>4, <1>5

\* A set of numbers has a least one.
LEMMA Smallest ==
    ASSUME NEW S \in SUBSET Nat, S # {}
    PROVE  \E m \in S : \A k \in S : m <= k
<1> DEFINE T == {UpTo(S, x) : x \in S}
           W == FiniteSubsetsOf(S)
           R == StrictSubsetOrdering(S)
<1>0. \A x \in S : x \in Nat
  OBVIOUS
<1>1. IsWellFoundedOn(R, W)
  BY FS_StrictSubsetOrderingWellFounded
<1>2. T \subseteq W /\ T # {}
  <2>1. \A x \in S : UpTo(S, x) \in W
    BY SegmentProperties DEF FiniteSubsetsOf
  <2> HIDE DEF W
  <2> QED BY <2>1
<1> HIDE DEF W, R
<1>3. \E seg \in T : \A other \in T : ~ (<<other, seg>> \in R)
  <2> HIDE DEF T
  <2> QED BY <1>1, <1>2, WFMin
<1>4. PICK m \in S : \A other \in T : ~ (<<other, UpTo(S, m)>> \in R)
  BY <1>3
<1>5. ASSUME NEW k \in S, k < m PROVE FALSE
  <2>1. UpTo(S, k) \in SUBSET S /\ UpTo(S, m) \in SUBSET S
    BY SegmentProperties
  <2>2. UpTo(S, k) \subseteq UpTo(S, m) /\ UpTo(S, k) # UpTo(S, m)
    BY <1>5, SegmentProperties
  <2>3. <<UpTo(S, k), UpTo(S, m)>> \in R
    BY <2>1, <2>2 DEF StrictSubsetOrdering, R
  <2> QED BY <1>4, <2>3
<1> QED BY <1>0, <1>5

-----------------------------------------------------------------------------
(* A set of numbers in order. *)

\* The members before one.
Before(S, x) == {y \in S : y < x}

\* A member has its own number of members before it, and a greater one more.
LEMMA RanksGrow ==
    ASSUME NEW S \in SUBSET Nat, IsFiniteSet(S)
    PROVE  /\ Cardinality(S) \in Nat
           /\ \A x \in S : Cardinality(Before(S, x)) \in 0..(Cardinality(S) - 1)
           /\ \A x, y \in S : x < y => Cardinality(Before(S, x)) < Cardinality(Before(S, y))
<1>0. \A x \in S : x \in Nat
  OBVIOUS
<1>1. Cardinality(S) \in Nat
  BY FS_CardinalityType
<1>2. ASSUME NEW T \in SUBSET S, NEW x \in T
      PROVE  /\ Cardinality(Before(T, x)) \in Nat /\ Cardinality(T) \in Nat
             /\ Cardinality(Before(T, x)) < Cardinality(T)
  <2>1. IsFiniteSet(T) /\ Cardinality(T) \in Nat
    BY FS_Subset, FS_CardinalityType
  <2>2. IsFiniteSet(T \ {x}) /\ Cardinality(T \ {x}) = Cardinality(T) - 1
    BY <2>1, FS_RemoveElement
  <2>3. Before(T, x) \in SUBSET (T \ {x})
    BY <1>0 DEF Before
  <2>4. IsFiniteSet(Before(T, x)) /\ Cardinality(Before(T, x)) <= Cardinality(T \ {x})
    BY <2>2, <2>3, FS_Subset
  <2>5. Cardinality(Before(T, x)) \in Nat
    BY <2>4, FS_CardinalityType
  <2> QED BY <2>1, <2>2, <2>4, <2>5
<1>3. ASSUME NEW x \in S PROVE Cardinality(Before(S, x)) \in 0..(Cardinality(S) - 1)
  BY <1>1, <1>2
<1>4. ASSUME NEW x \in S, NEW y \in S, x < y
      PROVE  Cardinality(Before(S, x)) < Cardinality(Before(S, y))
  <2>1. Before(S, y) \in SUBSET S /\ x \in Before(S, y)
    BY <1>4 DEF Before
  <2>2. Before(Before(S, y), x) = Before(S, x)
    <3>1. \A z \in S : z < x => z < y
      BY <1>0, <1>4
    <3> QED BY <3>1 DEF Before
  <2> QED BY <1>2, <2>1, <2>2
<1> QED BY <1>1, <1>3, <1>4

\* Each number of members before comes up.
LEMMA RanksAreTaken ==
    ASSUME NEW S \in SUBSET Nat, IsFiniteSet(S), NEW i \in 1..Cardinality(S)
    PROVE  \E x \in S : Cardinality(Before(S, x)) = i - 1
<1> DEFINE n == Cardinality(S)
           T == (0..(n - 1)) \ {i - 1}
           f == [x \in S |-> Cardinality(Before(S, x))]
<1>1. n \in Nat /\ i - 1 \in 0..(n - 1)
  BY RanksGrow
<1>2. IsFiniteSet(T) /\ Cardinality(T) = n - 1
  <2>1. IsFiniteSet(0..(n - 1)) /\ Cardinality(0..(n - 1)) = n
    BY <1>1, FS_Interval
  <2>2. \A x : IsFiniteSet((0..(n - 1)) \ {x})
               /\ Cardinality((0..(n - 1)) \ {x}) =
                    IF x \in 0..(n - 1) THEN Cardinality(0..(n - 1)) - 1
                    ELSE Cardinality(0..(n - 1))
    BY <2>1, FS_RemoveElement
  <2> QED BY <1>1, <2>1, <2>2
<1> SUFFICES ASSUME ~ \E x \in S : Cardinality(Before(S, x)) = i - 1 PROVE FALSE
  OBVIOUS
<1>3. f \in [S -> T]
  BY RanksGrow
<1>4. \E x, y \in S : x # y /\ f[x] = f[y]
  <2>1. Cardinality(T) < Cardinality(S)
    BY <1>1, <1>2
  <2> HIDE DEF f, T
  <2> QED BY <1>2, <1>3, <2>1, FS_PigeonHole
<1>5. PICK x \in S, y \in S : x # y /\ f[x] = f[y]
  BY <1>4
<1>6. x \in Nat /\ y \in Nat /\ (x < y \/ y < x)
  BY <1>5
<1>7. f[x] \in Nat /\ f[y] \in Nat /\ (x < y => f[x] < f[y]) /\ (y < x => f[y] < f[x])
  BY RanksGrow
<1> QED BY <1>5, <1>6, <1>7

\* InOrder has each member once, the smaller before the greater.
LEMMA Ordered ==
    ASSUME NEW S \in SUBSET Nat, IsFiniteSet(S), NEW o, o = InOrder(S)
    PROVE  /\ Cardinality(S) \in Nat /\ o \in Seq(S)
           /\ DOMAIN o = 1..Cardinality(S) /\ Len(o) = Cardinality(S)
           /\ \A i \in DOMAIN o : o[i] \in S
           /\ \A i, j \in DOMAIN o : i < j => o[i] < o[j]
           /\ \A x \in S : \E i \in DOMAIN o : o[i] = x
<1> DEFINE n == Cardinality(S)
           Rank(x) == Cardinality(Before(S, x))
<1>1. n \in Nat
  BY RanksGrow
<1>2. o = [i \in 1..n |-> CHOOSE x \in S : Rank(x) = i - 1]
  BY DEF InOrder, Before
<1>3. \A i \in 1..n : o[i] \in S /\ Rank(o[i]) = i - 1
  <2> SUFFICES ASSUME NEW i \in 1..n PROVE o[i] \in S /\ Rank(o[i]) = i - 1
    OBVIOUS
  <2>1. \E x \in S : Rank(x) = i - 1
    BY RanksAreTaken
  <2>2. o[i] = CHOOSE x \in S : Rank(x) = i - 1
    BY <1>2
  <2> HIDE DEF Rank
  <2> QED BY <2>1, <2>2
<1>4. DOMAIN o = 1..n /\ o \in Seq(S) /\ Len(o) = n
  <2>1. o \in [1..n -> S]
    BY <1>2, <1>3
  <2> QED BY <1>1, <2>1
<1>5. ASSUME NEW i \in 1..n, NEW j \in 1..n, i < j PROVE o[i] < o[j]
  <2>1. o[i] \in Nat /\ o[j] \in Nat /\ Rank(o[i]) < Rank(o[j])
    <3>1. o[i] \in S /\ o[j] \in S /\ Rank(o[i]) = i - 1 /\ Rank(o[j]) = j - 1
      BY <1>3
    <3>2. i - 1 < j - 1
      BY <1>1, <1>5
    <3>3. o[i] \in Nat /\ o[j] \in Nat
      BY <3>1
    <3> HIDE DEF Rank
    <3> QED BY <3>1, <3>2, <3>3
  <2>2. o[j] < o[i] => Rank(o[j]) < Rank(o[i])
    BY <1>3, RanksGrow
  <2>3. o[i] # o[j]
    <3> HIDE DEF Rank
    <3> QED BY <2>1, <1>3
  <2>4. Rank(o[i]) \in Nat /\ Rank(o[j]) \in Nat
    BY <1>3, RanksGrow
  <2> HIDE DEF Rank
  <2> QED BY <2>1, <2>2, <2>3, <2>4
<1>6. ASSUME NEW x \in S PROVE \E i \in 1..n : o[i] = x
  <2>1. Rank(x) \in 0..(n - 1)
    BY RanksGrow
  <2>2. Rank(x) + 1 \in 1..n
    BY <1>1, <2>1
  <2>3. o[Rank(x) + 1] \in S /\ Rank(o[Rank(x) + 1]) = Rank(x)
    <3> HIDE DEF Rank
    <3> QED BY <1>1, <1>3, <2>1, <2>2
  <2>4. ASSUME o[Rank(x) + 1] # x PROVE FALSE
    <3>1. PICK y \in S : y = o[Rank(x) + 1] /\ Rank(y) = Rank(x) /\ y # x
      BY <2>3, <2>4
    <3>2. x \in Nat /\ y \in Nat
      OBVIOUS
    <3>3. (x < y => Rank(x) < Rank(y)) /\ (y < x => Rank(y) < Rank(x)) /\ Rank(x) \in Nat
      BY RanksGrow
    <3> HIDE DEF Rank
    <3> QED BY <3>1, <3>2, <3>3
  <2> QED BY <2>2, <2>4
<1> HIDE DEF n
<1> QED BY <1>1, <1>3, <1>4, <1>5, <1>6 DEF n

\* The least and the greatest member.
LEMMA Extremes ==
    ASSUME NEW S \in SUBSET Nat, IsFiniteSet(S), S # {}
    PROVE  /\ Min(S) \in S /\ Max(S) \in S
           /\ \A x \in S : Min(S) <= x /\ x <= Max(S)
<1>1. PICK o : o = InOrder(S)
  OBVIOUS
<1>2. /\ \A i \in DOMAIN o : o[i] \in S
      /\ \A i, j \in DOMAIN o : i < j => o[i] < o[j]
      /\ \A x \in S : \E i \in DOMAIN o : o[i] = x
  BY <1>1, Ordered
<1>3. PICK n \in Nat : DOMAIN o = 1..n
  BY <1>1, Ordered
<1>4. n # 0
  <2>1. PICK x \in S : TRUE
    OBVIOUS
  <2>2. \E i \in 1..n : o[i] = x
    BY <1>2, <1>3
  <2> QED BY <2>2
<1>5. 1 \in DOMAIN o /\ n \in DOMAIN o
  BY <1>3, <1>4
<1>6. \A x \in S : o[1] <= x /\ x <= o[n]
  <2> SUFFICES ASSUME NEW x \in S PROVE o[1] <= x /\ x <= o[n]
    OBVIOUS
  <2>1. PICK i \in 1..n : o[i] = x
    BY <1>2, <1>3
  <2>2. o[1] \in Nat /\ o[n] \in Nat /\ x \in Nat
    BY <1>2, <1>5
  <2>3. (i = 1 \/ o[1] < o[i]) /\ (i = n \/ o[i] < o[n])
    BY <1>2, <1>3, <1>5
  <2> QED BY <2>1, <2>2, <2>3
<1>7. o[1] \in S /\ o[n] \in S
  BY <1>2, <1>5
<1>8. \A x \in S : x \in Nat
  OBVIOUS
<1> QED BY <1>6, <1>7, <1>8 DEF Min, Max

LEMMA PageRange ==
    ASSUME NEW a \in Nat, NEW b \in Nat, a <= b
    PROVE  Min(a..b) = a /\ Max(a..b) = b
<1>1. a \in a..b /\ b \in a..b /\ a..b \in SUBSET Nat /\ IsFiniteSet(a..b)
  BY FS_Interval
<1>2. PICK lo \in a..b, hi \in a..b : /\ lo = Min(a..b) /\ hi = Max(a..b)
                                      /\ lo <= a /\ b <= hi
  BY <1>1, Extremes
<1> QED BY <1>2

-----------------------------------------------------------------------------
(* Sums over a finite set. *)

\* The member that the library's sum takes out of s.
Some(s) == CHOOSE x \in s : TRUE

\* it gives each subset of S the sum of f over it.
Adds(it, f, S) ==
    \A s \in SUBSET S : it[s] = IF s = {} THEN 0 ELSE f[Some(s)] + it[s \ {Some(s)}]

\* Of the subsets that have a property, one is minimal.
LEMMA MinimalSubset ==
    ASSUME NEW S, IsFiniteSet(S), NEW Bad \in SUBSET (SUBSET S), Bad # {}
    PROVE  \E T \in Bad : \A R \in Bad : R \subseteq T => R = T
<1> DEFINE W == FiniteSubsetsOf(S)
           O == StrictSubsetOrdering(S)
<1>1. IsWellFoundedOn(O, W)
  BY FS_StrictSubsetOrderingWellFounded
<1>2. Bad \subseteq W
  BY FS_Subset DEF FiniteSubsetsOf
<1> HIDE DEF W, O
<1>3. PICK T \in Bad : \A R \in Bad : ~ (<<R, T>> \in O)
  BY <1>1, <1>2, WFMin
<1>4. ASSUME NEW R \in Bad, R \subseteq T, R # T PROVE FALSE
  <2>1. R \in SUBSET S /\ T \in SUBSET S
    OBVIOUS
  <2>2. <<R, T>> \in O
    BY <1>4, <2>1 DEF StrictSubsetOrdering, O
  <2> QED BY <1>3, <2>2
<1> QED BY <1>4

\* The sum b of g follows the sum a of f, when they differ at e alone.
Follows(s, a, b, e, f, g) ==
    /\ a[s] \in Int /\ b[s] \in Int
    /\ e \in s => b[s] = a[s] + g[e] - f[e]
    /\ e \notin s => b[s] = a[s]

\* A sum changes by what one of its terms changes by.
LEMMA SumChange ==
    ASSUME NEW S, IsFiniteSet(S), NEW f, NEW g, NEW e,
           \A k \in S : f[k] \in Int /\ g[k] \in Int /\ (k # e => g[k] = f[k]),
           NEW a, NEW b, Adds(a, f, S), Adds(b, g, S)
    PROVE  Follows(S, a, b, e, f, g)
<1> DEFINE Good(s) == Follows(s, a, b, e, f, g)
           Bad == {s \in SUBSET S : ~Good(s)}
<1>1. SUFFICES ASSUME Bad # {} PROVE FALSE
  <2>1. S \in SUBSET S
    OBVIOUS
  <2> QED BY <2>1
<1>2. PICK s \in Bad : \A r \in Bad : r \subseteq s => r = s
  <2> HIDE DEF Good
  <2>1. Bad \in SUBSET (SUBSET S)
    OBVIOUS
  <2> HIDE DEF Bad
  <2> QED BY <1>1, <2>1, MinimalSubset
<1>3. s \in SUBSET S /\ ~Good(s)
  BY <1>2
<1>4. \A r \in SUBSET S : r \subseteq s /\ r # s => Good(r)
  BY <1>2
<1>5. s # {}
  <2>1. s = {} => a[s] = 0 /\ b[s] = 0
    BY <1>3 DEF Adds
  <2>2. s = {} => e \notin s
    OBVIOUS
  <2>3. s = {} => Good(s)
    BY <2>1, <2>2 DEF Follows
  <2> QED BY <1>3, <2>3
<1>6. PICK x \in s : x = Some(s)
  BY <1>5 DEF Some
<1>7. PICK r \in SUBSET S : r = s \ {x}
  BY <1>3
<1>8. r \subseteq s /\ r # s /\ Good(r)
  BY <1>4, <1>7
<1>9. a[s] = f[x] + a[r] /\ b[s] = g[x] + b[r]
  BY <1>3, <1>5, <1>6, <1>7 DEF Adds
<1>10. /\ x \in S /\ f[x] \in Int /\ g[x] \in Int /\ a[r] \in Int /\ b[r] \in Int
       /\ x # e => g[x] = f[x]
       /\ e \in r <=> e \in s /\ x # e
  BY <1>3, <1>7, <1>8 DEF Follows
<1>11. Good(s)
  <2>1. CASE x = e
    BY <1>8, <1>9, <1>10, <2>1 DEF Follows
  <2>2. CASE x # e /\ e \in s
    <3>1. f[e] \in Int /\ g[e] \in Int
      BY <1>3, <2>2
    <3> QED BY <1>8, <1>9, <1>10, <2>2, <3>1 DEF Follows
  <2>3. CASE e \notin s
    BY <1>8, <1>9, <1>10, <2>3 DEF Follows
  <2> QED BY <2>1, <2>2, <2>3
<1> QED BY <1>3, <1>11

\* There are sums over a finite set.
LEMMA SumExists ==
    ASSUME NEW S, IsFiniteSet(S), NEW f, \A k \in S : f[k] \in Int
    PROVE  \E it : Adds(it, f, S)
<1> DEFINE Bad == {T \in SUBSET S : ~ \E it : Adds(it, f, T)}
<1>1. SUFFICES ASSUME Bad # {} PROVE FALSE
  OBVIOUS
<1>2. PICK T \in Bad : \A R \in Bad : R \subseteq T => R = T
  <2>1. Bad \in SUBSET (SUBSET S)
    OBVIOUS
  <2> HIDE DEF Bad
  <2> QED BY <1>1, <2>1, MinimalSubset
<1>3. T \in SUBSET S /\ ~ \E it : Adds(it, f, T)
  BY <1>2
<1>4. \A R \in SUBSET T : R # T => \E it : Adds(it, f, R)
  BY <1>2, <1>3
<1> HIDE DEF Bad
<1> DEFINE of(R) == CHOOSE it : Adds(it, f, R)
<1>5. \A R \in SUBSET T : R # T => Adds(of(R), f, R)
  BY <1>4
<1>6. ASSUME NEW R \in SUBSET T, R # T, NEW Q \in SUBSET R
      PROVE  of(R)[Q] = of(Q)[Q]
  <2>1. PICK a : a = of(R) /\ Adds(a, f, R)
    BY <1>5, <1>6
  <2>2. PICK b : b = of(Q) /\ Adds(b, f, Q)
    BY <1>5, <1>6
  <2>3. Adds(a, f, Q)
    BY <2>1 DEF Adds
  <2>4. IsFiniteSet(Q) /\ \A k \in Q : f[k] \in Int
    BY <1>3, FS_Subset
  <2>5. b[Q] = a[Q]
    <3> DEFINE e == CHOOSE e : e \notin Q
    <3> HIDE DEF e
    <3>1. \A k \in Q : f[k] \in Int /\ f[k] \in Int /\ (k # e => f[k] = f[k])
      BY <2>4
    <3>2. e \in Q => f[e] \in Int
      BY <2>4
    <3>3. Follows(Q, a, b, e, f, f)
      BY <2>2, <2>3, <2>4, <3>1, SumChange
    <3> QED BY <3>2, <3>3 DEF Follows
  <2> QED BY <2>1, <2>2, <2>5
<1> HIDE DEF of
<1>7. CASE T = {}
  <2>1. Adds([s \in {{}} |-> 0], f, {})
    BY DEF Adds
  <2> QED BY <1>3, <1>7, <2>1
<1>8. CASE T # {}
  <2>1. PICK x \in T : x = Some(T)
    BY <1>8 DEF Some
  <2>2. PICK R \in SUBSET T : R = T \ {x}
    OBVIOUS
  <2>3. R # T
    BY <2>2
  <2> DEFINE it == [s \in SUBSET T |-> IF s = T THEN f[x] + of(R)[R] ELSE of(s)[s]]
  <2>4. ASSUME NEW s \in SUBSET T
        PROVE  it[s] = IF s = {} THEN 0 ELSE f[Some(s)] + it[s \ {Some(s)}]
    <3>1. CASE s = T
      <4>1. s # {} /\ Some(s) = x /\ s \ {Some(s)} = R
        BY <1>8, <2>1, <2>2, <3>1
      <4>2. it[s] = f[x] + of(R)[R] /\ it[R] = of(R)[R]
        BY <2>3, <3>1
      <4> HIDE DEF it
      <4> QED BY <4>1, <4>2
    <3>2. CASE s # T
      <4>1. it[s] = of(s)[s] /\ Adds(of(s), f, s) /\ s \in SUBSET s
        BY <1>5, <3>2
      <4>2. of(s)[s] = IF s = {} THEN 0 ELSE f[Some(s)] + of(s)[s \ {Some(s)}]
        BY <4>1 DEF Adds
      <4>3. PICK Q \in SUBSET s : Q = s \ {Some(s)}
        OBVIOUS
      <4>4. Q # T /\ Q \in SUBSET T
        BY <3>2
      <4>5. of(s)[Q] = of(Q)[Q] /\ it[Q] = of(Q)[Q]
        BY <1>6, <3>2, <4>4
      <4> HIDE DEF it
      <4> QED BY <4>1, <4>2, <4>3, <4>5
    <3> QED BY <3>1, <3>2
  <2>5. Adds(it, f, T)
    <3> HIDE DEF it
    <3> QED BY <2>4 DEF Adds
  <2> QED BY <1>3, <2>5
<1> QED BY <1>7, <1>8

\* The sum of f over S.
SumOf(f, S) == MapThenSumSet(LAMBDA e : f[e], S)

LEMMA SumAddsUp ==
    ASSUME NEW S, IsFiniteSet(S), NEW f, \A e \in S : f[e] \in Int
    PROVE  \E it : Adds(it, f, S) /\ SumOf(f, S) = it[S]
<1> DEFINE body(it) == [s \in SUBSET S |-> IF s = {} THEN 0
                             ELSE LET x == CHOOSE x \in s : TRUE IN f[x] + it[s \ {x}]]
           it == CHOOSE it : it = body(it)
<1>1. PICK g : g = body(g)
  <2>1. PICK h : Adds(h, f, S)
    BY SumExists
  <2> DEFINE g == [s \in SUBSET S |-> h[s]]
  <2>2. \A s \in SUBSET S :
           g[s] = IF s = {} THEN 0 ELSE LET x == CHOOSE x \in s : TRUE IN f[x] + g[s \ {x}]
    BY <2>1 DEF Adds, Some
  <2>3. g = [s \in SUBSET S |-> g[s]]
    OBVIOUS
  <2> HIDE DEF g
  <2>4. g = body(g)
    BY <2>2, <2>3
  <2> QED BY <2>4
<1>2. it = body(it)
  <2> HIDE DEF body
  <2> QED BY <1>1
<1>3. SumOf(f, S) = it[S]
  BY DEF SumOf, MapThenSumSet, MapThenFoldSet
<1> HIDE DEF it
<1>4. ASSUME NEW s \in SUBSET S
      PROVE  it[s] = IF s = {} THEN 0 ELSE f[Some(s)] + it[s \ {Some(s)}]
  BY <1>2 DEF Some
<1>5. Adds(it, f, S)
  BY <1>4 DEF Adds
<1> QED BY <1>3, <1>5

\* Whatever adds f up has the sum of f over each subset.
LEMMA AddsIsSum ==
    ASSUME NEW S, IsFiniteSet(S), NEW f, \A k \in S : f[k] \in Int,
           NEW it, Adds(it, f, S), NEW R \in SUBSET S
    PROVE  it[R] = SumOf(f, R) /\ it[R] \in Int
<1>1. IsFiniteSet(R) /\ \A k \in R : f[k] \in Int
  BY FS_Subset
<1>2. PICK a : Adds(a, f, R) /\ SumOf(f, R) = a[R]
  BY <1>1, SumAddsUp
<1>3. Adds(it, f, R)
  BY DEF Adds
<1> DEFINE e == CHOOSE e : e \notin R
<1> HIDE DEF e
<1>4. \A k \in R : f[k] \in Int /\ f[k] \in Int /\ (k # e => f[k] = f[k])
  BY <1>1
<1>5. Follows(R, a, it, e, f, f)
  BY <1>1, <1>2, <1>3, <1>4, SumChange
<1>6. e \in R => f[e] \in Int
  BY <1>1
<1> QED BY <1>2, <1>5, <1>6 DEF Follows

LEMMA SumType ==
    ASSUME NEW S, IsFiniteSet(S), NEW f, \A k \in S : f[k] \in Int
    PROVE  SumOf(f, S) \in Int
<1>1. PICK it : Adds(it, f, S)
  BY SumAddsUp
<1>2. S \in SUBSET S
  OBVIOUS
<1> QED BY <1>1, <1>2, AddsIsSum

LEMMA SumEmpty == ASSUME NEW f PROVE SumOf(f, {}) = 0
<1>1. IsFiniteSet({}) /\ \A k \in {} : f[k] \in Int
  BY FS_EmptySet
<1>2. PICK it : Adds(it, f, {}) /\ SumOf(f, {}) = it[{}]
  BY <1>1, SumAddsUp
<1> QED BY <1>2 DEF Adds

\* Any member may be taken out first.
LEMMA SumTake ==
    ASSUME NEW S, IsFiniteSet(S), NEW f, \A k \in S : f[k] \in Int, NEW x \in S
    PROVE  SumOf(f, S) = f[x] + SumOf(f, S \ {x}) /\ SumOf(f, S \ {x}) \in Int
<1>1. PICK it : Adds(it, f, S)
  BY SumAddsUp
<1>2. \A R \in SUBSET S : it[R] = SumOf(f, R) /\ it[R] \in Int
  BY <1>1, AddsIsSum
<1> DEFINE Fails(T) == \E k \in T : it[T] # f[k] + it[T \ {k}]
           Bad == {T \in SUBSET S : Fails(T)}
<1>3. SUFFICES ASSUME Bad # {} PROVE FALSE
  <2>1. S \in SUBSET S /\ S \ {x} \in SUBSET S
    OBVIOUS
  <2>2. Bad = {} => it[S] = f[x] + it[S \ {x}]
    BY <2>1
  <2> HIDE DEF Bad
  <2> QED BY <1>2, <2>1, <2>2
<1>4. PICK T \in Bad : \A R \in Bad : R \subseteq T => R = T
  <2>1. Bad \in SUBSET (SUBSET S)
    OBVIOUS
  <2> HIDE DEF Bad
  <2> QED BY <1>3, <2>1, MinimalSubset
<1>5. T \in SUBSET S /\ Fails(T)
  BY <1>4
<1>6. \A R \in SUBSET T : R # T => ~Fails(R)
  BY <1>4, <1>5
<1>7. PICK k \in T : it[T] # f[k] + it[T \ {k}]
  BY <1>5
<1>8. PICK y \in T : y = Some(T)
  BY <1>7 DEF Some
<1>9. it[T] = f[y] + it[T \ {y}] /\ y # k
  BY <1>1, <1>5, <1>7, <1>8 DEF Adds
<1>10. PICK A \in SUBSET T : A = T \ {y}
  OBVIOUS
<1>11. PICK B \in SUBSET T : B = T \ {k}
  OBVIOUS
<1>12. PICK C \in SUBSET T : C = A \ {k} /\ C = B \ {y}
  BY <1>10, <1>11
<1>13. it[A] = f[k] + it[C]
  <2>1. A # T /\ k \in A /\ A \in SUBSET T
    BY <1>9, <1>10
  <2>2. it[A] = f[k] + it[A \ {k}]
    BY <1>6, <2>1
  <2> QED BY <1>12, <2>2
<1>14. it[B] = f[y] + it[C]
  <2>1. B # T /\ y \in B /\ B \in SUBSET T
    BY <1>9, <1>11
  <2>2. it[B] = f[y] + it[B \ {y}]
    BY <1>6, <2>1
  <2> QED BY <1>12, <2>2
<1>15. it[C] \in Int /\ f[k] \in Int /\ f[y] \in Int
  BY <1>2, <1>5
<1> QED BY <1>7, <1>9, <1>10, <1>11, <1>13, <1>14, <1>15

\* A sum over two sets that have nothing in common.
LEMMA SumSplit ==
    ASSUME NEW A, NEW B, IsFiniteSet(A), IsFiniteSet(B), A \cap B = {},
           NEW f, \A k \in A \cup B : f[k] \in Int
    PROVE  SumOf(f, A \cup B) = SumOf(f, A) + SumOf(f, B)
<1> DEFINE Fails(T) == SumOf(f, A \cup T) # SumOf(f, A) + SumOf(f, T)
           Bad == {T \in SUBSET B : Fails(T)}
<1>1. SUFFICES ASSUME Bad # {} PROVE FALSE
  <2>1. B \in SUBSET B
    OBVIOUS
  <2> QED BY <2>1
<1>2. PICK T \in Bad : \A R \in Bad : R \subseteq T => R = T
  <2>1. Bad \in SUBSET (SUBSET B)
    OBVIOUS
  <2> HIDE DEF Bad
  <2> QED BY <1>1, <2>1, MinimalSubset
<1>3. T \in SUBSET B /\ Fails(T)
  BY <1>2
<1>4. \A R \in SUBSET T : R # T => ~Fails(R)
  BY <1>2, <1>3
<1>5. SumOf(f, A) \in Int
  BY SumType
<1>6. T # {}
  <2>1. A \cup {} = A
    OBVIOUS
  <2> QED BY <1>3, <1>5, <2>1, SumEmpty
<1>7. PICK x \in T : TRUE
  BY <1>6
<1>8. PICK R \in SUBSET T : R = T \ {x}
  OBVIOUS
<1>9. SumOf(f, A \cup R) = SumOf(f, A) + SumOf(f, R)
  <2>1. R # T
    BY <1>8
  <2> QED BY <1>4, <2>1
<1>10. SumOf(f, T) = f[x] + SumOf(f, R) /\ SumOf(f, R) \in Int
  <2>1. IsFiniteSet(T) /\ \A k \in T : f[k] \in Int
    BY <1>3, FS_Subset
  <2> QED BY <1>8, <2>1, SumTake
<1>11. SumOf(f, A \cup T) = f[x] + SumOf(f, A \cup R)
  <2>1. IsFiniteSet(A \cup T) /\ \A k \in A \cup T : f[k] \in Int
    BY <1>3, FS_Subset, FS_Union
  <2>2. x \in A \cup T /\ (A \cup T) \ {x} = A \cup R
    BY <1>3, <1>8
  <2> QED BY <2>1, <2>2, SumTake
<1>12. f[x] \in Int
  BY <1>3
<1> QED BY <1>3, <1>5, <1>9, <1>10, <1>11, <1>12

\* A sum in other terms: h renames the members, one by one.
LEMMA SumRenamed ==
    ASSUME NEW S, IsFiniteSet(S), NEW f, NEW g, NEW h,
           \A k \in S : g[k] \in Int /\ f[h[k]] = g[k],
           \A j, k \in S : h[j] = h[k] => j = k
    PROVE  SumOf(f, {h[k] : k \in S}) = SumOf(g, S)
<1> DEFINE Img(T) == {h[k] : k \in T}
           Fails(T) == SumOf(f, Img(T)) # SumOf(g, T)
           Bad == {T \in SUBSET S : Fails(T)}
<1>1. SUFFICES ASSUME Bad # {} PROVE FALSE
  <2>1. S \in SUBSET S
    OBVIOUS
  <2> QED BY <2>1
<1>2. PICK T \in Bad : \A R \in Bad : R \subseteq T => R = T
  <2>1. Bad \in SUBSET (SUBSET S)
    OBVIOUS
  <2> HIDE DEF Bad
  <2> QED BY <1>1, <2>1, MinimalSubset
<1>3. T \in SUBSET S /\ Fails(T)
  BY <1>2
<1>4. \A R \in SUBSET T : R # T => ~Fails(R)
  BY <1>2, <1>3
<1>5. T # {}
  <2>1. Img({}) = {}
    OBVIOUS
  <2> HIDE DEF Img
  <2> QED BY <1>3, <2>1, SumEmpty
<1>6. PICK x \in T : TRUE
  BY <1>5
<1>7. PICK R \in SUBSET T : R = T \ {x}
  OBVIOUS
<1>8. SumOf(f, Img(R)) = SumOf(g, R)
  <2>1. R # T
    BY <1>7
  <2> HIDE DEF Img
  <2> QED BY <1>4, <2>1
<1>9. SumOf(g, T) = g[x] + SumOf(g, R)
  <2>1. IsFiniteSet(T) /\ \A k \in T : g[k] \in Int
    BY <1>3, FS_Subset
  <2> QED BY <1>7, <2>1, SumTake
<1>10. SumOf(f, Img(T)) = f[h[x]] + SumOf(f, Img(R))
  <2>1. IsFiniteSet(T)
    BY <1>3, FS_Subset
  <2>2. PICK hh : hh = [k \in T |-> h[k]]
    OBVIOUS
  <2>3. Img(T) = {hh[k] : k \in T} /\ hh \in [T -> Img(T)]
    BY <2>2
  <2>4. IsFiniteSet(Img(T))
    <3>1. hh \in Surjection(T, Img(T))
      BY <2>2, <2>3 DEF Surjection
    <3> HIDE DEF Img
    <3> QED BY <2>1, <3>1, FS_Surjection
  <2>5. \A y \in Img(T) : f[y] \in Int
    BY <1>3
  <2>6. h[x] \in Img(T) /\ Img(T) \ {h[x]} = Img(R)
    BY <1>3, <1>7
  <2> HIDE DEF Img
  <2> QED BY <2>4, <2>5, <2>6, SumTake
<1>11. f[h[x]] = g[x]
  BY <1>3
<1> HIDE DEF Img
<1> QED BY <1>3, <1>8, <1>9, <1>10, <1>11

\* Sums of terms that agree.
LEMMA SumAgrees ==
    ASSUME NEW S, IsFiniteSet(S), NEW f, NEW g, \A k \in S : f[k] \in Int /\ g[k] = f[k]
    PROVE  SumOf(g, S) = SumOf(f, S)
<1>1. PICK h : h = [k \in S |-> k]
  OBVIOUS
<1>2. {h[k] : k \in S} = S
  BY <1>1
<1>3. \A k \in S : f[k] \in Int /\ g[h[k]] = f[k]
  BY <1>1
<1>4. \A j, k \in S : h[j] = h[k] => j = k
  BY <1>1
<1> QED BY <1>2, <1>3, <1>4, SumRenamed

\* Terms that are 0 do not count.
LEMMA SumNonzero ==
    ASSUME NEW S, IsFiniteSet(S), NEW f, \A k \in S : f[k] \in Int
    PROVE  SumOf(f, {k \in S : f[k] # 0}) = SumOf(f, S)
<1> DEFINE A == {k \in S : f[k] # 0}
           B == {k \in S : f[k] = 0}
<1>1. IsFiniteSet(A) /\ IsFiniteSet(B) /\ A \cap B = {} /\ A \cup B = S
  BY FS_Subset
<1>2. SumOf(f, S) = SumOf(f, A) + SumOf(f, B)
  <2>1. \A k \in A \cup B : f[k] \in Int
    OBVIOUS
  <2> HIDE DEF A, B
  <2> QED BY <1>1, <2>1, SumSplit
<1>3. SumOf(f, A) \in Int
  BY <1>1, SumType
<1>4. SumOf(f, B) = 0
  <2> DEFINE Bad == {T \in SUBSET B : SumOf(f, T) # 0}
  <2>1. SUFFICES ASSUME Bad # {} PROVE FALSE
    <3>1. B \in SUBSET B
      OBVIOUS
    <3> QED BY <3>1
  <2>2. PICK T \in Bad : \A R \in Bad : R \subseteq T => R = T
    <3>1. Bad \in SUBSET (SUBSET B)
      OBVIOUS
    <3> HIDE DEF Bad, B
    <3> QED BY <1>1, <2>1, <3>1, MinimalSubset
  <2>3. T # {} /\ T \in SUBSET B /\ SumOf(f, T) # 0
    BY <2>2, SumEmpty
  <2>4. PICK x \in T : TRUE
    BY <2>3
  <2>5. SumOf(f, T \ {x}) = 0
    BY <2>2, <2>3
  <2>6. SumOf(f, T) = f[x] + SumOf(f, T \ {x})
    <3>1. IsFiniteSet(T) /\ \A k \in T : f[k] \in Int
      BY <1>1, <2>3, FS_Subset
    <3> QED BY <3>1, SumTake
  <2>7. f[x] = 0
    BY <2>3
  <2> QED BY <2>3, <2>5, <2>6, <2>7
<1> QED BY <1>2, <1>3, <1>4

=============================================================================
