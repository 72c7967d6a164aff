---------------------------- MODULE Upload_lemmas ----------------------------
(***************************************************************************)
(* For Upload_proofs: the orders in which rfs upload lists and encodes a   *)
(* directory, what is above a path and what is reachable from a digest,    *)
(* the sequences it keeps; then UInv, the invariant of an upload, and why  *)
(* its parts about the scan and the hash tasks are preserved.              *)
(***************************************************************************)
EXTENDS Upload, TLAPS, FiniteSetTheorems, WellFoundedInduction

-----------------------------------------------------------------------------
\* Induction over the naturals: a set of counterexamples has a least one.
LEMMA LeastElement ==
  ASSUME NEW T, T \subseteq Nat, T # {}
  PROVE  \E m \in T : \A k \in T : m <= k
  <1>1. PICK m \in T : \A k \in T : ~(<<k, m>> \in OpToRel(<, Nat))
    BY NatLessThanWellFounded, WFMin, Zenon
  <1>2. \A k \in T : ~(k < m)
    <2> TAKE k \in T
    <2>1. k \in Nat /\ m \in Nat
      OBVIOUS
    <2> QED BY Zenon, <1>1, <2>1 DEF OpToRel
  <1> QED BY <1>2

\* A set taken apart by one element.
LEMMA Without ==
  ASSUME NEW X, IsFiniteSet(X), NEW x \in X
  PROVE  /\ IsFiniteSet(X \ {x}) /\ Cardinality(X) \in Nat
         /\ Cardinality(X \ {x}) \in Nat
         /\ Cardinality(X \ {x}) = Cardinality(X) - 1
         /\ Cardinality(X \ {x}) < Cardinality(X)
  <1>1. /\ IsFiniteSet(X \ {x}) /\ Cardinality(X \ {x}) = Cardinality(X) - 1
        /\ Cardinality(X) \in Nat
    BY FS_RemoveElement, FS_CardinalityType
  <1>2. Cardinality(X \ {x}) \in Nat
    BY <1>1, FS_CardinalityType
  <1> QED BY <1>1, <1>2

\* R is a strict total order of S.
Orders(R, S) ==
    /\ \A a, b \in S : a = b \/ <<a, b>> \in R \/ <<b, a>> \in R
    /\ \A a, b, c \in S : <<a, b>> \in R /\ <<b, c>> \in R => <<a, c>> \in R

\* A finite set has a last element in any order.
LEMMA LastExists ==
  ASSUME NEW R, NEW S, IsFiniteSet(S), Orders(R, S), S # {}
  PROVE  \E m \in S : \A a \in S \ {m} : <<a, m>> \in R
  <1> DEFINE Ok(X) == \E m \in X : \A a \in X \ {m} : <<a, m>> \in R
  <1> DEFINE T == {n \in Nat : \E X \in SUBSET S : X # {} /\ Cardinality(X) = n /\ ~Ok(X)}
  <1> SUFFICES ASSUME ~Ok(S) PROVE FALSE
      OBVIOUS
  <1>1. T # {} /\ T \subseteq Nat
    BY FS_CardinalityType
  <1>2. PICK n \in T : \A k \in T : n <= k
    <2> HIDE DEF T
    <2> QED BY Zenon, <1>1, LeastElement
  <1>3. PICK X \in SUBSET S : X # {} /\ Cardinality(X) = n /\ ~Ok(X)
    BY <1>2
  <1>4. PICK x \in X : TRUE
    BY <1>3
  <1> DEFINE Y == X \ {x}
  <1>5. IsFiniteSet(Y) /\ Cardinality(Y) \in Nat /\ Cardinality(Y) < n
    <2>1. IsFiniteSet(X)
      BY FS_Subset
    <2> QED BY <1>3, <2>1, Without
  <1>6. Y # {}
    <2> SUFFICES ASSUME Y = {} PROVE FALSE
        OBVIOUS
    <2> QED BY <1>3
  <1>7. Ok(Y)
    <2>1. Cardinality(Y) \notin T
      <3> HIDE DEF T, Y
      <3> QED BY <1>1, <1>2, <1>5
    <2> QED BY ZenonT(30), <1>5, <1>6, <2>1
  <1>8. PICK m \in Y : \A a \in Y \ {m} : <<a, m>> \in R
    BY <1>7
  <1>9. CASE <<x, m>> \in R
    BY Zenon, <1>3, <1>8, <1>9
  <1>10. CASE <<m, x>> \in R
    <2>1. \A a \in X \ {x} : <<a, x>> \in R
      BY Zenon, <1>4, <1>8, <1>10 DEF Orders
    <2> QED BY <1>3, <2>1
  <1> QED BY <1>4, <1>8, <1>9, <1>10 DEF Orders

\* A finite set can be put in any order.
LEMMA SequenceExists ==
  ASSUME NEW R, NEW S, IsFiniteSet(S), Orders(R, S)
  PROVE  \E s \in [1..Cardinality(S) -> S] :
            \A i, j \in 1..Cardinality(S) : i < j => <<s[i], s[j]>> \in R
  <1> DEFINE Sorted(s, k) == \A i, j \in 1..k : i < j => <<s[i], s[j]>> \in R
  <1> DEFINE Ok(X) == \E s \in [1..Cardinality(X) -> X] : Sorted(s, Cardinality(X))
  <1> DEFINE T == {n \in Nat : \E X \in SUBSET S : Cardinality(X) = n /\ ~Ok(X)}
  <1> SUFFICES ASSUME ~Ok(S) PROVE FALSE
      OBVIOUS
  <1>1. T # {} /\ T \subseteq Nat
    BY FS_CardinalityType
  <1>2. PICK n \in T : \A k \in T : n <= k
    <2> HIDE DEF T
    <2> QED BY ZenonT(30), <1>1, LeastElement
  <1>3. PICK X \in SUBSET S : Cardinality(X) = n /\ ~Ok(X)
    BY <1>2
  <1>4. IsFiniteSet(X) /\ Orders(R, X)
    BY FS_Subset DEF Orders
  <1>5. X # {}
    <2> SUFFICES ASSUME X = {} PROVE FALSE
        OBVIOUS
    <2>1. Cardinality(X) = 0
      BY FS_EmptySet
    <2>2. [i \in 1..0 |-> i] \in [1..0 -> X] /\ Sorted([i \in 1..0 |-> i], 0)
      OBVIOUS
    <2>3. Ok(X)
      <3> HIDE DEF Sorted
      <3> QED BY Zenon, <2>1, <2>2
    <2> QED BY <1>3, <2>3
  <1>6. PICK m \in X : \A a \in X \ {m} : <<a, m>> \in R
    BY <1>4, <1>5, LastExists
  <1> DEFINE Y == X \ {m}
  <1>7. Cardinality(Y) \in Nat /\ Cardinality(Y) = n - 1 /\ Cardinality(Y) < n
    BY Zenon, <1>3, <1>4, Without
  <1>8. Ok(Y)
    <2>1. Cardinality(Y) \notin T
      <3> HIDE DEF T, Y
      <3> QED BY <1>1, <1>2, <1>7
    <2> QED BY ZenonT(30), <1>7, <2>1
  <1>9. PICK s \in [1..(n - 1) -> Y] : Sorted(s, n - 1)
    BY ZenonT(30), <1>7, <1>8
  <1> DEFINE u == [i \in 1..n |-> IF i = n THEN m ELSE s[i]]
  <1>10. n \in Nat /\ \A i \in 1..n : i = n \/ i \in 1..(n - 1)
    BY <1>1, <1>2
  <1>11. u \in [1..n -> X]
    BY <1>9, <1>10
  <1>12. Sorted(u, n)
    <2> SUFFICES ASSUME NEW i \in 1..n, NEW j \in 1..n, i < j
                 PROVE  <<u[i], u[j]>> \in R
        OBVIOUS
    <2>1. i # n /\ i \in 1..(n - 1) /\ u[i] = s[i] /\ s[i] \in Y
      BY <1>9, <1>10
    <2>2. CASE j = n
      BY <1>6, <2>1, <2>2
    <2>3. CASE j # n
      <3>1. j \in 1..(n - 1) /\ u[j] = s[j]
        BY <1>10, <2>3
      <3> QED BY <1>9, <2>1, <3>1
    <2> QED BY <2>2, <2>3
  <1> QED BY ZenonT(30), <1>3, <1>11, <1>12

\* A sequence without repetitions, and one that lists the set S.
Distinct(s) == \A i, j \in DOMAIN s : s[i] = s[j] => i = j
Lists(s, S) == s \in Seq(S) /\ Range(s) = S /\ Distinct(s)

\* What is in a strict order lists the set.
LEMMA OrderLists ==
  ASSUME NEW R, NEW S, IsFiniteSet(S), \A a \in S : <<a, a>> \notin R,
         NEW s \in [1..Cardinality(S) -> S],
         \A i, j \in 1..Cardinality(S) : i < j => <<s[i], s[j]>> \in R
  PROVE  Lists(s, S)
  <1> DEFINE n == Cardinality(S)
  <1>1. n \in Nat
    BY FS_CardinalityType
  <1>2. s \in Seq(S) /\ DOMAIN s = 1..n
    BY <1>1
  <1>3. \A i, j \in 1..n : s[i] = s[j] => i = j
    <2> SUFFICES ASSUME NEW i \in 1..n, NEW j \in 1..n, s[i] = s[j], i # j PROVE FALSE
        OBVIOUS
    <2>1. i < j \/ j < i
      BY <1>1
    <2> QED BY Zenon, <2>1
  <1>4. Range(s) = S
    <2>1. s \in Injection(1..n, S)
      BY <1>3 DEF Injection, IsInjective
    <2>2. IsFiniteSet(1..n) /\ Cardinality(1..n) = n
      BY <1>1, FS_Interval
    <2>3. s \in Surjection(1..n, S)
      BY <2>1, <2>2, FS_Injection
    <2> QED BY <1>2, <2>3 DEF Surjection, Range
  <1> QED BY <1>2, <1>3, <1>4 DEF Lists, Distinct

-----------------------------------------------------------------------------
USE PathAssumption

\* From a path, its parents lead to the root: the recursion of Above unfolds.
LEMMA AboveUnfolds ==
  \A p \in Path : Above[p] = {p} \cup IF p = RootPath THEN {} ELSE Above[Parent[p]]
  <1> DEFINE Closed(S) == \A q \in S : q = RootPath \/ Parent[q] \in S
  <1> DEFINE W == [p \in Path |-> {q \in Path :
                      \A S \in SUBSET Path : p \in S /\ Closed(S) => q \in S}]
  <1>1. ASSUME NEW p \in Path PROVE W[p] \in SUBSET Path /\ p \in W[p] /\ Closed(W[p])
    OBVIOUS
  <1>2. ASSUME NEW p \in Path
        PROVE  W[p] = {p} \cup IF p = RootPath THEN {} ELSE W[Parent[p]]
    <2>1. CASE p = RootPath
      <3>1. {p} \in SUBSET Path /\ Closed({p})
        BY <2>1
      <3>2. \A q \in W[p] : q \in {p}
        BY Zenon, <3>1
      <3> HIDE DEF W, Closed
      <3> QED BY <1>1, <2>1, <3>2
    <2>2. CASE p # RootPath
      <3> DEFINE q == Parent[p]
      <3>1. q \in Path
        OBVIOUS
      <3>2. {p} \cup W[q] \in SUBSET Path /\ Closed({p} \cup W[q])
        <4> HIDE DEF W
        <4> QED BY Zenon, <1>1, <3>1
      <3>3. W[p] \subseteq {p} \cup W[q]
        <4> SUFFICES ASSUME NEW r \in W[p] PROVE r \in {p} \cup W[q]
            BY Zenon
        <4>1. \A S \in SUBSET Path : p \in S /\ Closed(S) => r \in S
          OBVIOUS
        <4> HIDE DEF W, Closed
        <4> QED BY <3>2, <4>1
      <3>4. W[q] \subseteq W[p]
        BY <2>2, <3>1
      <3> HIDE DEF W
      <3> QED BY <1>1, <2>2, <3>3, <3>4
    <2> QED BY ZenonT(30), <2>1, <2>2
  <1> DEFINE Eq(f) ==
        f = [p \in Path |-> {p} \cup IF p = RootPath THEN {} ELSE f[Parent[p]]]
  <1>3. Eq(W)
    <2>1. W = [p \in Path |-> W[p]]
      OBVIOUS
    <2> HIDE DEF W
    <2> QED BY <1>2, <2>1
  <1>4. Above = CHOOSE f : Eq(f)
    BY DEF Above
  <1>5. Eq(Above)
    <2> HIDE DEF W, Eq
    <2> QED BY <1>3, <1>4
  <1> QED BY Zenon, <1>5

\* Induction along the parents of a path.
LEMMA TowardsRoot ==
  ASSUME NEW S \in SUBSET Path, S # {},
         \A p \in S : p # RootPath /\ Parent[p] \in S
  PROVE  FALSE
  BY RootedAssumption

\* What is above a path: paths, the path itself, the root, and with a path what
\* is above it.
LEMMA AboveIs ==
  ASSUME NEW p \in Path
  PROVE  /\ Above[p] \in SUBSET Path /\ IsFiniteSet(Above[p])
         /\ p \in Above[p] /\ RootPath \in Above[p]
         /\ \A q \in Above[p] : q = RootPath \/ Parent[q] \in Above[p]
         /\ \A q \in Above[p] : Above[q] \subseteq Above[p]
  <1> DEFINE Closed(U) == \A q \in U : q = RootPath \/ Parent[q] \in U
  <1> DEFINE Ok(x) == /\ Above[x] \in SUBSET Path
                      /\ x \in Above[x] /\ RootPath \in Above[x]
                      /\ Closed(Above[x])
                      /\ \A q \in Above[x] : Above[q] \subseteq Above[x]
  <1> DEFINE S == {x \in Path : ~Ok(x)}
  <1>1. ASSUME NEW x \in S PROVE x # RootPath /\ Parent[x] \in S
    <2>1. CASE x = RootPath
      <3>1. Above[x] = {x}
        BY <2>1, AboveUnfolds
      <3> QED BY <2>1, <3>1
    <2>2. CASE x # RootPath /\ Ok(Parent[x])
      <3>1. Parent[x] \in Path /\ Above[x] = {x} \cup Above[Parent[x]]
        BY <2>2, AboveUnfolds
      <3> QED BY <2>2, <3>1
    <2> QED BY <2>1, <2>2
  <1>2. S = {}
    <2> HIDE DEF S
    <2>1. S \in SUBSET Path
      BY DEF S
    <2> QED BY <1>1, <2>1, TowardsRoot
  <1>3. Ok(p)
    BY <1>2
  <1> QED BY <1>3, FS_Subset

\* A path is not above its parent.
LEMMA ParentIsAbove ==
  ASSUME NEW p \in Path, p # RootPath
  PROVE  /\ Parent[p] \in Path /\ Above[p] = {p} \cup Above[Parent[p]]
         /\ p \notin Above[Parent[p]]
  <1>1. Parent[p] \in Path /\ Above[p] = {p} \cup Above[Parent[p]]
    BY AboveUnfolds
  <1>2. SUFFICES ASSUME p \in Above[Parent[p]] PROVE FALSE
    BY <1>1
  <1> DEFINE S == {q \in Path : p \in Above[q]}
  <1>3. ASSUME NEW q \in S PROVE q # RootPath /\ Parent[q] \in S
    <2>1. q # RootPath
      BY AboveUnfolds
    <2>2. Parent[q] \in Path /\ Above[q] = {q} \cup Above[Parent[q]]
      BY <2>1, AboveUnfolds
    <2> QED BY <1>2, <2>1, <2>2
  <1>4. S \in SUBSET Path /\ S # {}
    BY AboveIs
  <1> HIDE DEF S
  <1> QED BY <1>3, <1>4, TowardsRoot

\* Two paths are not above each other.
LEMMA AboveOneWay ==
  ASSUME NEW p \in Path, NEW q \in Above[p], p \in Above[q]
  PROVE  p = q
  <1> SUFFICES ASSUME p # q PROVE FALSE
      OBVIOUS
  <1>1. q \in Path /\ Above[q] \subseteq Above[p] /\ Above[p] \subseteq Above[q]
    BY Zenon, AboveIs
  <1>2. p # RootPath
    BY AboveUnfolds
  <1>3. q \in Above[Parent[p]]
    BY <1>2, ParentIsAbove
  <1>4. p \in Above[Parent[p]]
    BY Zenon, <1>2, <1>3, AboveIs, ParentIsAbove
  <1> QED BY <1>2, <1>4, ParentIsAbove

\* Between a path and a directory it is in, there is an entry of the directory.
LEMMA EntryBetween ==
  ASSUME NEW p \in Path, NEW q \in Above[p], q # p
  PROVE  \E c \in Above[p] : c \in Children(q)
  <1> DEFINE S == {x \in Above[p] : q \in Above[x] /\ q # x}
  <1> SUFFICES ASSUME \A c \in Above[p] : c \notin Children(q) PROVE FALSE
      OBVIOUS
  <1>1. S \in SUBSET Path /\ S # {}
    BY AboveIs
  <1>2. ASSUME NEW x \in S PROVE x # RootPath /\ Parent[x] \in S
    <2>1. x \in Path /\ x # RootPath
      BY ZenonT(30), <1>1, AboveUnfolds
    <2>2. q \in Above[Parent[x]] /\ Parent[x] \in Above[p]
      BY <2>1, AboveIs, ParentIsAbove
    <2>3. Parent[x] # q
      BY <2>1 DEF Children
    <2> QED BY <2>1, <2>2, <2>3
  <1> HIDE DEF S
  <1> QED BY <1>1, <1>2, TowardsRoot

\* path_depth: an entry is one deeper than its directory.
LEMMA DepthOfEntry ==
  ASSUME NEW p \in Path, p # RootPath
  PROVE  /\ Depth(p) \in Nat /\ Depth(Parent[p]) \in Nat
         /\ Depth(p) = Depth(Parent[p]) + 1
  <1> DEFINE D == Above[Parent[p]] \ {RootPath}
  <1>1. Above[p] \ {RootPath} = D \cup {p} /\ p \notin D /\ IsFiniteSet(D)
    BY ParentIsAbove, AboveIs, FS_Subset
  <1>2. Cardinality(D \cup {p}) = Cardinality(D) + 1 /\ Cardinality(D) \in Nat
    <2> HIDE DEF D
    <2> QED BY Zenon, <1>1, FS_AddElement, FS_CardinalityType
  <1> QED BY <1>1, <1>2 DEF Depth

-----------------------------------------------------------------------------
\* The entries of a directory are listed, each once.
LEMMA EntriesListed ==
  ASSUME NEW S \in SUBSET Path
  PROVE  Lists(ByName(S), S)
  <1> DEFINE R == {x \in S \X S : x[1] < x[2]}
  <1> DEFINE n == Cardinality(S)
  <1> DEFINE In(s) == \A i, j \in DOMAIN s : i < j => s[i] < s[j]
  <1>1. IsFiniteSet(S) /\ Orders(R, S) /\ \A a \in S : <<a, a>> \notin R
    <2>1. \A a \in S : a \in Nat
      OBVIOUS
    <2>2. \A a, b \in S : <<a, b>> \in R <=> a < b
      OBVIOUS
    <2> HIDE DEF R
    <2>3. \A a, b \in S : a = b \/ a < b \/ b < a
      BY <2>1
    <2>4. \A a, b, c \in S : a < b /\ b < c => a < c
      BY <2>1
    <2>5. \A a \in S : ~(a < a)
      BY <2>1
    <2>6. IsFiniteSet(S)
      BY Zenon, FS_Subset
    <2> QED BY <2>2, <2>3, <2>4, <2>5, <2>6, ZenonT(30) DEF Orders
  <1>2. \E s \in [1..n -> S] : In(s)
    <2>1. PICK s \in [1..n -> S] : \A i, j \in 1..n : i < j => <<s[i], s[j]>> \in R
      <3> HIDE DEF R
      <3> QED BY <1>1, SequenceExists
    <2> QED BY ZenonT(30), <2>1
  <1> DEFINE s == ByName(S)
  <1>3. s \in [1..n -> S] /\ In(s)
    BY Zenon, <1>2 DEF ByName, InOrder
  <1> HIDE DEF s
  <1>4. \A i, j \in 1..n : i < j => <<s[i], s[j]>> \in R
    BY <1>3
  <1>5. Lists(s, S)
    <2> HIDE DEF R
    <2> QED BY ZenonT(30), <1>1, <1>3, <1>4, OrderLists
  <1> QED BY <1>5 DEF s

\* The sort of scan_local_directory_with_options lists the directories, each
\* once, the deepest first.
LEMMA DeepestListed ==
  ASSUME NEW S \in SUBSET Path
  PROVE  /\ Lists(DeepestFirst(S), S)
         /\ \A i, j \in DOMAIN DeepestFirst(S) :
               i < j => Depth(DeepestFirst(S)[i]) >= Depth(DeepestFirst(S)[j])
  <1> DEFINE Deep(a, b) == Depth(a) > Depth(b) \/ (Depth(a) = Depth(b) /\ a < b)
  <1> DEFINE R == {x \in S \X S : Deep(x[1], x[2])}
  <1> DEFINE n == Cardinality(S)
  <1> DEFINE In(s) == \A i, j \in DOMAIN s : i < j => Deep(s[i], s[j])
  <1>0. \A a \in S : a \in Nat /\ Depth(a) \in Nat
    <2> SUFFICES ASSUME NEW a \in S PROVE Depth(a) \in Nat
        OBVIOUS
    <2>1. IsFiniteSet(Above[a] \ {RootPath})
      BY AboveIs, FS_Subset
    <2> QED BY <2>1, FS_CardinalityType DEF Depth
  <1>1. IsFiniteSet(S) /\ Orders(R, S) /\ \A a \in S : <<a, a>> \notin R
    <2>1. \A a, b \in S : <<a, b>> \in R <=> Deep(a, b)
      OBVIOUS
    <2> HIDE DEF R
    <2>3. \A a, b \in S : a = b \/ Deep(a, b) \/ Deep(b, a)
      BY <1>0
    <2>4. \A a, b, c \in S : Deep(a, b) /\ Deep(b, c) => Deep(a, c)
      BY <1>0
    <2>5. \A a \in S : ~(Deep(a, a))
      BY <1>0
    <2>6. IsFiniteSet(S)
      BY Zenon, FS_Subset
    <2> QED BY <2>1, <2>3, <2>4, <2>5, <2>6, ZenonT(30) DEF Orders
  <1>2. \E s \in [1..n -> S] : In(s)
    <2>1. PICK s \in [1..n -> S] : \A i, j \in 1..n : i < j => <<s[i], s[j]>> \in R
      <3> HIDE DEF R
      <3> QED BY <1>1, SequenceExists
    <2> QED BY Zenon, <2>1
  <1> DEFINE s == DeepestFirst(S)
  <1>3. s \in [1..n -> S] /\ In(s)
    BY Zenon, <1>2 DEF DeepestFirst, InOrder
  <1> HIDE DEF s
  <1>4. \A i, j \in 1..n : i < j => <<s[i], s[j]>> \in R
    BY <1>3
  <1>5. Lists(s, S)
    <2> HIDE DEF R
    <2> QED BY ZenonT(30), <1>1, <1>3, <1>4, OrderLists
  <1>6. ASSUME NEW i \in DOMAIN s, NEW j \in DOMAIN s, i < j
        PROVE  Depth(s[i]) >= Depth(s[j])
    <2>1. s[i] \in S /\ s[j] \in S /\ Deep(s[i], s[j])
      BY <1>3, <1>6
    <2>2. Depth(s[i]) \in Nat /\ Depth(s[j]) \in Nat
      BY ZenonT(30), <1>0, <2>1
    <2> QED BY <2>1, <2>2
  <1> QED BY <1>5, <1>6 DEF s

-----------------------------------------------------------------------------
\* w[n] is what is reachable from d in n steps.
Within(d, n, w) ==
    w = [i \in 0..n |-> IF i = 0 THEN {d} ELSE w[i - 1] \cup Contents(w[i - 1])]

\* For every number of steps there is a set of digests.
LEMMA WithinExists ==
  ASSUME NEW d, NEW n \in Nat
  PROVE  \E w : Within(d, n, w)
  <1> DEFINE T == {k \in Nat : ~\E w : Within(d, k, w)}
  <1> SUFFICES ASSUME T # {} PROVE FALSE
      OBVIOUS
  <1>1. PICK k \in T : \A j \in T : k <= j
    <2>1. T \subseteq Nat
      OBVIOUS
    <2> HIDE DEF T
    <2> QED BY ZenonT(30), <2>1, LeastElement
  <1>2. CASE k = 0
    <2>1. Within(d, 0, [i \in 0..0 |-> {d}])
      BY DEF Within
    <2> QED BY <1>1, <1>2, <2>1
  <1>3. CASE k # 0
    <2>1. k \in Nat /\ k - 1 \in Nat /\ ~(k <= k - 1)
      BY <1>1, <1>3
    <2>2. PICK w : Within(d, k - 1, w)
      BY <1>1, <2>1
    <2> DEFINE more == w[k - 1] \cup Contents(w[k - 1])
    <2> DEFINE g == [i \in 0..k |-> IF i = k THEN more ELSE w[i]]
    <2>3. \A i \in 0..(k - 1) : w[i] = IF i = 0 THEN {d} ELSE w[i - 1] \cup Contents(w[i - 1])
      BY ZenonT(30), <2>2 DEF Within
    <2>4. ASSUME NEW i \in 0..k
          PROVE  g[i] = IF i = 0 THEN {d} ELSE g[i - 1] \cup Contents(g[i - 1])
      <3>1. CASE i = k
        <4>1. k - 1 \in 0..k /\ k - 1 # k /\ k \in 0..k
          BY <2>1
        <4>2. g[k - 1] = w[k - 1] /\ g[k] = more
          BY <4>1
        <4> QED BY <1>3, <3>1, <4>2
      <3>2. CASE i # k
        <4>1. i \in 0..(k - 1) /\ (i # 0 => i - 1 \in 0..k /\ i - 1 # k)
          BY <2>1, <3>2
        <4>2. g[i] = w[i] /\ (i # 0 => g[i - 1] = w[i - 1])
          BY <3>2, <4>1
        <4> QED BY ZenonT(30), <2>3, <4>1, <4>2
      <3> QED BY ZenonT(30), <3>1, <3>2
    <2>5. Within(d, k, g)
      <3>1. g = [i \in 0..k |-> IF i = 0 THEN {d} ELSE g[i - 1] \cup Contents(g[i - 1])]
        <4>1. g = [i \in 0..k |-> g[i]]
          OBVIOUS
        <4> HIDE DEF g
        <4> QED BY ZenonT(30), <2>4, <4>1
      <3> HIDE DEF g
      <3> QED BY <3>1 DEF Within
    <2> QED BY <1>1, <2>5
  <1> QED BY <1>2, <1>3

\* What is reachable from a digest is reached in some number of steps.
LEMMA ReachIs ==
  ASSUME NEW d
  PROVE  \E w : /\ Reach(d) = w[Cardinality(Path)] /\ w[0] = {d}
                /\ \A i \in 1..Cardinality(Path) : w[i] = w[i - 1] \cup Contents(w[i - 1])
  <1>1. PICK n \in Nat : n = Cardinality(Path)
    BY PathAssumption, FS_CardinalityType
  <1>2. PICK w : w = CHOOSE f : Within(d, n, f)
    OBVIOUS
  <1>3. Within(d, n, w)
    BY <1>2, WithinExists
  <1>4. Reach(d) = w[n]
    BY <1>1, <1>2 DEF Reach, Within
  <1>5. w[0] = {d} /\ \A i \in 1..n : w[i] = w[i - 1] \cup Contents(w[i - 1])
    <2>1. \A i \in 0..n : w[i] = IF i = 0 THEN {d} ELSE w[i - 1] \cup Contents(w[i - 1])
      BY ZenonT(30), <1>3 DEF Within
    <2>2. 0 \in 0..n /\ \A i \in 1..n : i \in 0..n /\ i # 0
      OBVIOUS
    <2> QED BY Zenon, <2>1, <2>2
  <1> QED BY <1>1, <1>4, <1>5

\* A set with d and with the contents of its directories has what is reachable.
LEMMA ReachStays ==
  ASSUME NEW d, NEW X, d \in X, Contents(X) \subseteq X
  PROVE  Reach(d) \subseteq X
  <1>1. PICK n \in Nat : n = Cardinality(Path)
    BY PathAssumption, FS_CardinalityType
  <1>2. PICK w : /\ Reach(d) = w[n] /\ w[0] = {d}
                 /\ \A i \in 1..n : w[i] = w[i - 1] \cup Contents(w[i - 1])
    BY <1>1, ReachIs
  <1> DEFINE T == {i \in 0..n : ~(w[i] \subseteq X)}
  <1>3. SUFFICES ASSUME T # {} PROVE FALSE
    BY <1>2
  <1>4. PICK i \in T : \A j \in T : i <= j
    <2>1. T \subseteq Nat
      OBVIOUS
    <2> HIDE DEF T
    <2> QED BY ZenonT(30), <1>3, <2>1, LeastElement
  <1>5. i # 0
    BY <1>2, <1>4
  <1>6. i \in 1..n /\ i - 1 \in 0..n /\ ~(i <= i - 1)
    BY <1>4, <1>5
  <1>7. w[i - 1] \subseteq X
    BY <1>4, <1>6
  <1>8. Contents(w[i - 1]) \subseteq X
    BY <1>7 DEF Contents
  <1> QED BY <1>2, <1>4, <1>6, <1>7, <1>8

\* What is reached in fewer steps is reachable.
LEMMA ReachGrows ==
  ASSUME NEW w, NEW n \in Nat, NEW m \in 0..n, NEW x \in w[m],
         \A i \in 1..n : w[i] = w[i - 1] \cup Contents(w[i - 1])
  PROVE  x \in w[n]
  <1> DEFINE T == {i \in m..n : x \notin w[i]}
  <1>1. SUFFICES ASSUME T # {} PROVE FALSE
    OBVIOUS
  <1>2. PICK i \in T : \A j \in T : i <= j
    <2>1. T \subseteq Nat
      OBVIOUS
    <2> HIDE DEF T
    <2> QED BY ZenonT(30), <1>1, <2>1, LeastElement
  <1>3. i # m
    BY <1>2
  <1>4. i \in 1..n /\ i - 1 \in m..n /\ ~(i <= i - 1)
    BY <1>2, <1>3
  <1>5. x \in w[i - 1]
    BY <1>2, <1>4
  <1> QED BY <1>2, <1>4, <1>5

-----------------------------------------------------------------------------
\* The units of data of the files and links there may be.
Byte == UNION {Range(n.data) : n \in UNION {Local[p] : p \in Path}}
Job == [st : {"run", "ok", "bad"}, got : Seq(Byte)]
Active == {"scan", "hash", "encode", "find", "upload"}

Typed ==
    /\ fs \in [Path -> UNION {Local[p] : p \in Path}]
    /\ \A p \in Path : fs[p] \in Local[p]
    /\ touched \in Seq(Path \ {RootPath})
    /\ opt \in Options
    /\ pc \in Active \cup {"idle", "done"}
    /\ todo \in Seq(Path)
    /\ DOMAIN scanned \subseteq Path
    /\ \A p \in DOMAIN scanned : scanned[p] \in Local[p] /\ scanned[p].kind \in Kinds
    /\ DOMAIN job \subseteq Path
    /\ \A p \in DOMAIN job : job[p] \in Job

\* The scan: what it found and what it has yet to look at hang together, no
\* path comes twice, and a path nobody changed is what it was.
ScanInv ==
    /\ \A p \in (DOMAIN scanned \cup Range(todo)) \ {RootPath} :
          Parent[p] \in DOMAIN scanned /\ scanned[Parent[p]].kind = "dir"
    /\ Distinct(todo)
    /\ Range(todo) \cap DOMAIN scanned = {}
    /\ Lists(files, {p \in DOMAIN scanned : scanned[p].kind = "file"})
    /\ \A p \in DOMAIN scanned \ Range(touched) : scanned[p] = fs[p]
    /\ pc \in Active \ {"scan"} => todo = <<>>
    /\ pc = "idle" => DOMAIN scanned = {} /\ result = NoDigest

Untouched(p) == Above[p] \cap Range(touched) = {}

\* Nothing is missed: a path that exists below directories nobody changed has
\* been found, or it or a directory it is in is still to be looked at.
CoverInv ==
    pc \in Active \/ result # NoDigest =>
        /\ fs[RootPath].kind = "dir"
        /\ result # NoDigest => todo = <<>>
        /\ \A p \in Path : Untouched(p) /\ Exists(p) /\ fs[p].kind \in Kinds =>
              p \in DOMAIN scanned \/ Above[p] \cap Range(todo) # {}

\* The files have their digests.
Settled == pc \in {"encode", "find", "upload"} \/ missing # {} \/ result # NoDigest

\* The hash tasks: the files in their order, what each has read, and that all
\* are done when the tree is encoded.
JobInv ==
    /\ pc \in {"idle", "scan"} => DOMAIN job = {}
    /\ DOMAIN job = {files[k] : k \in 1..Cardinality(DOMAIN job)}
    /\ Cardinality(DOMAIN job) <= Len(files)
    /\ Cardinality(Running) <= opt.workers
    /\ \A p \in DOMAIN job : job[p].st = "ok" => Hashed(p)
    /\ \A p \in DOMAIN job \ Range(touched) :
          /\ Len(job[p].got) <= Len(scanned[p].data)
          /\ job[p].got = SubSeq(scanned[p].data, 1, Len(job[p].got))
    /\ Settled =>
          DOMAIN job = Range(files) /\ \A p \in DOMAIN job : job[p].st = "ok"

\* The directories that the scan found, in their order.
Listed == pc \in {"hash", "encode", "find", "upload"} \/ result # NoDigest

\* The directories: those without a digest are listed deepest first, the others
\* have the digest of their entries.
DirsInv ==
    /\ pc \in {"idle", "scan", "hash"} => DOMAIN encoded = {}
    /\ Listed =>
          /\ Lists(dirs, {p \in DOMAIN scanned : scanned[p].kind = "dir"} \ DOMAIN encoded)
          /\ \A i, j \in DOMAIN dirs : i < j => Depth(dirs[i]) >= Depth(dirs[j])
          /\ \A p \in DOMAIN encoded : p \in DOMAIN scanned /\ scanned[p].kind = "dir"
          /\ \A p \in DOMAIN encoded : \A c \in Children(p) \cap DOMAIN scanned :
                scanned[c].kind = "dir" => c \in DOMAIN encoded
          /\ \A p \in DOMAIN encoded :
                encoded[p] = DirDigest({Entry(c) : c \in Children(p) \cap DOMAIN scanned})
    /\ pc \in {"find", "upload"} \/ result # NoDigest => dirs = <<>>

\* The upload: what is wanted is in the store or still missing.
StoreInv ==
    /\ pc \in {"idle", "scan", "hash", "encode", "find"} => missing = {}
    /\ missing # {} => missing \subseteq Wanted
    /\ pc = "upload" => Wanted \subseteq remote \cup missing
    /\ result # NoDigest =>
          pc = "done" /\ result = encoded[RootPath] /\ Wanted \subseteq remote

\* encode_directories never finds a directory without a digest.
CauseInv == cause \in {"none", "option", "filesystem", "unsupported", "hash", "cas",
                       "unexpected"}

UInv == /\ Typed /\ ScanInv /\ CoverInv /\ JobInv /\ DirsInv /\ StoreInv /\ CauseInv

\* Initially nothing has been looked at.
LEMMA InitUInv == Init => UInv
  <1> SUFFICES ASSUME Init PROVE UInv
      OBVIOUS
  <1> USE DEF Init
  <1>1. Typed
    BY DEF Typed, Active
  <1>2. ScanInv /\ CoverInv
    BY DEF ScanInv, CoverInv, Lists, Distinct, Range, Active
  <1>3. JobInv
    <2>1. DOMAIN job = {} /\ Running = {} /\ opt.workers \in Nat
      BY SMTT(30), OptionAssumption DEF Running
    <2> QED BY SMTT(30), <2>1, FS_EmptySet DEF JobInv, Settled
  <1>4. DirsInv
    BY DEF DirsInv, Listed
  <1>5. StoreInv /\ CauseInv
    BY DEF StoreInv, CauseInv
  <1> QED BY SMTT(30), <1>1, <1>2, <1>3, <1>4, <1>5 DEF UInv

\* What may be at a path is a sequence of bytes.
LEMMA DataType ==
  ASSUME NEW p \in Path, NEW n \in Local[p]
  PROVE  n.data \in Seq(Byte)
  <1>1. n.data \in Seq(Range(n.data))
    BY LocalAssumption
  <1>2. Range(n.data) \subseteq Byte
    BY DEF Byte
  <1> QED BY <1>1, <1>2

\* Reading on extends the prefix that has been read.
LEMMA PrefixGrows ==
  ASSUME NEW B, NEW d \in Seq(B), NEW n \in 0..Len(d), NEW e \in n..Len(d)
  PROVE  /\ SubSeq(d, 1, n) \o SubSeq(d, n + 1, e) = SubSeq(d, 1, e)
         /\ Len(SubSeq(d, 1, e)) = e
         /\ SubSeq(d, 1, Len(d)) = d
  OBVIOUS

-----------------------------------------------------------------------------
\* The smaller and the larger of two numbers.
LEMMA TwoNumbers ==
  ASSUME NEW a \in Nat, NEW b \in Nat
  PROVE  /\ Min({a, b}) \in {a, b} /\ Min({a, b}) <= a /\ Min({a, b}) <= b
         /\ Max({a, b}) \in {a, b} /\ Max({a, b}) >= a /\ Max({a, b}) >= b
  <1>1. \E x \in {a, b} : \A y \in {a, b} : x <= y
    OBVIOUS
  <1>2. \E x \in {a, b} : \A y \in {a, b} : x >= y
    OBVIOUS
  <1> QED BY <1>1, <1>2 DEF Min, Max

\* hash_chunk_bytes: a buffer holds a byte at least, and as many buffers as
\* there are workers fit the budget if it has a byte for each.
LEMMA ChunkIs ==
  ASSUME opt \in Options, opt.workers > 0
  PROVE  /\ ChunkBytes \in Nat \ {0}
         /\ opt.inFlight >= opt.workers => opt.workers * ChunkBytes <= opt.inFlight
  <1> DEFINE w == opt.workers
  <1> DEFINE f == opt.inFlight
  <1>1. w \in Nat \ {0} /\ f \in Nat /\ HashChunk \in Nat \ {0}
    BY OptionAssumption
  <1>2. PICK q : q = f \div w
    OBVIOUS
  <1>3. q \in Nat /\ w * q <= f /\ (f >= w => q >= 1)
    BY <1>1, <1>2
  <1>4. PICK m : m = Max({q, 1})
    OBVIOUS
  <1>5. m \in Nat \ {0} /\ (f >= w => m = q)
    BY SMTT(30), <1>1, <1>3, <1>4, TwoNumbers
  <1>6. ChunkBytes = Min({HashChunk, m})
    BY <1>2, <1>4 DEF ChunkBytes
  <1>7. ChunkBytes \in Nat \ {0} /\ ChunkBytes <= m
    BY SMTT(30), <1>1, <1>5, <1>6, TwoNumbers
  <1>8. ASSUME NEW x \in Nat, x <= q PROVE w * x <= f
    <2>1. w * x <= w * q
      BY <1>1, <1>3, <1>8
    <2> QED BY SMTT(30), <1>1, <1>3, <1>8, <2>1
  <1> QED BY <1>5, <1>7, <1>8

\* The tasks at work are finitely many.
LEMMA RunningFinite ==
  ASSUME Typed
  PROVE  /\ IsFiniteSet(DOMAIN job) /\ Cardinality(DOMAIN job) \in Nat
         /\ IsFiniteSet(Running) /\ Cardinality(Running) \in Nat
         /\ Running # {} => Cardinality(Running) >= 1
  <1>1. IsFiniteSet(DOMAIN job) /\ IsFiniteSet(Running)
    BY SMTT(30), FS_Subset DEF Typed, Running
  <1>2. Running # {} => Cardinality(Running) # 0
    BY <1>1, FS_EmptySet
  <1> QED BY SMTT(30), <1>1, <1>2, FS_CardinalityType

\* A task with another state, or with more read.
LEMMA JobUpdate ==
  ASSUME NEW p \in DOMAIN job, job[p] \in Job, NEW x
  PROVE  /\ [job EXCEPT ![p].got = x] = [job EXCEPT ![p] = [st |-> job[p].st, got |-> x]]
         /\ [job EXCEPT ![p].st = x] = [job EXCEPT ![p] = [st |-> x, got |-> job[p].got]]
  <1>1. /\ [job[p] EXCEPT !.got = x] = [st |-> job[p].st, got |-> x]
        /\ [job[p] EXCEPT !.st = x] = [st |-> x, got |-> job[p].got]
    <2>1. PICK r \in Job : r = job[p]
      OBVIOUS
    <2>2. /\ [r EXCEPT !.got = x] = [st |-> r.st, got |-> x]
          /\ [r EXCEPT !.st = x] = [st |-> x, got |-> r.got]
      BY DEF Job
    <2> QED BY <2>1, <2>2
  <1> QED BY <1>1, Zenon

\* hash_file: a task reads on in the file, or it ends and has read the size that
\* the scan saw, or it fails.
LEMMA HashStep ==
  ASSUME Typed, JobInv, NEW p \in Path, Hash(p) \/ HashFails(p)
  PROVE  /\ p \in DOMAIN job /\ job[p].st = "run"
         /\ \E j \in Job :
               /\ job' = [job EXCEPT ![p] = j]
               /\ j.st = "ok" => j.got = job[p].got /\ Hashed(p)
               /\ \/ j.got = job[p].got
                  \/ \E e \in Len(job[p].got)..Len(fs[p].data) :
                        j.got = job[p].got \o SubSeq(fs[p].data, Len(job[p].got) + 1, e)
  <1>1. p \in DOMAIN job /\ job[p].st = "run" /\ job[p] \in Job
    BY Zenon DEF Hash, HashFails, Running, Typed
  <1> DEFINE got == job[p].got
  <1>2. got \in Seq(Byte) /\ Len(got) \in Nat /\ fs[p].data \in Seq(Byte)
        /\ Len(fs[p].data) \in Nat
    <2>1. got \in Seq(Byte)
      BY <1>1 DEF Job
    <2>2. fs[p].data \in Seq(Byte)
      BY DataType DEF Typed
    <2> QED BY <2>1, <2>2
  <1> DEFINE end == Min({Len(got) + ChunkBytes, Len(fs[p].data)})
  <1>3. end \in Nat /\ end <= Len(fs[p].data)
    <2>1. opt \in Options /\ opt.workers \in Nat
      BY OptionAssumption DEF Typed
    <2>2. opt.workers > 0
      <3>1. Running # {} /\ Cardinality(Running) <= opt.workers
        BY <1>1 DEF Running, JobInv
      <3> QED BY SMTT(30), <2>1, <3>1, RunningFinite
    <2>3. ChunkBytes \in Nat
      BY <2>1, <2>2, ChunkIs
    <2>4. PICK m \in Nat : m = Len(got) + ChunkBytes
      BY <1>2, <2>3
    <2>5. PICK l \in Nat : l = Len(fs[p].data)
      BY <1>2
    <2>6. Min({m, l}) \in Nat /\ Min({m, l}) <= l
      BY TwoNumbers
    <2> QED BY SMTT(30), <2>4, <2>5, <2>6
  <1> HIDE DEF end
  <1>4. CASE /\ end > Len(got)
             /\ job' = [job EXCEPT ![p].got = got \o SubSeq(fs[p].data, Len(got) + 1, end)]
    <2> DEFINE j == [st |-> job[p].st, got |-> got \o SubSeq(fs[p].data, Len(got) + 1, end)]
    <2>1. j \in Job
      BY <1>1, <1>2, <1>3 DEF Job
    <2>2. job' = [job EXCEPT ![p] = j]
      BY <1>1, <1>4, JobUpdate, Zenon
    <2>3. end \in Len(got)..Len(fs[p].data)
      BY <1>2, <1>3, <1>4
    <2> QED BY ZenonT(30), <1>1, <2>1, <2>2, <2>3
  <1>5. CASE job' = [job EXCEPT ![p].st = IF Hashed(p) THEN "ok" ELSE "bad"]
    <2> DEFINE j == [st |-> IF Hashed(p) THEN "ok" ELSE "bad", got |-> got]
    <2>1. j \in Job
      BY <1>2 DEF Job
    <2>2. job' = [job EXCEPT ![p] = j]
      BY Zenon, <1>1, <1>5, JobUpdate
    <2> QED BY ZenonT(30), <1>1, <2>1, <2>2
  <1>6. CASE HashFails(p)
    <2> DEFINE j == [st |-> "bad", got |-> got]
    <2>1. j \in Job
      BY <1>2 DEF Job
    <2>2. job' = [job EXCEPT ![p] = j]
      BY ZenonT(30), <1>1, <1>6, JobUpdate DEF HashFails
    <2> QED BY ZenonT(30), <1>1, <2>1, <2>2
  <1> QED BY ZenonT(30), <1>4, <1>5, <1>6 DEF Hash, end

-----------------------------------------------------------------------------
\* The rest of a sequence without repetitions is what is not its head.
LEMMA TailIs ==
  ASSUME NEW X, NEW s \in Seq(X), s # <<>>, Distinct(s)
  PROVE  /\ Head(s) \in X /\ Head(s) \in Range(s)
         /\ Tail(s) \in Seq(X) /\ Distinct(Tail(s))
         /\ Range(Tail(s)) = Range(s) \ {Head(s)}
  <1>1. /\ Len(s) \in Nat \ {0} /\ DOMAIN s = 1..Len(s) /\ Head(s) = s[1]
        /\ Tail(s) \in Seq(X) /\ DOMAIN Tail(s) = 1..(Len(s) - 1)
        /\ \A i \in 1..(Len(s) - 1) : Tail(s)[i] = s[i + 1]
    OBVIOUS
  <1>2. Head(s) \in X /\ Head(s) \in Range(s)
    BY <1>1 DEF Range
  <1>3. \A i \in 1..(Len(s) - 1) : i + 1 \in 1..Len(s) /\ i + 1 # 1
    BY <1>1
  <1>4. \A i \in 1..Len(s) : i = 1 \/ (i - 1 \in 1..(Len(s) - 1) /\ (i - 1) + 1 = i)
    BY <1>1
  <1>5. Distinct(Tail(s))
    <2> SUFFICES ASSUME NEW i \in 1..(Len(s) - 1), NEW j \in 1..(Len(s) - 1),
                        s[i + 1] = s[j + 1]
                 PROVE  i = j
        BY <1>1 DEF Distinct
    <2>1. i + 1 = j + 1
      BY <1>1, <1>3 DEF Distinct
    <2> QED BY <2>1
  <1>6. Range(Tail(s)) \subseteq Range(s) \ {Head(s)}
    <2> SUFFICES ASSUME NEW i \in 1..(Len(s) - 1) PROVE s[i + 1] \in Range(s) \ {s[1]}
        BY <1>1 DEF Range
    <2>1. i + 1 \in DOMAIN s /\ 1 \in DOMAIN s /\ i + 1 # 1
      BY <1>1, <1>3
    <2> QED BY <2>1 DEF Range, Distinct
  <1>7. Range(s) \ {Head(s)} \subseteq Range(Tail(s))
    <2> SUFFICES ASSUME NEW i \in 1..Len(s), s[i] # s[1] PROVE s[i] \in Range(Tail(s))
        BY <1>1 DEF Range
    <2>1. i - 1 \in DOMAIN Tail(s) /\ Tail(s)[i - 1] = s[i]
      BY <1>1, <1>4
    <2> QED BY ZenonT(30), <2>1 DEF Range
  <1> QED BY SMTT(30), <1>1, <1>2, <1>5, <1>6, <1>7

\* k lists the paths of K, and s has none of them.
Apart(k, K, s) ==
    /\ Lists(k, K) /\ K \subseteq Path
    /\ s \in Seq(Path) /\ Distinct(s) /\ K \cap Range(s) = {}

\* scan_directory goes down before it goes on: the entries of a directory are
\* put before the rest.
LEMMA Prepend ==
  ASSUME NEW s, NEW K, NEW k, Apart(k, K, s)
  PROVE  k \o s \in Seq(Path) /\ Distinct(k \o s) /\ Range(k \o s) = K \cup Range(s)
  <1> DEFINE t == k \o s
  <1> USE DEF Apart
  <1>1. /\ k \in Seq(Path) /\ Len(k) \in Nat /\ Len(s) \in Nat
        /\ DOMAIN k = 1..Len(k) /\ DOMAIN s = 1..Len(s)
    <2>1. k \in Seq(K) /\ K \subseteq Path /\ s \in Seq(Path)
      BY DEF Lists
    <2> QED BY ONLY <2>1
  <1>2. /\ t \in Seq(Path) /\ DOMAIN t = 1..(Len(k) + Len(s))
        /\ \A i \in 1..(Len(k) + Len(s)) :
              t[i] = IF i <= Len(k) THEN k[i] ELSE s[i - Len(k)]
    BY <1>1
  <1> HIDE DEF t
  <1>3. ASSUME NEW i \in DOMAIN t
        PROVE  \/ i \in DOMAIN k /\ t[i] = k[i] /\ t[i] \in K
               \/ i \notin DOMAIN k /\ i - Len(k) \in DOMAIN s /\ t[i] = s[i - Len(k)]
                  /\ t[i] \in Range(s)
    <2>1. CASE i <= Len(k)
      BY SMTT(30), <1>1, <1>2, <2>1 DEF Lists, Range
    <2>2. CASE ~(i <= Len(k))
      <3>1. i \notin DOMAIN k /\ i - Len(k) \in DOMAIN s
        BY SMTT(30), <1>1, <1>2, <2>2
      <3> QED BY SMTT(30), <1>2, <2>2, <3>1 DEF Range
    <2> QED BY <2>1, <2>2
  <1>4. Distinct(t)
    <2> SUFFICES ASSUME NEW i \in DOMAIN t, NEW j \in DOMAIN t, t[i] = t[j] PROVE i = j
        BY DEF Distinct
    <2>1. CASE t[i] \in K
      BY SMTT(30), <1>3, <2>1 DEF Lists, Distinct
    <2>2. CASE t[i] \in Range(s)
      <3>1. i - Len(k) \in DOMAIN s /\ j - Len(k) \in DOMAIN s
            /\ s[i - Len(k)] = s[j - Len(k)]
        BY <1>3, <2>2
      <3>2. i - Len(k) = j - Len(k)
        BY SMTT(30), <3>1 DEF Distinct
      <3> QED BY SMTT(30), <1>1, <1>2, <3>2
    <2> QED BY SMTT(30), <1>3, <2>1, <2>2
  <1>5. K \subseteq Range(t)
    <2> SUFFICES ASSUME NEW i \in DOMAIN k PROVE k[i] \in Range(t)
        BY DEF Lists, Range
    <2>1. i \in DOMAIN t /\ t[i] = k[i]
      BY <1>1, <1>2
    <2> QED BY <2>1 DEF Range
  <1>6. Range(s) \subseteq Range(t)
    <2> SUFFICES ASSUME NEW i \in DOMAIN s PROVE s[i] \in Range(t)
        BY DEF Range
    <2>1. i + Len(k) \in DOMAIN t /\ t[i + Len(k)] = s[i]
      BY SMTT(30), <1>1, <1>2
    <2> QED BY <2>1 DEF Range
  <1>7. Range(t) \subseteq K \cup Range(s)
    BY <1>3 DEF Range
  <1> QED BY Zenon, <1>2, <1>4, <1>5, <1>6, <1>7 DEF t

\* A sequence with one more element.
LEMMA AppendIs ==
  ASSUME NEW X, NEW s \in Seq(X), NEW x \in X
  PROVE  /\ Append(s, x) \in Seq(X) /\ Range(Append(s, x)) = Range(s) \cup {x}
         /\ Distinct(s) /\ x \notin Range(s) => Distinct(Append(s, x))
  <1> DEFINE t == Append(s, x)
  <1>1. /\ t \in Seq(X) /\ Len(s) \in Nat /\ DOMAIN s = 1..Len(s)
        /\ DOMAIN t = 1..(Len(s) + 1) /\ t[Len(s) + 1] = x
        /\ \A i \in 1..Len(s) : t[i] = s[i]
    OBVIOUS
  <1>2. \A i \in 1..(Len(s) + 1) : i \in 1..Len(s) \/ i = Len(s) + 1
    BY <1>1
  <1>3. 1..Len(s) \subseteq 1..(Len(s) + 1) /\ Len(s) + 1 \in 1..(Len(s) + 1)
    BY <1>1
  <1> HIDE DEF t
  <1>4. Range(t) = Range(s) \cup {x}
    BY SMTT(30), <1>1, <1>2, <1>3 DEF Range
  <1>5. Distinct(s) /\ x \notin Range(s) => Distinct(t)
    BY <1>1, <1>2 DEF Distinct, Range
  <1> QED BY <1>1, <1>4, <1>5 DEF t

-----------------------------------------------------------------------------
Stops(p) ==
    /\ pc' = "done" /\ cause' \in {"filesystem", "unsupported"}
    /\ UNCHANGED <<todo, scanned, files>>
Skips(p) ==
    /\ fs[p].kind = "other"
    /\ todo' \in Seq(Path) /\ Distinct(todo') /\ Range(todo') = Range(todo) \ {p}
    /\ UNCHANGED <<pc, cause, scanned, files>>
Finds(p) ==
    /\ Exists(p) /\ fs[p].kind \in Kinds
    /\ scanned' = Put(scanned, p, fs[p])
    /\ files' = IF fs[p].kind = "file" THEN Append(files, p) ELSE files
    /\ todo' \in Seq(Path) /\ Distinct(todo')
    /\ Range(todo') = (IF fs[p].kind = "dir" THEN {c \in Children(p) : Exists(c)} ELSE {})
                          \cup (Range(todo) \ {p})
    /\ UNCHANGED <<pc, cause>>

\* The three outcomes of scan_directory for an entry.
LEMMA ScanStep ==
  ASSUME Typed, ScanInv, Scan, NEW p, p = Head(todo)
  PROVE  /\ pc = "scan" /\ p \in Path /\ p \in Range(todo)
         /\ UNCHANGED <<fs, touched, remote, opt, dirs, job, encoded, missing, result>>
         /\ Stops(p) \/ Skips(p) \/ Finds(p)
  <1>1. /\ todo \in Seq(Path) /\ todo # <<>> /\ Distinct(todo) /\ pc = "scan"
        /\ UNCHANGED <<fs, touched, remote, opt, dirs, job, encoded, missing>>
    BY ZenonT(30) DEF Typed, ScanInv, Scan, local
  <1>2. /\ p \in Path /\ p \in Range(todo) /\ Tail(todo) \in Seq(Path)
        /\ Distinct(Tail(todo)) /\ Range(Tail(todo)) = Range(todo) \ {p}
    BY <1>1, TailIs
  <1>3. fs[p].kind \in Kinds \cup {"none", "other"}
    BY ZenonT(30), <1>2, LocalAssumption DEF Typed, Kinds
  <1>4. CASE /\ Fail("filesystem") \/ Fail("unsupported")
             /\ UNCHANGED <<todo, scanned, files>>
    BY <1>1, <1>2, <1>4 DEF Fail, Stops
  <1>5. CASE /\ fs[p].kind = "other" /\ todo' = Tail(todo)
             /\ UNCHANGED <<pc, result, cause, scanned, files>>
    BY Zenon, <1>1, <1>2, <1>5 DEF Skips
  <1> DEFINE K == IF fs[p].kind = "dir" THEN {c \in Children(p) : Exists(c)} ELSE {}
  <1> DEFINE k == IF fs[p].kind = "dir" THEN ByName({c \in Children(p) : Exists(c)}) ELSE <<>>
  <1>6. CASE /\ Exists(p) /\ fs[p].kind # "other"
             /\ scanned' = Put(scanned, p, fs[p])
             /\ todo' = k \o Tail(todo)
             /\ files' = IF fs[p].kind = "file" THEN Append(files, p) ELSE files
             /\ UNCHANGED <<pc, result, cause>>
    <2>1. fs[p].kind \in Kinds
      BY SMTT(30), <1>3, <1>6 DEF Exists
    <2>2. K \in SUBSET Path
      BY SMTT(30) DEF Children
    <2>3. Lists(k, K)
      <3>1. {c \in Children(p) : Exists(c)} \in SUBSET Path
        BY DEF Children
      <3>2. Lists(<<>>, {})
        BY SMTT(30) DEF Lists, Distinct, Range
      <3> QED BY <3>1, <3>2, EntriesListed
    <2>4. \A x \in K : x \notin Range(Tail(todo))
      BY <1>2 DEF ScanInv, Children
    <2>5. /\ todo' \in Seq(Path) /\ Distinct(todo')
          /\ Range(todo') = K \cup (Range(todo) \ {p})
      <3> HIDE DEF K, k
      <3>1. /\ k \o Tail(todo) \in Seq(Path) /\ Distinct(k \o Tail(todo))
            /\ Range(k \o Tail(todo)) = K \cup Range(Tail(todo))
        <4>1. Apart(k, K, Tail(todo))
          BY ZenonT(30), <1>2, <2>2, <2>3, <2>4 DEF Apart
        <4> QED BY <4>1, Prepend, Zenon
      <3> QED BY <1>2, <1>6, <3>1, Zenon
    <2> QED BY ZenonT(30), <1>1, <1>2, <1>6, <2>1, <2>5 DEF Finds
  <1> QED BY <1>4, <1>5, <1>6, ZenonT(30) DEF Scan

\* The types.
LEMMA TypedNext ==
  ASSUME UInv, [Next]_vars
  PROVE  Typed'
  <1>1. Typed /\ ScanInv /\ JobInv
    BY Zenon DEF UInv
  <1>2. ASSUME UNCHANGED <<fs, touched, opt, todo, scanned, job>>,
               pc' \in Active \cup {"idle", "done"}
        PROVE  Typed'
    BY Zenon, <1>1, <1>2 DEF Typed
  <1>3. ASSUME Change PROVE Typed'
    <2>1. PICK p \in Path \ {RootPath} : \E x \in Local[p] :
             /\ fs' = [fs EXCEPT ![p] = x] /\ touched' = Append(touched, p)
             /\ UNCHANGED <<opt, pc, todo, scanned, job>>
      BY Zenon, <1>3 DEF Change, plan
    <2>2. touched' \in Seq(Path \ {RootPath})
      BY <1>1, <2>1 DEF Typed
    <2>3. /\ fs' \in [Path -> UNION {Local[q] : q \in Path}]
          /\ \A q \in Path : fs'[q] \in Local[q]
      <3>1. PICK x \in Local[p] : fs' = [fs EXCEPT ![p] = x]
        BY Zenon, <2>1
      <3>2. \A q \in Path : fs'[q] = IF q = p THEN x ELSE fs[q]
        BY <1>1, <3>1 DEF Typed
      <3>3. \A q \in Path : fs'[q] \in Local[q]
        BY Zenon, <1>1, <3>2 DEF Typed
      <3>4. DOMAIN fs' = Path /\ fs' = [q \in Path |-> fs'[q]]
        BY Zenon, <1>1, <3>1 DEF Typed
      <3> QED BY <3>3, <3>4
    <2> QED BY ZenonT(30), <1>1, <2>1, <2>2, <2>3 DEF Typed
  <1>4. ASSUME Start PROVE Typed'
    <2>1. /\ todo' = todo \/ todo' = <<RootPath>>
          /\ pc' \in {"done", "scan"}
          /\ UNCHANGED <<fs, touched, opt, scanned, job>>
      BY <1>4 DEF Start, Fail, local
    <2>2. todo' \in Seq(Path)
      <3>1. <<RootPath>> \in Seq(Path) /\ todo \in Seq(Path)
        BY <1>1 DEF Typed
      <3> QED BY ZenonT(30), <2>1, <3>1
    <2> QED BY Zenon, <1>1, <2>1, <2>2 DEF Typed, Active
  <1>5. ASSUME Scan PROVE Typed'
    <2>1. PICK p : p = Head(todo)
      OBVIOUS
    <2>2. /\ pc = "scan" /\ p \in Path /\ UNCHANGED <<fs, touched, opt, job>>
          /\ Stops(p) \/ Skips(p) \/ Finds(p)
      BY SMTT(30), <1>1, <1>5, <2>1, ScanStep
    <2>3. CASE Stops(p)
      BY Zenon, <1>1, <2>2, <2>3 DEF Stops, Typed, Active
    <2>4. CASE Skips(p)
      BY Zenon, <1>1, <2>2, <2>4 DEF Skips, Typed, Active
    <2>5. CASE Finds(p)
      BY ZenonT(30), <1>1, <2>2, <2>5 DEF Finds, Typed, Active, Put
    <2> QED BY SMTT(30), <2>2, <2>3, <2>4, <2>5
  <1>6. ASSUME Spawn PROVE Typed'
    <2>1. PICK x : /\ job' = Put(job, x, [st |-> "run", got |-> <<>>])
                   /\ x = files[Cardinality(DOMAIN job) + 1]
                   /\ Cardinality(DOMAIN job) < Len(files)
                   /\ UNCHANGED <<fs, touched, opt, pc, todo, scanned>>
      BY Zenon, <1>6 DEF Spawn, local, plan
    <2>2. files \in Seq(Path)
      BY <1>1 DEF Typed, ScanInv, Lists
    <2>3. x \in Path
      BY SMTT(30), <1>1, <2>1, <2>2, RunningFinite
    <2>4. [st |-> "run", got |-> <<>>] \in Job
      BY DEF Job
    <2> QED BY Zenon, <1>1, <2>1, <2>3, <2>4 DEF Typed, Put
  <1>7. ASSUME NEW p \in Path, Hash(p) \/ HashFails(p) PROVE Typed'
    <2>1. PICK j \in Job : job' = [job EXCEPT ![p] = j]
      BY ZenonT(30), <1>1, <1>7, HashStep
    <2>2. UNCHANGED <<fs, touched, opt, pc, todo, scanned>>
      BY ZenonT(30), <1>7 DEF Hash, HashFails, local, plan
    <2> QED BY Zenon, <1>1, <2>1, <2>2 DEF Typed
  <1>8. ASSUME \/ ScanEnds \/ LocalFails \/ Await \/ Encode \/ EncodeEnds \/ FindMissing
               \/ UploadBlob \/ UploadFails \/ UploadEnds \/ OtherClient \/ UNCHANGED vars
        PROVE  /\ UNCHANGED <<fs, touched, opt, todo, scanned, job>>
               /\ pc' = pc \/ pc' \in Active \cup {"idle", "done"}
    BY <1>8, ZenonT(30)
       DEF ScanEnds, LocalFails, Await, Encode, EncodeEnds, FindMissing, UploadBlob,
           UploadFails, UploadEnds, OtherClient, vars, local, plan, Fail, Active
  <1>9. pc \in Active \cup {"idle", "done"}
    BY <1>1 DEF Typed
  <1> QED BY <1>2, <1>3, <1>4, <1>5, <1>6, <1>7, <1>8, <1>9, ZenonT(30) DEF Next, Step, Finished

\* The steps that leave the directory and the scan alone.
Rest == \/ ScanEnds \/ LocalFails \/ Spawn \/ Await \/ Encode \/ EncodeEnds \/ FindMissing
        \/ UploadBlob \/ UploadFails \/ UploadEnds \/ OtherClient \/ Finished
        \/ (\E p \in Path : Hash(p) \/ HashFails(p)) \/ UNCHANGED vars

\* Such a step goes on with an upload only if the scan has ended.
LEMMA RestIs ==
  ASSUME Rest, ScanInv, Typed
  PROVE  /\ UNCHANGED <<fs, touched, opt, todo, scanned, files>>
         /\ pc' \in Active => pc \in Active
         /\ pc' \in Active \ {"scan"} => todo = <<>>
         /\ pc' = "idle" => pc = "idle" /\ result' = result
  <1>1. pc \in Active \ {"scan"} => todo = <<>>
    BY DEF ScanInv
  <1>2. ASSUME UNCHANGED <<fs, touched, opt, todo, scanned, files, pc, result>>
        PROVE  /\ UNCHANGED <<fs, touched, opt, todo, scanned, files>>
               /\ pc' \in Active => pc \in Active
               /\ pc' \in Active \ {"scan"} => todo = <<>>
               /\ pc' = "idle" => pc = "idle" /\ result' = result
    BY SMTT(30), <1>1, <1>2
  <1>3. ASSUME UNCHANGED <<fs, touched, opt, todo, scanned, files>>, pc' = "done"
        PROVE  /\ pc' \in Active => pc \in Active
               /\ pc' \in Active \ {"scan"} => todo = <<>>
               /\ pc' = "idle" => pc = "idle" /\ result' = result
    BY <1>3 DEF Active
  <1>4. ASSUME UNCHANGED <<fs, touched, opt, todo, scanned, files>>, todo = <<>>,
               pc \in Active, pc' \in Active
        PROVE  /\ pc' \in Active \ {"scan"} => todo = <<>>
               /\ pc' = "idle" => pc = "idle" /\ result' = result
    BY <1>4 DEF Active
  <1>5. CASE \/ Spawn \/ UploadBlob \/ OtherClient \/ Finished \/ UNCHANGED vars
             \/ \E p \in Path : Hash(p) \/ HashFails(p)
    <2>1. UNCHANGED <<fs, touched, opt, todo, scanned, files, pc, result>>
      BY <1>5, ZenonT(30) DEF Spawn, UploadBlob, OtherClient, Finished, Hash, HashFails,
                              vars, local, plan
    <2> QED BY SMTT(30), <1>2, <2>1
  <1>6. CASE LocalFails \/ UploadFails \/ UploadEnds
    <2>1. UNCHANGED <<fs, touched, opt, todo, scanned, files>> /\ pc' = "done"
      BY <1>6, ZenonT(30) DEF LocalFails, UploadFails, UploadEnds, Fail, local, plan
    <2> QED BY <1>3, <2>1
  <1>7. CASE ScanEnds
    <2>1. /\ UNCHANGED <<fs, touched, opt, todo, scanned, files>> /\ todo = <<>>
          /\ pc = "scan" /\ pc' = "hash"
      BY SMTT(30), <1>7 DEF ScanEnds, local
    <2> QED BY SMTT(30), <1>4, <2>1 DEF Active
  <1>8. CASE Await \/ Encode \/ EncodeEnds \/ FindMissing
    <2>1. /\ UNCHANGED <<fs, touched, opt, todo, scanned, files>>
          /\ pc \in {"hash", "encode", "find"}
          /\ pc' = "done" \/ pc' = "encode" \/ pc' = "find" \/ pc' = "upload"
      BY ZenonT(30), <1>8 DEF Await, Encode, EncodeEnds, FindMissing, Fail, local, plan
    <2> QED BY SMTT(30), <1>1, <1>3, <1>4, <2>1 DEF Active
  <1> QED BY Zenon, <1>5, <1>6, <1>7, <1>8 DEF Rest

\* Another process changes one path, not the root, and no more.
LEMMA ChangeIs ==
  ASSUME Typed, Change
  PROVE  /\ pc \in Active
         /\ \E p \in Path \ {RootPath} :
               /\ \A q \in Path \ {p} : fs'[q] = fs[q]
               /\ Range(touched') = Range(touched) \cup {p}
               /\ UNCHANGED <<opt, remote, pc, cause, todo, scanned, files, dirs, job,
                              encoded, missing, result>>
  <1>1. PICK p \in Path \ {RootPath} : \E x \in Local[p] :
           /\ fs' = [fs EXCEPT ![p] = x] /\ touched' = Append(touched, p)
    BY ZenonT(30) DEF Change
  <1>2. Range(touched') = Range(touched) \cup {p}
    BY SMTT(30), <1>1, AppendIs DEF Typed
  <1>3. \A q \in Path \ {p} : fs'[q] = fs[q]
    BY SMTT(30), <1>1 DEF Typed
  <1>4. /\ UNCHANGED <<opt, remote, pc, cause, todo, scanned, files, dirs, job, encoded,
                       missing, result>>
        /\ pc \in Active
    BY DEF Change, plan, Typed
  <1> QED BY ZenonT(30), <1>2, <1>3, <1>4

\* Only the end of the upload sets the result.
LEMMA ResultIs ==
  ASSUME [Next]_vars
  PROVE  result' = result \/ UploadEnds
  BY ZenonT(30) DEF Next, Step, Change, OtherClient, Start, Scan, ScanEnds, LocalFails, Spawn,
                    Await, Encode, EncodeEnds, FindMissing, UploadBlob, UploadFails, Hash,
                    HashFails, Finished, Fail, vars

\* The steps of an upload, apart.
LEMMA NextIs ==
  ASSUME [Next]_vars
  PROVE  Change \/ Start \/ Scan \/ Rest
  BY ZenonT(30) DEF Next, Step, Rest

\* The scan keeps what it found together.
LEMMA ScanNext ==
  ASSUME UInv, [Next]_vars
  PROVE  ScanInv'
  <1>1. Typed /\ ScanInv
    BY DEF UInv
  <1>2. CASE Rest
    BY ZenonT(30), <1>1, <1>2, RestIs DEF ScanInv
  <1>3. CASE Change
    <2>1. PICK p \in Path \ {RootPath} :
             /\ \A q \in Path \ {p} : fs'[q] = fs[q]
             /\ Range(touched') = Range(touched) \cup {p}
             /\ UNCHANGED <<pc, todo, scanned, files, result>>
      BY Zenon, <1>1, <1>3, ChangeIs
    <2>2. \A q \in DOMAIN scanned \ Range(touched') : q \in Path \ {p} /\ scanned'[q] = fs'[q]
      BY ZenonT(30), <1>1, <2>1 DEF ScanInv, Typed
    <2> QED BY SMTT(30), <1>1, <2>1, <2>2 DEF ScanInv
  <1>4. CASE Start
    <2>1. /\ pc = "idle" /\ UNCHANGED <<fs, touched, scanned, files, result>>
          /\ \/ pc' = "done" /\ UNCHANGED todo
             \/ pc' = "scan" /\ todo' = <<RootPath>>
      BY <1>4 DEF Start, Fail, local
    <2>2. Range(<<RootPath>>) = {RootPath} /\ Distinct(<<RootPath>>)
      BY DEF Range, Distinct
    <2>3. DOMAIN scanned = {}
      BY <1>1, <2>1 DEF ScanInv
    <2>4. CASE pc' = "done" /\ UNCHANGED todo
      BY Zenon, <1>1, <2>1, <2>4 DEF ScanInv, Active
    <2>5. CASE pc' = "scan" /\ todo' = <<RootPath>>
      BY SMTT(30), <1>1, <2>1, <2>2, <2>3, <2>5 DEF ScanInv, Active
    <2> QED BY SMTT(30), <2>1, <2>4, <2>5
  <1>5. CASE Scan
    <2>1. PICK p : p = Head(todo)
      OBVIOUS
    <2>2. /\ pc = "scan" /\ p \in Path /\ p \in Range(todo) /\ UNCHANGED <<fs, touched>>
          /\ Stops(p) \/ Skips(p) \/ Finds(p)
      BY <1>1, <1>5, <2>1, ScanStep
    <2>3. CASE Stops(p)
      BY ZenonT(30), <1>1, <2>2, <2>3 DEF Stops, ScanInv, Active
    <2>4. CASE Skips(p)
      BY <1>1, <2>2, <2>4 DEF Skips, ScanInv, Active
    <2>5. CASE Finds(p)
      <3> DEFINE K == IF fs[p].kind = "dir" THEN {c \in Children(p) : Exists(c)} ELSE {}
      <3>1. /\ DOMAIN scanned' = DOMAIN scanned \cup {p} /\ scanned'[p] = fs[p]
            /\ p \notin DOMAIN scanned
            /\ \A x \in DOMAIN scanned : scanned'[x] = scanned[x]
        <4>1. scanned' = Put(scanned, p, fs[p])
          BY Zenon, <2>5 DEF Finds
        <4>2. p \notin DOMAIN scanned
          BY <1>1, <2>2 DEF ScanInv
        <4>3. PICK f : f = Put(scanned, p, fs[p])
          OBVIOUS
        <4>4. /\ DOMAIN f = DOMAIN scanned \cup {p} /\ f[p] = fs[p]
              /\ \A x \in DOMAIN scanned : x # p => f[x] = scanned[x]
          BY <4>3 DEF Put
        <4>5. scanned' = f
          BY Zenon, <4>1, <4>3
        <4> QED BY Zenon, <4>2, <4>4, <4>5
      <3>2. Range(todo') = K \cup (Range(todo) \ {p}) /\ Distinct(todo') /\ pc' = "scan"
        BY <2>2, <2>5 DEF Finds
      <3>3. p # RootPath => Parent[p] \in DOMAIN scanned
        BY ZenonT(30), <1>1, <2>2 DEF ScanInv
      <3>4. \A c \in K : c # RootPath /\ Parent[c] = p /\ fs[p].kind = "dir"
        BY Zenon DEF Children
      <3> HIDE DEF K
      <3>5. \A x \in (DOMAIN scanned' \cup Range(todo')) \ {RootPath} :
               Parent[x] \in DOMAIN scanned' /\ scanned'[Parent[x]].kind = "dir"
        <4>1. \A x \in (DOMAIN scanned \cup Range(todo)) \ {RootPath} :
                 Parent[x] \in DOMAIN scanned /\ scanned[Parent[x]].kind = "dir"
          BY Zenon, <1>1 DEF ScanInv
        <4> QED BY SMTT(30), <2>2, <3>1, <3>2, <3>4, <4>1
      <3>6. Range(todo') \cap DOMAIN scanned' = {}
        <4>1. /\ Range(todo) \cap DOMAIN scanned = {}
              /\ \A x \in DOMAIN scanned \ {RootPath} : Parent[x] \in DOMAIN scanned
          BY Zenon, <1>1 DEF ScanInv
        <4> QED BY SMTT(30), <3>1, <3>2, <3>3, <3>4, <4>1
      <3>7. Lists(files', {x \in DOMAIN scanned' : scanned'[x].kind = "file"})
        <4> DEFINE F == {x \in DOMAIN scanned : scanned[x].kind = "file"}
        <4> DEFINE G == {x \in DOMAIN scanned' : scanned'[x].kind = "file"}
        <4>1. Lists(files, F)
          BY <1>1 DEF ScanInv
        <4>2. G = IF fs[p].kind = "file" THEN F \cup {p} ELSE F
          BY <3>1
        <4>3. p \notin F
          BY <3>1
        <4>4. CASE fs[p].kind = "file"
          <5>1. files' = Append(files, p) /\ G = F \cup {p}
            BY Zenon, <2>5, <4>2, <4>4 DEF Finds
          <5> HIDE DEF F, G
          <5>2. files \in Seq(G) /\ p \in G
            BY <4>1, <5>1 DEF Lists
          <5>3. Range(files) = F /\ Distinct(files)
            BY <4>1 DEF Lists
          <5>4. files' \in Seq(G) /\ Range(files') = F \cup {p} /\ Distinct(files')
            <6>1. PICK t : t = Append(files, p)
              BY ZenonT(30)
            <6>2. /\ t \in Seq(G) /\ Range(t) = Range(files) \cup {p}
                  /\ Distinct(files) /\ p \notin Range(files) => Distinct(t)
              BY SMTT(30), <5>2, <6>1, AppendIs
            <6> QED BY Zenon, <4>3, <5>1, <5>3, <6>1, <6>2
          <5>5. Lists(files', G)
            BY <5>1, <5>4 DEF Lists
          <5> QED BY Zenon, <5>5 DEF G
        <4>5. CASE fs[p].kind # "file"
          BY ZenonT(30), <2>5, <4>1, <4>2, <4>5 DEF Finds
        <4> QED BY Zenon, <4>4, <4>5
      <3>8. \A x \in DOMAIN scanned' \ Range(touched') : scanned'[x] = fs'[x]
        BY Zenon, <1>1, <2>2, <3>1 DEF ScanInv
      <3> QED BY ZenonT(30), <3>2, <3>5, <3>6, <3>7, <3>8 DEF ScanInv, Active
    <2> QED BY SMTT(30), <2>2, <2>3, <2>4, <2>5
  <1> QED BY SMTT(30), <1>2, <1>3, <1>4, <1>5, NextIs

\* The scan misses nothing.
LEMMA CoverNext ==
  ASSUME UInv, [Next]_vars
  PROVE  CoverInv'
  <1>1. Typed /\ ScanInv /\ CoverInv /\ StoreInv
    BY DEF UInv
  <1>2. CASE Rest
    <2>1. /\ UNCHANGED <<fs, touched, todo, scanned>>
          /\ pc' \in Active => pc \in Active
      BY Zenon, <1>1, <1>2, RestIs
    <2>2. result' # NoDigest => result # NoDigest \/ (pc \in Active /\ todo = <<>>)
      <3>1. UploadEnds => pc = "upload"
        BY DEF UploadEnds
      <3> QED BY Zenon, <1>1, <3>1, ResultIs DEF ScanInv, Active
    <2>3. \A p \in Path : Untouched(p)' = Untouched(p) /\ Exists(p)' = Exists(p)
      BY <2>1 DEF Untouched, Exists
    <2> QED BY ZenonT(30), <1>1, <2>1, <2>2, <2>3 DEF CoverInv
  <1>3. CASE Change
    <2>1. pc \in Active
      BY <1>1, <1>3, ChangeIs
    <2>2. PICK p \in Path \ {RootPath} :
               /\ \A q \in Path \ {p} : fs'[q] = fs[q]
               /\ Range(touched') = Range(touched) \cup {p}
               /\ UNCHANGED <<pc, todo, scanned, result>>
      BY ZenonT(30), <1>1, <1>3, ChangeIs
    <2>3. ASSUME NEW q \in Path, Untouched(q)'
          PROVE  Untouched(q) /\ Exists(q)' = Exists(q) /\ fs'[q] = fs[q]
      <3>1. q \in Above[q] /\ Above[q] \subseteq Path
        BY AboveIs
      <3>2. Untouched(q) /\ p \notin Above[q]
        BY <2>2, <2>3 DEF Untouched
      <3>3. \A x \in Above[q] : fs'[x] = fs[x]
        BY ZenonT(30), <2>2, <3>1, <3>2
      <3> QED BY <3>1, <3>2, <3>3 DEF Exists
    <2>4. fs'[RootPath] = fs[RootPath]
      BY <2>2, PathAssumption
    <2> QED BY ZenonT(30), <1>1, <2>1, <2>2, <2>3, <2>4 DEF CoverInv
  <1>4. ASSUME pc' = "done", result = NoDigest, result' = result
        PROVE  CoverInv'
    BY <1>4 DEF CoverInv, Active
  <1>5. CASE Start
    <2>1. /\ pc = "idle" /\ UNCHANGED <<fs, touched, scanned, result>>
          /\ \/ pc' = "done"
             \/ fs[RootPath].kind = "dir" /\ todo' = <<RootPath>>
      BY <1>5 DEF Start, Fail, local
    <2>2. result = NoDigest
      BY Zenon, <1>1, <2>1 DEF ScanInv
    <2>3. CASE fs[RootPath].kind = "dir" /\ todo' = <<RootPath>>
      <3>1. \A p \in Path : RootPath \in Above[p] \cap Range(todo')
        BY <2>3, AboveIs DEF Range
      <3> QED BY Zenon, <2>1, <2>2, <2>3, <3>1 DEF CoverInv
    <2> QED BY Zenon, <1>4, <2>1, <2>2, <2>3
  <1>6. CASE Scan
    <2>1. PICK h : h = Head(todo)
      OBVIOUS
    <2>2. /\ pc = "scan" /\ h \in Path /\ h \in Range(todo)
          /\ UNCHANGED <<fs, touched, result>>
          /\ Stops(h) \/ Skips(h) \/ Finds(h)
      BY Zenon, <1>1, <1>6, <2>1, ScanStep
    <2>3. result = NoDigest
      BY SMTT(30), <1>1, <2>2 DEF StoreInv
    <2>4. \A p \in Path : Untouched(p)' = Untouched(p) /\ Exists(p)' = Exists(p)
      BY SMTT(30), <2>2 DEF Untouched, Exists
    <2>5. /\ fs[RootPath].kind = "dir"
          /\ \A p \in Path : Untouched(p) /\ Exists(p) /\ fs[p].kind \in Kinds =>
                p \in DOMAIN scanned \/ Above[p] \cap Range(todo) # {}
      BY <1>1, <2>2 DEF CoverInv, Active
    <2>6. CASE Stops(h)
      BY Zenon, <1>4, <2>2, <2>3, <2>6 DEF Stops
    <2>7. SUFFICES ASSUME ~Stops(h), NEW p \in Path, Untouched(p), Exists(p),
                          fs[p].kind \in Kinds
                   PROVE  p \in DOMAIN scanned' \/ Above[p] \cap Range(todo') # {}
      BY ZenonT(30), <2>2, <2>3, <2>4, <2>5, <2>6 DEF CoverInv
    <2>8. DOMAIN scanned \subseteq DOMAIN scanned' /\ Range(todo) \ {h} \subseteq Range(todo')
      BY SMTT(30), <2>2, <2>7 DEF Skips, Finds, Put
    <2>9. CASE p \in DOMAIN scanned \/ (Above[p] \ {h}) \cap Range(todo) # {}
      BY SMTT(30), <2>8, <2>9
    <2>10. CASE h \in Above[p]
      <3>1. h # p => fs[h].kind = "dir"
        BY <2>7, <2>10 DEF Exists
      <3>2. Finds(h)
        BY ZenonT(30), <2>2, <2>7, <3>1 DEF Skips, Kinds
      <3>3. CASE h = p
        BY SMTT(30), <3>2, <3>3 DEF Finds, Put
      <3>4. CASE h # p
        <4>1. PICK c \in Above[p] : c \in Children(h)
          BY Zenon, <2>10, <3>4, EntryBetween
        <4>2. Exists(c)
          <5>1. c \in Path /\ Above[c] \subseteq Above[p]
            BY AboveIs
          <5>2. fs[c].kind # "none"
            BY Zenon, <2>7 DEF Exists
          <5>3. ASSUME NEW q \in Above[c] \ {c} PROVE fs[q].kind = "dir"
            <6>1. q # p
              BY ZenonT(30), <5>1, AboveOneWay
            <6> QED BY <2>7, <5>1, <6>1 DEF Exists
          <5> QED BY SMTT(30), <5>2, <5>3 DEF Exists
        <4>3. c \in Range(todo')
          BY ZenonT(30), <3>1, <3>2, <3>4, <4>1, <4>2 DEF Finds
        <4> QED BY <4>1, <4>3
      <3> QED BY SMTT(30), <3>3, <3>4
    <2> QED BY ZenonT(30), <2>5, <2>7, <2>9, <2>10
  <1> QED BY <1>2, <1>3, <1>5, <1>6, NextIs

\* A hash task is of a file that the scan found.
LEMMA JobFiles ==
  ASSUME Typed, ScanInv, JobInv
  PROVE  /\ files \in Seq(Path) /\ Range(files) \subseteq DOMAIN scanned /\ Distinct(files)
         /\ \A p \in Range(files) : scanned[p].kind = "file"
         /\ DOMAIN job \subseteq Range(files)
         /\ \A p \in DOMAIN job : scanned[p].data \in Seq(Byte)
  <1>1. /\ files \in Seq(DOMAIN scanned) /\ Range(files) \subseteq DOMAIN scanned
        /\ Distinct(files) /\ \A p \in Range(files) : scanned[p].kind = "file"
    BY DEF ScanInv, Lists
  <1>2. files \in Seq(Path)
    <2>1. DOMAIN scanned \subseteq Path
      BY Zenon DEF Typed
    <2> QED BY <1>1, <2>1
  <1>3. DOMAIN job \subseteq Range(files)
    <2>1. PICK n \in Nat : n = Cardinality(DOMAIN job)
      BY SMTT(30), RunningFinite
    <2>2. DOMAIN job = {files[k] : k \in 1..n} /\ n <= Len(files)
      BY <2>1 DEF JobInv
    <2> QED BY <1>2, <2>2 DEF Range
  <1>4. \A p \in DOMAIN job : scanned[p].data \in Seq(Byte)
    BY Zenon, <1>1, <1>3, DataType DEF Typed
  <1> QED BY ZenonT(30), <1>1, <1>2, <1>3, <1>4

\* A step that leaves the tasks alone.
LEMMA JobFrame ==
  ASSUME JobInv, UNCHANGED <<job, opt, files, scanned, touched>>, Settled' => Settled,
         pc' \in {"idle", "scan"} => pc \in {"idle", "scan"}
  PROVE  JobInv'
  <1>1. Running' = Running /\ \A p : Hashed(p)' = Hashed(p)
    BY DEF Running, Hashed
  <1> QED BY ZenonT(30), <1>1 DEF JobInv

\* The next file gets a task.
LEMMA SpawnKeeps ==
  ASSUME UInv, Spawn
  PROVE  JobInv'
  <1>1. Typed /\ ScanInv /\ JobInv /\ StoreInv
    BY DEF UInv
  <1>2. PICK n \in Nat : n = Cardinality(DOMAIN job)
    BY Zenon, <1>1, RunningFinite
  <1>3. /\ pc = "hash" /\ n < Len(files) /\ Cardinality(Running) < opt.workers
        /\ job' = Put(job, files[n + 1], [st |-> "run", got |-> <<>>])
        /\ UNCHANGED <<opt, files, scanned, touched, fs, pc, missing, result>>
    BY <1>2 DEF Spawn, plan, local
  <1>4. files \in Seq(Path) /\ Distinct(files) /\ DOMAIN job = {files[k] : k \in 1..n}
    BY ZenonT(30), <1>1, <1>2, JobFiles DEF JobInv
  <1>5. PICK x : x = files[n + 1]
    OBVIOUS
  <1>6. /\ x \notin DOMAIN job /\ n + 1 <= Len(files) /\ x \in Range(files)
        /\ DOMAIN job \cup {x} = {files[k] : k \in 1..(n + 1)}
    <2>1. /\ n + 1 \in DOMAIN files /\ \A k \in 1..n : k \in DOMAIN files /\ k # n + 1
          /\ n + 1 <= Len(files)
      <3>1. files \in Seq(Path)
        BY Zenon, <1>4
      <3> QED BY <1>3, <3>1
    <2>2. \A k \in 1..(n + 1) : k \in 1..n \/ k = n + 1
      OBVIOUS
    <2>3. 1..n \subseteq 1..(n + 1) /\ n + 1 \in 1..(n + 1)
      OBVIOUS
    <2>4. x \notin DOMAIN job
      BY Zenon, <1>4, <1>5, <2>1 DEF Distinct
    <2>5. DOMAIN job \cup {x} = {files[k] : k \in 1..(n + 1)}
      BY ZenonT(30), <1>4, <1>5, <2>2, <2>3
    <2>6. x \in Range(files)
      BY <1>5, <2>1 DEF Range
    <2> QED BY Zenon, <2>1, <2>4, <2>5, <2>6
  <1>7. /\ DOMAIN job' = DOMAIN job \cup {x} /\ job'[x] = [st |-> "run", got |-> <<>>]
        /\ \A p \in DOMAIN job : job'[p] = job[p]
    BY ZenonT(30), <1>3, <1>5, <1>6 DEF Put
  <1>8. Cardinality(DOMAIN job') = n + 1
    BY ZenonT(30), <1>1, <1>2, <1>6, <1>7, RunningFinite, FS_AddElement
  <1>9. Cardinality(Running') <= opt.workers
    <2>1. Running' = Running \cup {x} /\ x \notin Running
      BY <1>6, <1>7 DEF Running
    <2>2. PICK m \in Nat : m = Cardinality(Running)
      BY <1>1, RunningFinite
    <2>3. Cardinality(Running \cup {x}) = m + 1
      BY ZenonT(30), <1>1, <2>1, <2>2, RunningFinite, FS_AddElement
    <2>4. m < opt.workers /\ opt.workers \in Nat
      BY ZenonT(30), <1>1, <1>3, <2>2, OptionAssumption DEF Typed
    <2> QED BY SMTT(30), <2>1, <2>3, <2>4
  <1>10. \A p \in DOMAIN job' : job'[p].st = "ok" => Hashed(p)'
    BY SMTT(30), <1>1, <1>3, <1>7 DEF JobInv, Hashed
  <1>11. scanned[x].data \in Seq(Byte)
    BY ZenonT(30), <1>1, <1>6, JobFiles, DataType DEF Typed
  <1>12. \A p \in DOMAIN job' \ Range(touched') :
          /\ Len(job'[p].got) <= Len(scanned'[p].data)
          /\ job'[p].got = SubSeq(scanned'[p].data, 1, Len(job'[p].got))
    <2> SUFFICES ASSUME NEW p \in DOMAIN job' \ Range(touched')
                 PROVE  /\ Len(job'[p].got) <= Len(scanned[p].data)
                        /\ job'[p].got = SubSeq(scanned[p].data, 1, Len(job'[p].got))
      BY <1>3
    <2>1. CASE p = x
      <3>1. PICK d \in Seq(Byte) : d = scanned[x].data
        BY <1>11
      <3>2. Len(<<>>) <= Len(d) /\ <<>> = SubSeq(d, 1, Len(<<>>))
        OBVIOUS
      <3>3. job'[p].got = <<>>
        BY <1>7, <2>1
      <3> QED BY Zenon, <2>1, <3>1, <3>2, <3>3
    <2>2. CASE p \in DOMAIN job
      BY ZenonT(30), <1>1, <1>3, <1>7, <2>2 DEF JobInv
    <2> QED BY Zenon, <1>7, <2>1, <2>2
  <1>13. ~Settled'
    BY <1>1, <1>3 DEF Settled, StoreInv
  <1>14. /\ DOMAIN job' = {files'[k] : k \in 1..Cardinality(DOMAIN job')}
         /\ Cardinality(DOMAIN job') <= Len(files') /\ pc' \notin {"idle", "scan"}
    BY ZenonT(30), <1>3, <1>6, <1>7, <1>8
  <1>15. Cardinality(Running') <= opt'.workers
    BY <1>3, <1>9
  <1> QED BY <1>10, <1>12, <1>13, <1>14, <1>15, Zenon DEF JobInv

\* A task reads on or ends: what it has read stays a prefix of the file, if
\* nobody changed it.
LEMMA HashKeeps ==
  ASSUME UInv, NEW p \in Path, Hash(p) \/ HashFails(p)
  PROVE  JobInv' /\ ~Settled
  <1>1. Typed /\ ScanInv /\ JobInv
    BY DEF UInv
  <1>2. p \in DOMAIN job /\ job[p].st = "run" /\ p \in Running
    BY ZenonT(30), <1>1, HashStep DEF Running
  <1>3. PICK j \in Job :
           /\ job' = [job EXCEPT ![p] = j]
           /\ j.st = "ok" => j.got = job[p].got /\ Hashed(p)
           /\ \/ j.got = job[p].got
              \/ \E e \in Len(job[p].got)..Len(fs[p].data) :
                    j.got = job[p].got \o SubSeq(fs[p].data, Len(job[p].got) + 1, e)
    BY ZenonT(30), <1>1, HashStep
  <1>4. UNCHANGED <<opt, files, scanned, touched, fs, pc, missing, result>>
    BY Zenon DEF Hash, HashFails, plan, local
  <1>5. /\ DOMAIN job' = DOMAIN job /\ job'[p] = j
        /\ \A q \in DOMAIN job \ {p} : job'[q] = job[q]
    BY SMTT(30), <1>2, <1>3
  <1>6. ~Settled /\ ~Settled'
    BY ZenonT(30), <1>1, <1>2, <1>4 DEF JobInv, Settled
  <1>7. Cardinality(Running') <= opt'.workers
    <2>1. Running' \subseteq Running /\ IsFiniteSet(Running)
      BY Zenon, <1>1, <1>2, <1>5, RunningFinite DEF Running
    <2>2. PICK a \in Nat : a = Cardinality(Running')
      BY Zenon, <2>1, FS_Subset, FS_CardinalityType
    <2>3. PICK b \in Nat : b = Cardinality(Running)
      BY Zenon, <2>1, FS_CardinalityType
    <2>4. a <= b
      BY Zenon, <2>1, <2>2, <2>3, FS_Subset
    <2>5. b <= opt.workers /\ opt.workers \in Nat
      BY ZenonT(30), <1>1, <2>3, OptionAssumption DEF JobInv, Typed
    <2> QED BY SMTT(30), <1>4, <2>2, <2>4, <2>5
  <1>8. \A q \in DOMAIN job' : job'[q].st = "ok" => Hashed(q)'
    <2>1. \A q : Hashed(q)' <=> Len(job'[q].got) = Len(scanned[q].data)
      BY <1>4 DEF Hashed
    <2>2. j.st = "ok" => Len(j.got) = Len(scanned[p].data)
      BY ZenonT(30), <1>3 DEF Hashed
    <2>3. \A q \in DOMAIN job : job[q].st = "ok" => Len(job[q].got) = Len(scanned[q].data)
      BY <1>1 DEF JobInv, Hashed
    <2> QED BY Zenon, <1>5, <2>1, <2>2, <2>3
  <1>9. ASSUME p \notin Range(touched)
        PROVE  /\ Len(j.got) <= Len(scanned[p].data)
               /\ j.got = SubSeq(scanned[p].data, 1, Len(j.got))
    <2>1. PICK d \in Seq(Byte) : d = scanned[p].data
      BY SMTT(30), <1>1, <1>2, JobFiles
    <2>2. d = fs[p].data
      BY ZenonT(30), <1>1, <1>2, <1>9, <2>1, JobFiles DEF ScanInv
    <2>3. PICK g : g = job[p].got
      OBVIOUS
    <2>4. g \in Seq(Byte) /\ Len(g) \in 0..Len(d) /\ g = SubSeq(d, 1, Len(g))
      <3>1. g \in Seq(Byte)
        BY SMTT(30), <1>1, <1>2, <2>3 DEF Typed, Job
      <3>2. Len(g) <= Len(d) /\ g = SubSeq(d, 1, Len(g))
        BY ZenonT(30), <1>1, <1>2, <1>9, <2>1, <2>3 DEF JobInv
      <3> QED BY SMTT(30), <3>1, <3>2
    <2>5. CASE j.got = g
      BY SMTT(30), <2>1, <2>4, <2>5
    <2>6. CASE \E e \in Len(g)..Len(d) : j.got = g \o SubSeq(d, Len(g) + 1, e)
      <3>1. PICK e \in Len(g)..Len(d) : j.got = g \o SubSeq(d, Len(g) + 1, e)
        BY Zenon, <2>6
      <3>2. PICK n \in 0..Len(d) : n = Len(g)
        BY ZenonT(30), <2>4
      <3>3. /\ SubSeq(d, 1, n) \o SubSeq(d, n + 1, e) = SubSeq(d, 1, e)
            /\ Len(SubSeq(d, 1, e)) = e
        <4>1. n \in 0..Len(d) /\ e \in n..Len(d)
          BY Zenon, <3>1, <3>2
        <4> QED BY Zenon, <2>1, <4>1, PrefixGrows
      <3>4. j.got = SubSeq(d, 1, e) /\ Len(j.got) = e
        BY Zenon, <2>4, <3>1, <3>2, <3>3
      <3>5. e <= Len(d)
        BY <2>4, <3>1
      <3> QED BY SMTT(30), <2>1, <3>4, <3>5
    <2> QED BY ZenonT(30), <1>3, <2>2, <2>3, <2>5, <2>6
  <1>10. \A q \in DOMAIN job' \ Range(touched') :
          /\ Len(job'[q].got) <= Len(scanned'[q].data)
          /\ job'[q].got = SubSeq(scanned'[q].data, 1, Len(job'[q].got))
    <2> SUFFICES ASSUME NEW q \in DOMAIN job, q \notin Range(touched)
                 PROVE  /\ Len(job'[q].got) <= Len(scanned[q].data)
                        /\ job'[q].got = SubSeq(scanned[q].data, 1, Len(job'[q].got))
      BY <1>4, <1>5
    <2>1. CASE q = p
      BY Zenon, <1>5, <1>9, <2>1
    <2>2. CASE q # p
      BY Zenon, <1>1, <1>5, <2>2 DEF JobInv
    <2> QED BY Zenon, <2>1, <2>2
  <1>11. /\ DOMAIN job' = {files'[k] : k \in 1..Cardinality(DOMAIN job')}
         /\ Cardinality(DOMAIN job') <= Len(files')
         /\ pc' \in {"idle", "scan"} => DOMAIN job' = {}
    BY <1>1, <1>4, <1>5 DEF JobInv
  <1> QED BY <1>6, <1>7, <1>8, <1>10, <1>11, Zenon DEF JobInv

\* Every task reads a prefix of the file the scan saw, and no task runs on
\* after the tree is encoded.
LEMMA JobNext ==
  ASSUME UInv, [Next]_vars
  PROVE  JobInv'
  <1>1. Typed /\ ScanInv /\ JobInv /\ StoreInv
    BY Zenon DEF UInv
  <1>2. CASE Change
    <2>1. PICK p \in Path :
             /\ Range(touched') = Range(touched) \cup {p}
             /\ UNCHANGED <<opt, pc, scanned, files, job, missing, result>>
      BY Zenon, <1>1, <1>2, ChangeIs
    <2>2. Running' = Running /\ Settled' = Settled /\ \A q : Hashed(q)' = Hashed(q)
      BY <2>1 DEF Running, Hashed, Settled
    <2> QED BY Zenon, <1>1, <2>1, <2>2 DEF JobInv
  <1>3. CASE Start
    <2>1. /\ UNCHANGED <<opt, scanned, files, job, touched, missing, result>>
          /\ pc = "idle" /\ pc' \in {"done", "scan"}
      BY <1>3 DEF Start, Fail, local
    <2>2. Settled' => Settled
      BY Zenon, <2>1 DEF Settled
    <2> QED BY Zenon, <1>1, <2>1, <2>2, JobFrame
  <1>4. CASE Scan
    <2>1. PICK h : h = Head(todo)
      OBVIOUS
    <2>2. /\ pc = "scan" /\ UNCHANGED <<opt, job, missing, result>>
          /\ Stops(h) \/ Skips(h) \/ Finds(h)
      BY Zenon, <1>1, <1>4, <2>1, ScanStep
    <2>3. DOMAIN job' = {} /\ Running' = {} /\ opt'.workers \in Nat
      BY SMTT(30), <1>1, <2>2, OptionAssumption DEF JobInv, Running, Typed
    <2>4. pc' \in {"scan", "done"}
      BY ZenonT(30), <2>2 DEF Stops, Skips, Finds
    <2>5. ~Settled'
      BY SMTT(30), <1>1, <2>2, <2>4 DEF Settled, StoreInv
    <2>6. Cardinality({}) = 0
      BY FS_EmptySet
    <2>7. files' \in Seq(Path)
      <3>1. files \in Seq(Path)
        BY <1>1, JobFiles
      <3>2. h \in Path
        BY Zenon, <1>1, <1>4, <2>1, ScanStep
      <3>3. files' = files \/ files' = Append(files, h)
        BY <2>2 DEF Stops, Skips, Finds
      <3> QED BY <3>1, <3>2, <3>3
    <2>8. Len(files') \in Nat
      BY <2>7
    <2>9. {files'[k] : k \in 1..0} = {} /\ 0 <= Len(files') /\ 0 <= opt'.workers
      BY <2>3, <2>8
    <2> QED BY SMTT(30), <2>3, <2>5, <2>6, <2>9 DEF JobInv
  <1>5. CASE Spawn
    BY <1>5, SpawnKeeps
  <1>6. CASE \E p \in Path : Hash(p) \/ HashFails(p)
    BY Zenon, <1>6, HashKeeps
  <1>7. CASE Await
    <2>1. /\ UNCHANGED <<opt, scanned, files, job, touched, missing, result>>
          /\ pc = "hash" /\ Cardinality(DOMAIN job) = Len(files)
          /\ pc' = "done" \/ \A k \in DOMAIN files : job[files[k]].st = "ok"
          /\ pc' \in {"encode", "done"}
      BY ZenonT(30), <1>7 DEF Await, Fail, local, plan
    <2>2. Running' = Running /\ \A p : Hashed(p)' = Hashed(p)
      BY ZenonT(30), <2>1 DEF Running, Hashed
    <2>3. CASE pc' = "done"
      <3>1. Settled' => Settled
        BY Zenon, <2>1, <2>3 DEF Settled
      <3> QED BY ZenonT(30), <1>1, <2>1, <2>3, <3>1, JobFrame
    <2>4. CASE \A k \in DOMAIN files : job[files[k]].st = "ok"
      <3>1. DOMAIN job = Range(files)
        <4>1. files \in Seq(Path) /\ DOMAIN files = 1..Len(files)
          BY <1>1, JobFiles
        <4>2. DOMAIN job = {files[k] : k \in 1..Len(files)}
          BY ZenonT(30), <1>1, <2>1 DEF JobInv
        <4> QED BY Zenon, <4>1, <4>2 DEF Range
      <3>2. \A p \in DOMAIN job : job[p].st = "ok"
        BY <2>4, <3>1 DEF Range
      <3> QED BY Zenon, <1>1, <2>1, <2>2, <3>1, <3>2 DEF JobInv
    <2> QED BY <2>1, <2>3, <2>4
  <1>8. ASSUME \/ ScanEnds \/ LocalFails \/ Encode \/ EncodeEnds \/ FindMissing
               \/ UploadBlob \/ UploadFails \/ UploadEnds \/ OtherClient \/ Finished
               \/ UNCHANGED vars
        PROVE  JobInv'
    <2>1. UNCHANGED <<job, opt, files, scanned, touched>>
      BY <1>8, ZenonT(30) DEF ScanEnds, LocalFails, Encode, EncodeEnds, FindMissing,
         UploadBlob, UploadFails, UploadEnds, OtherClient, Finished, vars, local, plan
    <2>2. pc' \in {"idle", "scan"} => pc \in {"idle", "scan"}
      BY ZenonT(30), <1>8 DEF ScanEnds, LocalFails, Encode, EncodeEnds, FindMissing,
         UploadBlob, UploadFails, UploadEnds, OtherClient, Finished, vars, local, plan, Fail
    <2>3. Settled' => Settled
      <3>1. CASE ScanEnds \/ LocalFails \/ Finished \/ UNCHANGED vars
        BY ZenonT(30), <3>1 DEF ScanEnds, LocalFails, Finished, vars, Settled, Fail
      <3>2. CASE \/ Encode \/ EncodeEnds \/ FindMissing \/ UploadBlob \/ UploadFails
                 \/ UploadEnds \/ OtherClient
        BY <3>2, ZenonT(30) DEF Encode, EncodeEnds, FindMissing, UploadBlob, UploadFails,
                                UploadEnds, OtherClient, Settled
      <3> QED BY <1>8, <3>1, <3>2
    <2> QED BY Zenon, <1>1, <2>1, <2>2, <2>3, JobFrame
  <1> QED BY ZenonT(30), <1>2, <1>3, <1>4, <1>5, <1>6, <1>7, <1>8, NextIs DEF Rest
==============================================================================
