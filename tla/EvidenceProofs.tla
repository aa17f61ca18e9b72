--------------------------- MODULE EvidenceProofs ---------------------------
(***************************************************************************)
(* Theorems about EvidenceRefresh, the snapshot refresh beside any number  *)
(* of other searches, for every inventory, index and bound.  The first     *)
(* part is about the operators on rows: a fold over a sequence, followed   *)
(* place by place with a set of places instead of a predicate; the strict  *)
(* orders; the table of raw rows; and what merging makes of the rows of a  *)
(* search.  EvidenceInv follows the station queries: what a query that is  *)
(* under way or over owes its search, and that the two locks admit one     *)
(* query each.  RowsInv and PicturesInv say what searches, downloads and   *)
(* pictures hold.                                                          *)
(***************************************************************************)
EXTENDS EvidenceRefresh, SequenceTheorems, FunctionTheorems, FiniteSetTheorems,
        WellFoundedInduction, TLAPS

-----------------------------------------------------------------------------
(* Places of a sequence, and steps over them.                              *)

(* A set of naturals that is not empty has a least one.                    *)
LEMMA LeastExists ==
  ASSUME NEW T \in SUBSET Nat, T # {}
  PROVE  \E m \in T : \A l \in T : m <= l
<1>1. \E m \in T : \A l \in T : ~ (<<l, m>> \in OpToRel(<, Nat))
  BY NatLessThanWellFounded, WFMin, Zenon
<1>2. PICK m \in T : \A l \in T : ~ (<<l, m>> \in OpToRel(<, Nat))
  BY <1>1
<1>3. OpToRel(<, Nat) = {ss \in Nat \X Nat : ss[1] < ss[2]}
  BY Zenon DEF OpToRel
<1>4. \A l \in T : <<l, m>> \notin {ss \in Nat \X Nat : ss[1] < ss[2]}
  BY <1>2, <1>3, Zenon
<1>5. \A l \in T : ~ (l < m)
  BY <1>2, <1>4
<1> QED  BY <1>5

(* Induction up to n, for a set of naturals instead of a predicate.        *)
LEMMA UpTo ==
  ASSUME NEW n \in Nat, NEW S, 0 \in S, \A k \in Nat : k < n /\ k \in S => k + 1 \in S
  PROVE  \A k \in 0 .. n : k \in S
<1> DEFINE T == {k \in Nat : k <= n /\ k \notin S}
<1>1. CASE T = {}
  BY <1>1
<1>2. CASE T # {}
  <2>1. PICK m \in T : \A l \in T : m <= l
    <3>1. T \in SUBSET Nat
      OBVIOUS
    <3> HIDE DEF T
    <3> QED  BY <1>2, <3>1, LeastExists
  <2>2. m # 0 /\ m \in Nat /\ m <= n /\ m \notin S
    BY <2>1
  <2>3. m - 1 \in Nat /\ m - 1 < n /\ (m - 1) + 1 = m /\ m - 1 \notin T
    BY <2>1, <2>2
  <2>4. m - 1 \in S
    BY <2>2, <2>3
  <2> QED  BY <2>2, <2>3, <2>4
<1> QED  BY <1>1, <1>2

LEMMA MaxOfPlaces ==
  ASSUME NEW n \in Nat, NEW S \in SUBSET (1 .. n), S # {}
  PROVE  Max(S) \in S /\ \A y \in S : Max(S) >= y
<1> DEFINE T == {m \in Nat : m <= n /\ (n - m) \in S}
<1>1. T \in SUBSET Nat /\ T # {}
  <2>1. PICK i \in S : TRUE
    OBVIOUS
  <2>2. i \in 1 .. n /\ n - i \in Nat /\ n - i <= n /\ n - (n - i) = i
    BY <2>1
  <2> QED  BY <2>1, <2>2
<1>2. PICK m \in T : \A l \in T : m <= l
  <2> HIDE DEF T
  <2> QED  BY <1>1, LeastExists
<1>3. \A y \in S : n - m >= y
  <2> SUFFICES ASSUME NEW y \in S PROVE n - m >= y
    OBVIOUS
  <2>1. y \in 1 .. n /\ n - y \in T
    <3>1. y \in 1 .. n /\ n - y \in Nat /\ n - y <= n /\ n - (n - y) = y
      OBVIOUS
    <3> QED  BY <3>1
  <2> QED  BY <1>2, <2>1
<1>4. \E x \in S : \A y \in S : x >= y
  BY <1>2, <1>3
<1> HIDE DEF T
<1> QED  BY <1>4, Zenon DEF Max

LEMMA MinOfPlaces ==
  ASSUME NEW S \in SUBSET Nat, S # {}
  PROVE  Min(S) \in S /\ \A y \in S : Min(S) <= y
<1>1. \E x \in S : \A y \in S : x =< y
  BY LeastExists
<1> QED  BY <1>1, Zenon DEF Min

LEMMA MinOfTwo ==
  ASSUME NEW a \in Nat, NEW b \in Nat
  PROVE  Min({a, b}) = IF a <= b THEN a ELSE b
<1>1. Min({a, b}) \in {a, b} /\ \A y \in {a, b} : Min({a, b}) <= y
  <2>1. {a, b} \in SUBSET Nat /\ {a, b} # {}
    OBVIOUS
  <2> QED  BY <2>1, MinOfPlaces, Zenon
<1> QED  BY <1>1

(* n steps of G, one for each place, from base: over the sets of places,   *)
(* as the fold of the community modules goes.                              *)
StepsOver(n, base, G, g) ==
    \A s \in SUBSET (1 .. n) :
        g[s] = IF s = {} THEN base ELSE G[Max(s)][g[s \ {Max(s)}]]

LEMMA StepsExist ==
  ASSUME NEW A, NEW n \in Nat, NEW base \in A, NEW G \in [1 .. n -> [A -> A]]
  PROVE  \E g \in [SUBSET (1 .. n) -> A] : StepsOver(n, base, G, g)
<1> DEFINE S == {k \in 0 .. n : \E g \in [SUBSET (1 .. k) -> A] : StepsOver(k, base, G, g)}
<1>1. 0 \in S
  <2> DEFINE g0 == [s \in SUBSET (1 .. 0) |-> base]
  <2>1. g0 \in [SUBSET (1 .. 0) -> A]
    OBVIOUS
  <2>2. \A s \in SUBSET (1 .. 0) : s = {}
    OBVIOUS
  <2>3. StepsOver(0, base, G, g0)
    BY <2>2 DEF StepsOver
  <2>4. 0 \in 0 .. n
    OBVIOUS
  <2> HIDE DEF g0
  <2> QED  BY <2>1, <2>3, <2>4, Zenon
<1>2. ASSUME NEW k \in Nat, k < n, k \in S PROVE k + 1 \in S
  <2>1. PICK g \in [SUBSET (1 .. k) -> A] : StepsOver(k, base, G, g)
    BY <1>2
  <2> DEFINE top == k + 1
             h == [s \in SUBSET (1 .. top) |->
                     IF top \in s THEN G[top][g[s \ {top}]] ELSE g[s]]
  <2>2. top \in 1 .. n /\ G[top] \in [A -> A]
    BY <1>2
  <2>3. ASSUME NEW s \in SUBSET (1 .. top)
        PROVE  /\ s \ {top} \in SUBSET (1 .. k)
               /\ top \notin s => s \in SUBSET (1 .. k)
               /\ top \in s => Max(s) = top
    <3>1. s \ {top} \in SUBSET (1 .. k) /\ (top \notin s => s \in SUBSET (1 .. k))
      BY <1>2
    <3>2. ASSUME top \in s PROVE Max(s) = top
      <4>1. Max(s) \in s /\ \A y \in s : Max(s) >= y
        <5>1. top \in Nat /\ s # {}
          BY <1>2, <3>2
        <5> HIDE DEF top
        <5> QED  BY <5>1, MaxOfPlaces, Zenon
      <4>2. Max(s) \in 1 .. top /\ Max(s) >= top
        BY <3>2, <4>1
      <4> QED  BY <1>2, <4>2
    <3> QED  BY <3>1, <3>2
  <2>4. h \in [SUBSET (1 .. top) -> A]
    BY <2>1, <2>2, <2>3
  <2>5. StepsOver(top, base, G, h)
    <3> SUFFICES ASSUME NEW s \in SUBSET (1 .. top)
                 PROVE  h[s] = IF s = {} THEN base ELSE G[Max(s)][h[s \ {Max(s)}]]
      BY DEF StepsOver
    <3>1. CASE top \in s
      <4>1. s \ {top} \in SUBSET (1 .. top) /\ s \ {top} \in SUBSET (1 .. k)
        BY <2>3
      <4>2. h[s] = G[top][g[s \ {top}]] /\ h[s \ {top}] = g[s \ {top}]
        BY <3>1, <4>1
      <4>3. Max(s) = top /\ s # {}
        BY <2>3, <3>1
      <4> HIDE DEF h, top
      <4> QED  BY <4>2, <4>3
    <3>2. CASE top \notin s
      <4>1. s \in SUBSET (1 .. k) /\ h[s] = g[s]
        BY <2>3, <3>2
      <4>2. g[s] = IF s = {} THEN base ELSE G[Max(s)][g[s \ {Max(s)}]]
        BY <2>1, <4>1 DEF StepsOver
      <4>3. s \ {Max(s)} \in SUBSET (1 .. top) /\ top \notin s \ {Max(s)}
        BY <3>2
      <4>4. h[s \ {Max(s)}] = g[s \ {Max(s)}]
        BY <4>3
      <4> HIDE DEF h, top
      <4> QED  BY <4>1, <4>2, <4>4
    <3> QED  BY <3>1, <3>2
  <2>6. top \in 0 .. n
    BY <2>2
  <2> HIDE DEF h
  <2> QED  BY <2>4, <2>5, <2>6
<1>3. \A k \in 0 .. n : k \in S
  <2> HIDE DEF S
  <2> QED  BY <1>1, <1>2, UpTo
<1>4. n \in 0 .. n
  OBVIOUS
<1> QED  BY <1>3, <1>4, Zenon

LEMMA PlacesUpTo ==
  ASSUME NEW n \in Nat, NEW k \in Nat, k < n
  PROVE  /\ 1 .. (k + 1) \in SUBSET (1 .. n) /\ 1 .. (k + 1) # {}
         /\ Max(1 .. (k + 1)) = k + 1
         /\ (1 .. (k + 1)) \ {k + 1} = 1 .. k
<1>1. /\ 1 .. (k + 1) \in SUBSET (1 .. n) /\ 1 .. (k + 1) # {}
      /\ k + 1 \in 1 .. (k + 1)
  OBVIOUS
<1>2. (1 .. (k + 1)) \ {k + 1} = 1 .. k
  OBVIOUS
<1>3. Max(1 .. (k + 1)) \in 1 .. (k + 1) /\ \A y \in 1 .. (k + 1) : Max(1 .. (k + 1)) >= y
  BY <1>1, MaxOfPlaces
<1> QED  BY <1>1, <1>2, <1>3

(* R orders S strictly and totally.                                        *)
StrictOrder(S, R) ==
    /\ \A x \in S : <<x, x>> \notin R
    /\ \A x, y, z \in S : <<x, y>> \in R /\ <<y, z>> \in R => <<x, z>> \in R
    /\ \A x, y \in S : x # y => <<x, y>> \in R \/ <<y, x>> \in R

Before(S, R, x) == {y \in S : <<y, x>> \in R}

LEMMA RanksGrow ==
  ASSUME NEW S, IsFiniteSet(S), NEW R, StrictOrder(S, R), NEW x \in S, NEW y \in S,
         <<x, y>> \in R
  PROVE  Cardinality(Before(S, R, x)) < Cardinality(Before(S, R, y))
<1>1. /\ Before(S, R, x) \in SUBSET Before(S, R, y)
      /\ x \in Before(S, R, y) /\ x \notin Before(S, R, x)
  BY DEF StrictOrder, Before
<1>2. IsFiniteSet(Before(S, R, y)) /\ IsFiniteSet(Before(S, R, x))
  <2>1. Before(S, R, y) \in SUBSET S /\ Before(S, R, x) \in SUBSET S
    BY DEF Before
  <2> QED  BY <2>1, FS_Subset
<1>3. /\ Cardinality(Before(S, R, x)) <= Cardinality(Before(S, R, y))
      /\ Cardinality(Before(S, R, y)) = Cardinality(Before(S, R, x))
           => Before(S, R, y) = Before(S, R, x)
  BY <1>1, <1>2, FS_Subset
<1>4. Cardinality(Before(S, R, x)) \in Nat /\ Cardinality(Before(S, R, y)) \in Nat
  BY <1>2, FS_CardinalityType
<1> QED  BY <1>1, <1>3, <1>4

(* Every place of an ordered set is taken.                                 *)
LEMMA RanksAreTaken ==
  ASSUME NEW S, IsFiniteSet(S), NEW R, StrictOrder(S, R)
  PROVE  /\ Cardinality(S) \in Nat
         /\ \A x \in S : Cardinality(Before(S, R, x)) + 1 \in 1 .. Cardinality(S)
         /\ \A x, y \in S : Cardinality(Before(S, R, x)) = Cardinality(Before(S, R, y)) => x = y
         /\ \A n \in 1 .. Cardinality(S) :
               \E x \in S : Cardinality(Before(S, R, x)) = n - 1
<1> DEFINE N == Cardinality(S)
           rank == [x \in S |-> Cardinality(Before(S, R, x)) + 1]
<1>1. N \in Nat
  BY FS_CardinalityType
<1>2. ASSUME NEW x \in S PROVE Cardinality(Before(S, R, x)) + 1 \in 1 .. N
  <2>1. Before(S, R, x) \in SUBSET S /\ x \notin Before(S, R, x)
    BY DEF Before, StrictOrder
  <2>2. /\ IsFiniteSet(Before(S, R, x)) /\ Cardinality(Before(S, R, x)) <= N
        /\ N = Cardinality(Before(S, R, x)) => S = Before(S, R, x)
    BY <2>1, FS_Subset
  <2>3. Cardinality(Before(S, R, x)) \in Nat
    BY <2>2, FS_CardinalityType
  <2> QED  BY <1>1, <2>1, <2>2, <2>3
<1>3. ASSUME NEW x \in S, NEW y \in S,
             Cardinality(Before(S, R, x)) = Cardinality(Before(S, R, y))
      PROVE  x = y
  <2>1. Cardinality(Before(S, R, x)) \in Int
    <3>1. Before(S, R, x) \in SUBSET S
      BY DEF Before
    <3> QED  BY <3>1, FS_Subset, FS_CardinalityType
  <2>2. ~ (<<x, y>> \in R) /\ ~ (<<y, x>> \in R)
    BY <1>3, <2>1, RanksGrow
  <2> QED  BY <2>2 DEF StrictOrder
<1>4. rank \in Injection(S, 1 .. N)
  <2>1. rank \in [S -> 1 .. N]
    BY <1>2
  <2>2. \A a, b \in S : rank[a] = rank[b] => a = b
    <3> SUFFICES ASSUME NEW a \in S, NEW b \in S, rank[a] = rank[b] PROVE a = b
      OBVIOUS
    <3>1. /\ Cardinality(Before(S, R, a)) + 1 = Cardinality(Before(S, R, b)) + 1
          /\ Cardinality(Before(S, R, a)) + 1 \in 1 .. N
          /\ Cardinality(Before(S, R, b)) + 1 \in 1 .. N
      BY <1>2
    <3>2. Cardinality(Before(S, R, a)) \in Int /\ Cardinality(Before(S, R, b)) \in Int
      <4>1. IsFiniteSet(Before(S, R, a)) /\ IsFiniteSet(Before(S, R, b))
        <5>1. Before(S, R, a) \in SUBSET S /\ Before(S, R, b) \in SUBSET S
          BY DEF Before
        <5> QED  BY <5>1, FS_Subset
      <4> QED  BY <4>1, FS_CardinalityType
    <3> QED  BY <1>3, <3>1, <3>2
  <2> HIDE DEF rank
  <2> QED  BY <2>1, <2>2, Fun_IsInj
<1>5. rank \in Surjection(S, 1 .. N)
  <2>1. IsFiniteSet(1 .. N) /\ Cardinality(1 .. N) = N
    BY <1>1, FS_Interval
  <2> HIDE DEF rank
  <2> QED  BY <1>4, <2>1, FS_Injection
<1>6. ASSUME NEW n \in 1 .. N PROVE \E x \in S : Cardinality(Before(S, R, x)) = n - 1
  <2>1. PICK x \in S : rank[x] = n
    <3> HIDE DEF rank, N
    <3>1. \A t \in 1 .. N : \E x \in S : rank[x] = t
      BY <1>5, Fun_SurjectionProperties
    <3> QED  BY <3>1
  <2>2. Cardinality(Before(S, R, x)) \in Nat
    <3>1. Before(S, R, x) \in SUBSET S
      BY DEF Before
    <3> QED  BY <3>1, FS_Subset, FS_CardinalityType
  <2> QED  BY <1>1, <2>1, <2>2
<1> QED  BY <1>1, <1>2, <1>3, <1>6

(* The sequence that puts every element at its place holds each once and   *)
(* in order.                                                               *)
LEMMA OrderedHoldsAll ==
  ASSUME NEW S, IsFiniteSet(S), NEW R, StrictOrder(S, R), NEW F,
         F = [n \in 1 .. Cardinality(S) |-> F[n]],
         \A n \in 1 .. Cardinality(S) :
            F[n] \in S /\ Cardinality(Before(S, R, F[n])) = n - 1
  PROVE  /\ F \in Seq(S) /\ Len(F) = Cardinality(S)
         /\ F \in Bijection(1 .. Len(F), S)
         /\ \A m, n \in 1 .. Len(F) : m < n => <<F[m], F[n]>> \in R
<1> DEFINE N == Cardinality(S)
<1>1. N \in Nat /\ F \in [1 .. N -> S]
  BY RanksAreTaken
<1>2. F \in Seq(S) /\ Len(F) = N
  BY <1>1
<1>3. \A a, b \in 1 .. N : F[a] = F[b] => a = b
  <2> SUFFICES ASSUME NEW a \in 1 .. N, NEW b \in 1 .. N, F[a] = F[b] PROVE a = b
    OBVIOUS
  <2>1. a - 1 = b - 1
    OBVIOUS
  <2> QED  BY <2>1
<1>4. \A x \in S : \E n \in 1 .. N : F[n] = x
  <2> SUFFICES ASSUME NEW x \in S PROVE \E n \in 1 .. N : F[n] = x
    OBVIOUS
  <2> DEFINE n == Cardinality(Before(S, R, x)) + 1
  <2>1. n \in 1 .. N
    BY RanksAreTaken
  <2>2. Cardinality(Before(S, R, x)) \in Nat
    <3>1. Before(S, R, x) \in SUBSET S
      BY DEF Before
    <3> QED  BY <3>1, FS_Subset, FS_CardinalityType
  <2>3. F[n] \in S /\ Cardinality(Before(S, R, F[n])) = Cardinality(Before(S, R, x))
    BY <2>1, <2>2
  <2>4. F[n] = x
    BY <2>3, RanksAreTaken
  <2> QED  BY <2>1, <2>4
<1>5. F \in Bijection(1 .. N, S)
  BY <1>1, <1>3, <1>4, Fun_IsBij
<1>6. ASSUME NEW m \in 1 .. N, NEW n \in 1 .. N, m < n PROVE <<F[m], F[n]>> \in R
  <2>1. F[m] \in S /\ F[n] \in S /\ F[m] # F[n]
    BY <1>3, <1>6
  <2>2. ~ (<<F[n], F[m]>> \in R)
    <3>1. ASSUME <<F[n], F[m]>> \in R PROVE FALSE
      <4>1. Cardinality(Before(S, R, F[n])) < Cardinality(Before(S, R, F[m]))
        BY <2>1, <3>1, RanksGrow
      <4>2. n - 1 < m - 1
        BY <4>1
      <4> QED  BY <1>6, <4>2
    <3> QED  BY <3>1
  <2> QED  BY <2>1, <2>2 DEF StrictOrder
<1> QED  BY <1>2, <1>5, <1>6

(* The rows that are kept: as they were read, or joined.                   *)
Description == Rows \union {Joined(row, updates) : row \in Rows, updates \in SUBSET Rows}

LEMMA RowIs ==
  ASSUME NEW row \in Rows
  PROVE  /\ row = [id |-> row.id, source |-> row.source, camera |-> row.camera,
                   start |-> row.start, label |-> row.label, known |-> row.known,
                   named |-> row.named, thumb |-> row.thumb, latest |-> None]
         /\ row.id \in Nat /\ row.start \in Nat /\ row.id # None
         /\ row.named \in BOOLEAN /\ row.thumb \in BOOLEAN
         /\ \A other \in Rows : row.id = other.id =>
               row.start = other.start /\ (row.source = other.source => row = other)
  BY EvidenceAssumption

LEMMA JoinedIs ==
  ASSUME NEW row \in Rows, NEW updates \in SUBSET Rows
  PROVE  /\ Joined(row, updates)
              = [id |-> row.id, source |-> "aic", camera |-> row.camera,
                 start |-> row.start, label |-> Joined(row, updates).label,
                 known |-> Joined(row, updates).known,
                 named |-> row.named, thumb |-> row.thumb,
                 latest |-> LatestUpdate(row, updates)]
         /\ LatestUpdate(row, updates) = None \/ LatestUpdate(row, updates) \in Rows
<1> DEFINE label == IF Matched(row) THEN Name[row.camera] ELSE row.label
           known == IF Matched(row) THEN row.known \union {"serial"} ELSE row.known
           latest == LatestUpdate(row, updates)
           e1 == [row EXCEPT !.source = "aic"]
           e2 == [e1 EXCEPT !.latest = latest]
           e3 == [e2 EXCEPT !.label = label]
           e4 == [e3 EXCEPT !.known = known]
<1>1. Joined(row, updates) = e4
  BY DEF Joined
<1> HIDE DEF label, known, latest
<1>2. e1 = [id |-> row.id, source |-> "aic", camera |-> row.camera,
            start |-> row.start, label |-> row.label, known |-> row.known,
            named |-> row.named, thumb |-> row.thumb, latest |-> None]
  BY RowIs
<1> HIDE DEF e1
<1>3. e2 = [id |-> row.id, source |-> "aic", camera |-> row.camera,
            start |-> row.start, label |-> row.label, known |-> row.known,
            named |-> row.named, thumb |-> row.thumb, latest |-> latest]
  BY <1>2
<1> HIDE DEF e2
<1>4. e3 = [id |-> row.id, source |-> "aic", camera |-> row.camera,
            start |-> row.start, label |-> label, known |-> row.known,
            named |-> row.named, thumb |-> row.thumb, latest |-> latest]
  BY <1>3
<1> HIDE DEF e3
<1>5. e4 = [id |-> row.id, source |-> "aic", camera |-> row.camera,
            start |-> row.start, label |-> label, known |-> known,
            named |-> row.named, thumb |-> row.thumb, latest |-> latest]
  BY <1>4
<1> HIDE DEF e4
<1>6. latest = None \/ latest \in Rows
  BY DEF LatestUpdate, latest
<1> QED  BY <1>1, <1>5, <1>6 DEF latest

LEMMA DescriptionIs ==
  ASSUME NEW d \in Description
  PROVE  /\ d = [id |-> d.id, source |-> d.source, camera |-> d.camera,
                 start |-> d.start, label |-> d.label, known |-> d.known,
                 named |-> d.named, thumb |-> d.thumb, latest |-> d.latest]
         /\ d.id \in Nat /\ d.start \in Nat
         /\ d.named \in BOOLEAN /\ d.thumb \in BOOLEAN
         /\ d.latest = None \/ d.latest \in Rows
         /\ \E row \in Rows : row.id = d.id /\ row.start = d.start
<1>1. CASE d \in Rows
  <2>1. d = [id |-> d.id, source |-> d.source, camera |-> d.camera,
             start |-> d.start, label |-> d.label, known |-> d.known,
             named |-> d.named, thumb |-> d.thumb, latest |-> None]
    BY <1>1, RowIs
  <2>2. d.latest = None
    BY <2>1
  <2> QED  BY <1>1, <2>1, <2>2, RowIs
<1>2. CASE \E row \in Rows : \E updates \in SUBSET Rows : d = Joined(row, updates)
  <2>1. PICK row \in Rows, updates \in SUBSET Rows : d = Joined(row, updates)
    BY <1>2
  <2>2. d = [id |-> row.id, source |-> "aic", camera |-> row.camera,
             start |-> row.start, label |-> d.label, known |-> d.known,
             named |-> row.named, thumb |-> row.thumb, latest |-> LatestUpdate(row, updates)]
        /\ (LatestUpdate(row, updates) = None \/ LatestUpdate(row, updates) \in Rows)
    BY <2>1, JoinedIs
  <2>3. /\ d.id = row.id /\ d.start = row.start /\ d.source = "aic" /\ d.camera = row.camera
        /\ d.named = row.named /\ d.thumb = row.thumb /\ d.latest = LatestUpdate(row, updates)
    BY <2>2
  <2> QED  BY <2>2, <2>3, RowIs
<1> QED  BY <1>1, <1>2 DEF Description

(* Only an update that is the record lends its image.                      *)
LEMMA ImageIsOwn ==
  ASSUME NEW d \in Description
  PROVE  ImageOf(d) \in {d.id, None}
  BY DEF ImageOf, UpdateIsTheRecord

(* Rows of one source are told apart by their ids.                         *)
TellsApart(rows) == \A x, y \in rows : x.id = y.id => x = y

LEMMA NewestFirstIs ==
  ASSUME NEW rows \in SUBSET Description, IsFiniteSet(rows), TellsApart(rows)
  PROVE  NewestFirst(rows) \in Seq(rows)
<1> DEFINE newer(x, y) == x.start > y.start \/ (x.start = y.start /\ x.id > y.id)
           R == {p \in rows \X rows : newer(p[1], p[2])}
           F == NewestFirst(rows)
           N == Cardinality(rows)
<1>1. \A x, y \in rows : <<x, y>> \in R <=> newer(x, y)
  OBVIOUS
<1>2. StrictOrder(rows, R)
  <2>1. \A x \in rows : x.start \in Nat /\ x.id \in Nat
    BY DescriptionIs
  <2>2. /\ \A x \in rows : ~newer(x, x)
        /\ \A x, y, z \in rows : newer(x, y) /\ newer(y, z) => newer(x, z)
        /\ \A x, y \in rows : x # y => newer(x, y) \/ newer(y, x)
    BY <2>1 DEF TellsApart
  <2> HIDE DEF newer, R
  <2> QED  BY <1>1, <2>2 DEF StrictOrder
<1>3. F = [n \in 1 .. N |-> CHOOSE x \in rows : Cardinality({y \in rows : newer(y, x)}) = n - 1]
  BY Zenon DEF NewestFirst, Ordered
<1>4. ASSUME NEW n \in 1 .. N
      PROVE  F[n] \in rows /\ Cardinality(Before(rows, R, F[n])) = n - 1
  <2>1. PICK x \in rows : Cardinality(Before(rows, R, x)) = n - 1
    <3> HIDE DEF R
    <3> QED  BY <1>2, RanksAreTaken
  <2>2. \A y \in rows : Before(rows, R, y) = {z \in rows : newer(z, y)}
    BY <1>1 DEF Before
  <2>3. F[n] = CHOOSE y \in rows : Cardinality({z \in rows : newer(z, y)}) = n - 1
    BY <1>3
  <2>4. Cardinality({z \in rows : newer(z, x)}) = n - 1
    BY <2>1, <2>2
  <2> HIDE DEF newer, R, F
  <2>5. F[n] \in rows /\ Cardinality({z \in rows : newer(z, F[n])}) = n - 1
    BY <2>3, <2>4, Zenon
  <2> QED  BY <2>2, <2>5
<1>5. F = [n \in 1 .. N |-> F[n]]
  BY <1>3
<1> HIDE DEF F, R
<1>6. F \in Seq(rows)
  BY <1>2, <1>4, <1>5, OrderedHoldsAll
<1> QED  BY <1>6 DEF F

(* The table of raw rows: bounded, one row for each id.                    *)
Kept == {kept \in Seq(Description) :
            /\ Len(kept) <= RecordCap
            /\ \A i, j \in 1 .. Len(kept) : i # j => kept[i].id # kept[j].id}

LEMMA RememberKeeps ==
  ASSUME NEW kept \in Kept, NEW row \in Description
  PROVE  Remember(kept, row) \in Kept
<1> DEFINE at == {i \in DOMAIN kept : kept[i].id = row.id}
           with == IF at = {} THEN Append(kept, row) ELSE [kept EXCEPT ![Min(at)] = row]
<1>1. /\ kept \in Seq(Description) /\ Len(kept) \in Nat /\ DOMAIN kept = 1 .. Len(kept)
      /\ Len(kept) <= RecordCap /\ RecordCap \in Nat \ {0}
      /\ \A i, j \in 1 .. Len(kept) : i # j => kept[i].id # kept[j].id
  <2>1. kept \in Seq(Description)
    BY DEF Kept
  <2> QED  BY <2>1, LenProperties, EvidenceAssumption DEF Kept
<1>2. Remember(kept, row) = IF Len(with) > RecordCap THEN Tail(with) ELSE with
  BY Zenon DEF Remember
<1>3. /\ with \in Seq(Description) /\ Len(with) <= RecordCap + 1
      /\ \A i, j \in 1 .. Len(with) : i # j => with[i].id # with[j].id
  <2>1. CASE at = {}
    <3>1. with = Append(kept, row)
      BY <2>1
    <3>2. \A i \in 1 .. Len(kept) : kept[i].id # row.id
      BY <1>1, <2>1
    <3> HIDE DEF with, at
    <3>3. /\ with \in Seq(Description) /\ Len(with) = Len(kept) + 1
          /\ \A i \in 1 .. Len(kept) : with[i] = kept[i]
          /\ with[Len(kept) + 1] = row
      BY <1>1, <3>1, AppendProperties
    <3> QED  BY <1>1, <3>2, <3>3
  <2>2. CASE at # {}
    <3> DEFINE m == Min(at)
    <3>1. m \in at
      <4>1. at \in SUBSET Nat
        BY <1>1
      <4> HIDE DEF at
      <4> QED  BY <2>2, <4>1, MinOfPlaces
    <3>2. m \in 1 .. Len(kept) /\ kept[m].id = row.id /\ with = [kept EXCEPT ![m] = row]
      BY <1>1, <2>2, <3>1
    <3> HIDE DEF with, at, m
    <3>3. /\ with \in Seq(Description) /\ Len(with) = Len(kept)
          /\ \A i \in 1 .. Len(kept) : with[i] = IF i = m THEN row ELSE kept[i]
      BY <1>1, <3>2, ExceptSeq
    <3>4. \A i \in 1 .. Len(kept) : with[i].id = kept[i].id
      BY <3>2, <3>3
    <3> QED  BY <1>1, <3>3, <3>4
  <2> QED  BY <2>1, <2>2
<1> HIDE DEF with
<1>4. CASE Len(with) > RecordCap
  <2>1. Len(with) \in Nat /\ with # <<>>
    BY <1>1, <1>3, <1>4, LenProperties, EmptySeq
  <2>2. /\ Tail(with) \in Seq(Description) /\ Len(Tail(with)) = Len(with) - 1
        /\ \A i \in 1 .. Len(Tail(with)) : Tail(with)[i] = with[i + 1]
    BY <1>3, <2>1, HeadTailProperties
  <2>3. ASSUME NEW i \in 1 .. Len(Tail(with)), NEW j \in 1 .. Len(Tail(with)), i # j
        PROVE  Tail(with)[i].id # Tail(with)[j].id
    <3>1. i + 1 \in 1 .. Len(with) /\ j + 1 \in 1 .. Len(with) /\ i + 1 # j + 1
      BY <2>1, <2>2, <2>3
    <3> QED  BY <1>3, <2>2, <3>1
  <2>4. Len(Tail(with)) <= RecordCap
    BY <1>1, <1>3, <2>1, <2>2
  <2>5. Remember(kept, row) = Tail(with)
    BY <1>2, <1>4
  <2> QED  BY <2>2, <2>3, <2>4, <2>5 DEF Kept
<1>5. CASE ~ (Len(with) > RecordCap)
  <2>1. Len(with) \in Nat
    BY <1>3, LenProperties
  <2> QED  BY <1>1, <1>2, <1>3, <1>5, <2>1 DEF Kept
<1> QED  BY <1>4, <1>5

(* Whatever is delivered, the table stays one.                             *)
LEMMA RememberAllKeeps ==
  ASSUME NEW kept \in Kept, NEW rows \in Seq(Description)
  PROVE  FoldLeft(Remember, kept, rows) \in Kept
<1> DEFINE n == Len(rows)
           G == [k \in 1 .. n |-> [old \in Kept |-> Remember(old, rows[k])]]
           it == CHOOSE g : g = [s \in SUBSET (DOMAIN rows) |->
                                   IF s = {} THEN kept
                                   ELSE Remember(g[s \ {Max(s)}], rows[Max(s)])]
<1>1. n \in Nat /\ DOMAIN rows = 1 .. n /\ \A k \in 1 .. n : rows[k] \in Description
  BY LenProperties, ElementOfSeq
<1>2. G \in [1 .. n -> [Kept -> Kept]]
  BY <1>1, RememberKeeps
<1>3. PICK g \in [SUBSET (1 .. n) -> Kept] : StepsOver(n, kept, G, g)
  <2> HIDE DEF G, n
  <2> QED  BY <1>1, <1>2, StepsExist
<1>4. ASSUME NEW s \in SUBSET (1 .. n)
      PROVE  g[s] = IF s = {} THEN kept ELSE Remember(g[s \ {Max(s)}], rows[Max(s)])
  <2>1. g[s] = IF s = {} THEN kept ELSE G[Max(s)][g[s \ {Max(s)}]]
    BY <1>3 DEF StepsOver
  <2>2. ASSUME s # {} PROVE G[Max(s)][g[s \ {Max(s)}]] = Remember(g[s \ {Max(s)}], rows[Max(s)])
    <3>1. Max(s) \in 1 .. n
      <4> HIDE DEF n
      <4> QED  BY <1>1, <2>2, MaxOfPlaces
    <3>2. g[s \ {Max(s)}] \in Kept
      BY <1>3
    <3> QED  BY <3>1, <3>2
  <2> QED  BY <2>1, <2>2
<1>5. g = [s \in SUBSET (DOMAIN rows) |->
             IF s = {} THEN kept ELSE Remember(g[s \ {Max(s)}], rows[Max(s)])]
  BY <1>1, <1>3, <1>4
<1>6. it = [s \in SUBSET (DOMAIN rows) |->
              IF s = {} THEN kept ELSE Remember(it[s \ {Max(s)}], rows[Max(s)])]
  BY <1>5
<1>7. FoldLeft(Remember, kept, rows) = it[DOMAIN rows]
  BY Zenon DEF FoldLeft, MapThenFoldSet
<1> HIDE DEF it, G
<1>8. \A k \in 0 .. n : k \in {j \in 0 .. n : it[1 .. j] \in Kept}
  <2> DEFINE S == {j \in 0 .. n : it[1 .. j] \in Kept}
  <2>1. 0 \in S
    <3>1. 1 .. 0 = {} /\ {} \in SUBSET (DOMAIN rows) /\ 0 \in 0 .. n
      BY <1>1
    <3>2. it[{}] = kept
      BY <1>6, <3>1
    <3> QED  BY <3>1, <3>2
  <2>2. ASSUME NEW k \in Nat, k < n, k \in S PROVE k + 1 \in S
    <3>1. /\ 1 .. (k + 1) \in SUBSET (1 .. n) /\ 1 .. (k + 1) # {}
          /\ Max(1 .. (k + 1)) = k + 1 /\ (1 .. (k + 1)) \ {k + 1} = 1 .. k
      BY <1>1, <2>2, PlacesUpTo
    <3>2. it[1 .. (k + 1)] = Remember(it[1 .. k], rows[k + 1])
      BY <1>1, <1>6, <3>1
    <3>3. k + 1 \in 1 .. n /\ k + 1 \in 0 .. n /\ rows[k + 1] \in Description
      BY <1>1, <2>2
    <3>4. Remember(it[1 .. k], rows[k + 1]) \in Kept
      BY <2>2, <3>3, RememberKeeps
    <3> QED  BY <3>2, <3>3, <3>4
  <2> HIDE DEF S, n
  <2>3. \A k \in 0 .. n : k \in S
    BY <1>1, <2>1, <2>2, UpTo
  <2> QED  BY <2>3 DEF S
<1>9. n \in 0 .. n
  BY <1>1
<1>10. it[1 .. n] \in Kept
  BY <1>8, <1>9
<1> QED  BY <1>1, <1>7, <1>10

(* What the stations of a search found, behind what it had.                *)
LEMMA CollectedIs ==
  ASSUME NEW w \in Search, \A s \in Station : task[w][s].rows \in Seq(Description),
         NEW STATE base, base \in Seq(Description), NEW order \in Seq(Station)
  PROVE  FoldLeft(LAMBDA rows, s : rows \o task[w][s].rows, base, order) \in Seq(Description)
<1> DEFINE n == Len(order)
           A == Seq(Description)
           found(k) == task[w][order[k]].rows
           G == [k \in 1 .. n |-> [old \in A |-> old \o found(k)]]
           it == CHOOSE g : g = [s \in SUBSET (DOMAIN order) |->
                                   IF s = {} THEN base
                                   ELSE g[s \ {Max(s)}] \o found(Max(s))]
<1>1. n \in Nat /\ DOMAIN order = 1 .. n /\ \A k \in 1 .. n : found(k) \in A
  BY LenProperties, ElementOfSeq
<1>2. G \in [1 .. n -> [A -> A]]
  <2>1. \A k \in 1 .. n : \A old \in A : old \o found(k) \in A
    BY <1>1, ConcatProperties
  <2> HIDE DEF found, A
  <2> QED  BY <2>1
<1>3. PICK g \in [SUBSET (1 .. n) -> A] : StepsOver(n, base, G, g)
  <2> HIDE DEF G, n
  <2> QED  BY <1>1, <1>2, StepsExist
<1>4. ASSUME NEW s \in SUBSET (1 .. n)
      PROVE  g[s] = IF s = {} THEN base ELSE g[s \ {Max(s)}] \o found(Max(s))
  <2>1. g[s] = IF s = {} THEN base ELSE G[Max(s)][g[s \ {Max(s)}]]
    BY <1>3 DEF StepsOver
  <2>2. ASSUME s # {} PROVE G[Max(s)][g[s \ {Max(s)}]] = g[s \ {Max(s)}] \o found(Max(s))
    <3>1. Max(s) \in 1 .. n
      <4> HIDE DEF n
      <4> QED  BY <1>1, <2>2, MaxOfPlaces
    <3>2. g[s \ {Max(s)}] \in A
      BY <1>3
    <3> HIDE DEF A, found
    <3> QED  BY <3>1, <3>2
  <2> HIDE DEF found, G
  <2> QED  BY <2>1, <2>2
<1>5. g = [s \in SUBSET (DOMAIN order) |->
             IF s = {} THEN base ELSE g[s \ {Max(s)}] \o found(Max(s))]
  <2> HIDE DEF found, A, G
  <2> QED  BY <1>1, <1>3, <1>4
<1>6. it = [s \in SUBSET (DOMAIN order) |->
              IF s = {} THEN base ELSE it[s \ {Max(s)}] \o found(Max(s))]
  <2> HIDE DEF found
  <2> QED  BY <1>5, Zenon DEF it
<1>7. FoldLeft(LAMBDA rows, s : rows \o task[w][s].rows, base, order) = it[DOMAIN order]
  BY Zenon DEF FoldLeft, MapThenFoldSet
<1> HIDE DEF it, G, A, found
<1>8. \A k \in 0 .. n : k \in {j \in 0 .. n : it[1 .. j] \in A}
  <2> DEFINE S == {j \in 0 .. n : it[1 .. j] \in A}
  <2>1. 0 \in S
    <3>1. 1 .. 0 = {} /\ {} \in SUBSET (DOMAIN order) /\ 0 \in 0 .. n
      BY <1>1
    <3>2. it[{}] = base
      BY <1>6, <3>1
    <3> QED  BY <3>1, <3>2 DEF A
  <2>2. ASSUME NEW k \in Nat, k < n, k \in S PROVE k + 1 \in S
    <3>1. /\ 1 .. (k + 1) \in SUBSET (1 .. n) /\ 1 .. (k + 1) # {}
          /\ Max(1 .. (k + 1)) = k + 1 /\ (1 .. (k + 1)) \ {k + 1} = 1 .. k
      BY <1>1, <2>2, PlacesUpTo
    <3>2. it[1 .. (k + 1)] = it[1 .. k] \o found(k + 1)
      BY <1>1, <1>6, <3>1
    <3>3. k + 1 \in 0 .. n /\ found(k + 1) \in A
      BY <1>1, <2>2
    <3>4. it[1 .. k] \o found(k + 1) \in A
      BY <2>2, <3>3, ConcatProperties DEF A
    <3> QED  BY <3>2, <3>3, <3>4
  <2> HIDE DEF S, n
  <2>3. \A k \in 0 .. n : k \in S
    BY <1>1, <2>1, <2>2, UpTo
  <2> QED  BY <2>3 DEF S
<1>9. it[1 .. n] \in A
  <2>1. n \in 0 .. n
    BY <1>1
  <2> QED  BY <1>8, <2>1
<1> QED  BY <1>1, <1>7, <1>9 DEF A

(* Events that go out: a row, and what merging made of its source and flag *)
Event == [row : Description, source : {"hybrid"} \union {d.source : d \in Description},
          thumb : BOOLEAN]

Same(rows, k, row) == {j \in 1 .. k : MergeKey(rows[j]) = MergeKey(row)}

(* What the events merged from the first k rows are: one for each key; it  *)
(* shows one of its rows, and an account row only if it has no other.      *)
ShowsOneOf(rows, k, event) ==
    LET same == Same(rows, k, event.row)
        best == Priority(event.row.source)
    IN  /\ \E j \in same : rows[j] = event.row
        /\ event.thumb <=> \E j \in same : HasThumbnail(rows[j])
        /\ event.source \in {event.row.source, "hybrid"}
        /\ best = 0 => \A j \in same : Priority(rows[j].source) = 0

MergedFrom(rows, k, merged) ==
    /\ merged \in Seq(Event)
    /\ \A i, j \in 1 .. Len(merged) :
          MergeKey(merged[i].row) = MergeKey(merged[j].row) => i = j
    /\ \A j \in 1 .. k : \E i \in 1 .. Len(merged) : MergeKey(merged[i].row) = MergeKey(rows[j])
    /\ \A i \in 1 .. Len(merged) : ShowsOneOf(rows, k, merged[i])

LEMMA PriorityIs == Priority("hybrid") = 0 /\ \A source : Priority(source) \in Nat
  BY DEF Priority

LEMMA EventOfIs ==
  ASSUME NEW row \in Description
  PROVE  /\ EventOf(row) \in Event /\ EventOf(row).row = row
         /\ EventOf(row).source = row.source /\ EventOf(row).thumb = HasThumbnail(row)
<1>1. HasThumbnail(row) \in BOOLEAN
  BY DEF HasThumbnail
<1>2. EventOf(row) = [row |-> row, source |-> row.source, thumb |-> HasThumbnail(row)]
  BY DEF EventOf
<1>3. row.source \in {"hybrid"} \union {d.source : d \in Description}
  OBVIOUS
<1> QED  BY <1>1, <1>2, <1>3 DEF Event

(* A row of another key changes nothing for an event.                      *)
LEMMA ShowsStill ==
  ASSUME NEW rows, NEW k \in Nat, NEW event, ShowsOneOf(rows, k, event),
         MergeKey(rows[k + 1]) # MergeKey(event.row)
  PROVE  ShowsOneOf(rows, k + 1, event)
<1>1. Same(rows, k + 1, event.row) = Same(rows, k, event.row)
  BY DEF Same
<1> QED  BY <1>1 DEF ShowsOneOf

(* A row of its key makes the event a hybrid.                              *)
LEMMA ShowsMerged ==
  ASSUME NEW rows, NEW k \in Nat, NEW current, ShowsOneOf(rows, k, current),
         MergeKey(rows[k + 1]) = MergeKey(current.row), NEW event,
         event.row = IF Priority(rows[k + 1].source) > Priority(current.source)
                     THEN rows[k + 1] ELSE current.row,
         event.source = "hybrid",
         event.thumb <=> current.thumb \/ HasThumbnail(rows[k + 1])
  PROVE  ShowsOneOf(rows, k + 1, event)
<1> DEFINE row == rows[k + 1]
           same == Same(rows, k, current.row)
           same1 == Same(rows, k + 1, event.row)
           rank(j) == Priority(rows[j].source)
           best == Priority(current.row.source)
           best1 == Priority(event.row.source)
<1>1. MergeKey(event.row) = MergeKey(row) /\ MergeKey(event.row) = MergeKey(current.row)
  OBVIOUS
<1>2. same1 = same \union {k + 1} /\ k + 1 \notin same
  BY <1>1 DEF Same
<1>3. /\ \E j \in same : rows[j] = current.row
      /\ current.thumb <=> \E j \in same : HasThumbnail(rows[j])
      /\ current.source \in {current.row.source, "hybrid"}
      /\ best = 0 => \A j \in same : rank(j) = 0
  BY DEF ShowsOneOf
<1>4. \E j \in same1 : rows[j] = event.row
  BY <1>2, <1>3
<1>5. event.thumb <=> \E j \in same1 : HasThumbnail(rows[j])
  BY <1>2, <1>3
<1>6. /\ best \in Nat /\ best1 \in Nat /\ Priority(row.source) \in Nat
      /\ Priority(current.source) \in {best, 0}
      /\ rank(k + 1) = Priority(row.source)
  BY <1>3, PriorityIs
<1>7. best1 = IF Priority(row.source) > Priority(current.source)
              THEN Priority(row.source) ELSE best
  OBVIOUS
<1> HIDE DEF same, same1, best, best1, rank
<1>8. best1 = 0 => \A j \in same1 : rank(j) = 0
  <2>1. ASSUME best1 = 0 PROVE best = 0 /\ rank(k + 1) = 0
    BY <1>6, <1>7, <2>1
  <2> QED  BY <1>2, <1>3, <2>1
<1> QED  BY <1>4, <1>5, <1>8 DEF ShowsOneOf, same1, best1, rank

(* A row that is merged is a new event, or makes one of its key a hybrid.  *)
LEMMA MergeRowIs ==
  ASSUME NEW merged \in Seq(Event), NEW row \in Description
  PROVE  /\ MergeRow(merged, row) \in Seq(Event)
         /\ \/ /\ \A i \in 1 .. Len(merged) : MergeKey(merged[i].row) # MergeKey(row)
               /\ MergeRow(merged, row) = Append(merged, EventOf(row))
            \/ \E p \in 1 .. Len(merged) : \E event \in Event :
                  /\ MergeKey(merged[p].row) = MergeKey(row)
                  /\ MergeRow(merged, row) = [merged EXCEPT ![p] = event]
                  /\ event.row = IF Priority(row.source) > Priority(merged[p].source)
                                 THEN row ELSE merged[p].row
                  /\ event.source = "hybrid"
                  /\ event.thumb <=> merged[p].thumb \/ HasThumbnail(row)
<1> DEFINE same == {i \in DOMAIN merged : MergeKey(merged[i].row) = MergeKey(row)}
           p == Min(same)
           current == merged[p]
           wins == Priority(row.source) > Priority(current.source)
           event == [row |-> IF wins THEN row ELSE current.row, source |-> "hybrid",
                     thumb |-> current.thumb \/ HasThumbnail(row)]
<1>1. Len(merged) \in Nat /\ DOMAIN merged = 1 .. Len(merged)
  BY LenProperties
<1>2. CASE same = {}
  <2>1. MergeRow(merged, row) = Append(merged, EventOf(row))
    BY <1>2 DEF MergeRow
  <2>2. EventOf(row) \in Event
    BY EventOfIs
  <2>3. \A i \in 1 .. Len(merged) : MergeKey(merged[i].row) # MergeKey(row)
    BY <1>1, <1>2
  <2> QED  BY <2>1, <2>2, <2>3, AppendProperties
<1>3. CASE same # {}
  <2>1. p \in same
    <3>1. same \in SUBSET Nat
      BY <1>1
    <3> HIDE DEF same
    <3> QED  BY <1>3, <3>1, MinOfPlaces
  <2>2. p \in 1 .. Len(merged) /\ MergeKey(current.row) = MergeKey(row)
    BY <1>1, <2>1
  <2>3. current \in Event
    BY <2>2, ElementOfSeq
  <2>4. MergeRow(merged, row) = [merged EXCEPT ![p] = event]
    BY <1>3, Zenon DEF MergeRow
  <2>5. /\ event.row = IF wins THEN row ELSE current.row
        /\ event.source = "hybrid"
        /\ event.thumb <=> current.thumb \/ HasThumbnail(row)
    OBVIOUS
  <2>6. event \in Event
    <3>1. current.row \in Description
      BY <2>3 DEF Event
    <3>2. (IF wins THEN row ELSE current.row) \in Description
      BY <3>1
    <3>3. (current.thumb \/ HasThumbnail(row)) \in BOOLEAN
      OBVIOUS
    <3> QED  BY <3>2, <3>3 DEF Event
  <2> HIDE DEF p, same, event
  <2>7. MergeRow(merged, row) \in Seq(Event)
    BY <2>2, <2>4, <2>6, ExceptSeq
  <2> QED  BY <2>2, <2>4, <2>5, <2>6, <2>7
<1> QED  BY <1>2, <1>3

(* Merging one more row keeps what is known of the events.                 *)
LEMMA RowMerges ==
  ASSUME NEW rows \in Seq(Description), NEW k \in Nat, k < Len(rows), NEW merged,
         MergedFrom(rows, k, merged)
  PROVE  MergedFrom(rows, k + 1, MergeRow(merged, rows[k + 1]))
<1> DEFINE row == rows[k + 1]
           n == Len(merged)
           next == MergeRow(merged, row)
<1>1. /\ merged \in Seq(Event) /\ n \in Nat /\ DOMAIN merged = 1 .. n
      /\ \A i \in 1 .. n : merged[i] \in Event
      /\ row \in Description
  <2>1. merged \in Seq(Event)
    BY DEF MergedFrom
  <2>2. k + 1 \in 1 .. Len(rows)
    BY LenProperties
  <2> QED  BY <2>1, <2>2, LenProperties, ElementOfSeq
<1>2. /\ \A i, j \in 1 .. n : MergeKey(merged[i].row) = MergeKey(merged[j].row) => i = j
      /\ \A j \in 1 .. k : \E i \in 1 .. n : MergeKey(merged[i].row) = MergeKey(rows[j])
      /\ \A i \in 1 .. n : ShowsOneOf(rows, k, merged[i])
  BY DEF MergedFrom
<1>3. CASE /\ \A i \in 1 .. n : MergeKey(merged[i].row) # MergeKey(row)
           /\ next = Append(merged, EventOf(row))
  <2>1. next = Append(merged, EventOf(row))
    BY <1>3
  <2>2. /\ EventOf(row) \in Event /\ EventOf(row).row = row
        /\ EventOf(row).source = row.source /\ EventOf(row).thumb = HasThumbnail(row)
    BY <1>1, EventOfIs
  <2>3. \A i \in 1 .. n : MergeKey(merged[i].row) # MergeKey(row)
    BY <1>3
  <2>4. /\ next \in Seq(Event) /\ Len(next) = n + 1
        /\ \A i \in 1 .. n : next[i] = merged[i]
        /\ next[n + 1] = EventOf(row)
    BY <1>1, <2>1, <2>2, AppendProperties
  <2> HIDE DEF next
  <2>5. /\ next[n + 1].row = row /\ next[n + 1].source = row.source
        /\ next[n + 1].thumb = HasThumbnail(row)
    BY <2>2, <2>4
  <2>6. \A i, j \in 1 .. Len(next) :
           MergeKey(next[i].row) = MergeKey(next[j].row) => i = j
    <3> HIDE DEF row
    <3>1. ASSUME NEW i \in 1 .. n + 1 PROVE i = n + 1 \/ (i \in 1 .. n /\ next[i] = merged[i])
      BY <1>1, <2>4
    <3> QED  BY <1>1, <1>2, <2>3, <2>4, <2>5, <3>1
  <2>7. \A j \in 1 .. k + 1 : \E i \in 1 .. Len(next) : MergeKey(next[i].row) = MergeKey(rows[j])
    <3>1. ASSUME NEW j \in 1 .. k + 1, j # k + 1
          PROVE  \E i \in 1 .. Len(next) : MergeKey(next[i].row) = MergeKey(rows[j])
      <4>1. PICK i \in 1 .. n : MergeKey(merged[i].row) = MergeKey(rows[j])
        BY <1>2, <3>1
      <4> QED  BY <1>1, <2>4, <4>1
    <3>2. n + 1 \in 1 .. Len(next) /\ MergeKey(next[n + 1].row) = MergeKey(rows[k + 1])
      BY <1>1, <2>4, <2>5
    <3> QED  BY <3>1, <3>2
  <2>8. \A i \in 1 .. Len(next) : ShowsOneOf(rows, k + 1, next[i])
    <3>1. ASSUME NEW i \in 1 .. n PROVE ShowsOneOf(rows, k + 1, next[i])
      <4>1. ShowsOneOf(rows, k, merged[i]) /\ MergeKey(rows[k + 1]) # MergeKey(merged[i].row)
        BY <1>2, <2>3
      <4> QED  BY <2>4, <4>1, ShowsStill
    <3>2. ShowsOneOf(rows, k + 1, next[n + 1])
      <4>1. Same(rows, k + 1, row) = {k + 1}
        <5>1. ASSUME NEW j \in 1 .. k PROVE MergeKey(rows[j]) # MergeKey(row)
          BY <1>2, <2>3
        <5>2. \A j \in 1 .. k + 1 : j \in 1 .. k \/ j = k + 1
          OBVIOUS
        <5> QED  BY <5>1, <5>2 DEF Same
      <4>2. Same(rows, k + 1, next[n + 1].row) = {k + 1}
        BY <2>5, <4>1
      <4> QED  BY <2>5, <4>2 DEF ShowsOneOf
    <3>3. \A i \in 1 .. Len(next) : i \in 1 .. n \/ i = n + 1
      BY <1>1, <2>4
    <3> QED  BY <3>1, <3>2, <3>3
  <2>9. MergedFrom(rows, k + 1, next)
    BY <2>4, <2>6, <2>7, <2>8 DEF MergedFrom
  <2> QED  BY <2>9 DEF next
<1>4. ASSUME NEW p \in 1 .. n, NEW event \in Event,
             MergeKey(merged[p].row) = MergeKey(row), next = [merged EXCEPT ![p] = event],
             event.row = IF Priority(row.source) > Priority(merged[p].source)
                         THEN row ELSE merged[p].row,
             event.source = "hybrid",
             event.thumb <=> merged[p].thumb \/ HasThumbnail(row)
      PROVE  MergedFrom(rows, k + 1, next)
  <2> HIDE DEF next
  <2>6. /\ next \in Seq(Event) /\ Len(next) = n
        /\ \A i \in 1 .. n : next[i] = IF i = p THEN event ELSE merged[i]
    BY <1>1, <1>4, ExceptSeq
  <2>7. MergeKey(event.row) = MergeKey(row) /\ MergeKey(event.row) = MergeKey(merged[p].row)
    BY <1>4
  <2>8. \A i \in 1 .. n : MergeKey(next[i].row) = MergeKey(merged[i].row)
    BY <2>6, <2>7
  <2>9. \A i, j \in 1 .. Len(next) : MergeKey(next[i].row) = MergeKey(next[j].row) => i = j
    BY <1>2, <2>6, <2>8
  <2>10. \A j \in 1 .. k + 1 : \E i \in 1 .. Len(next) : MergeKey(next[i].row) = MergeKey(rows[j])
    <3>1. ASSUME NEW j \in 1 .. k + 1, j # k + 1
          PROVE  \E i \in 1 .. Len(next) : MergeKey(next[i].row) = MergeKey(rows[j])
      <4>1. PICK i \in 1 .. n : MergeKey(merged[i].row) = MergeKey(rows[j])
        BY <1>2, <3>1
      <4> QED  BY <2>6, <2>8, <4>1
    <3>2. MergeKey(next[p].row) = MergeKey(rows[k + 1])
      BY <1>4, <2>8
    <3> QED  BY <2>6, <3>1, <3>2
  <2>11. \A i \in 1 .. Len(next) : ShowsOneOf(rows, k + 1, next[i])
    <3>1. ASSUME NEW i \in 1 .. n, i # p PROVE ShowsOneOf(rows, k + 1, next[i])
      <4>1. MergeKey(rows[k + 1]) # MergeKey(merged[i].row)
        BY <1>2, <1>4, <3>1
      <4>2. ShowsOneOf(rows, k, merged[i])
        BY <1>2
      <4> QED  BY <2>6, <3>1, <4>1, <4>2, ShowsStill
    <3>2. ShowsOneOf(rows, k + 1, event)
      <4>1. ShowsOneOf(rows, k, merged[p])
        BY <1>2
      <4> QED  BY <1>4, <4>1, ShowsMerged
    <3> QED  BY <2>6, <3>1, <3>2
  <2> QED  BY <2>6, <2>9, <2>10, <2>11 DEF MergedFrom
<1>5. \/ /\ \A i \in 1 .. n : MergeKey(merged[i].row) # MergeKey(row)
         /\ next = Append(merged, EventOf(row))
      \/ \E p \in 1 .. n : \E event \in Event :
            /\ MergeKey(merged[p].row) = MergeKey(row)
            /\ next = [merged EXCEPT ![p] = event]
            /\ event.row = IF Priority(row.source) > Priority(merged[p].source)
                           THEN row ELSE merged[p].row
            /\ event.source = "hybrid"
            /\ event.thumb <=> merged[p].thumb \/ HasThumbnail(row)
  <2> HIDE DEF row
  <2> QED  BY <1>1, MergeRowIs, Zenon
<1> HIDE DEF next, n, row
<1>6. CASE \E p \in 1 .. n : \E event \in Event :
             /\ MergeKey(merged[p].row) = MergeKey(row)
             /\ next = [merged EXCEPT ![p] = event]
             /\ event.row = IF Priority(row.source) > Priority(merged[p].source)
                            THEN row ELSE merged[p].row
             /\ event.source = "hybrid"
             /\ event.thumb <=> merged[p].thumb \/ HasThumbnail(row)
  <2>1. MergedFrom(rows, k + 1, next)
    BY <1>4, <1>6
  <2> QED  BY <2>1 DEF next, row
<1> QED  BY <1>3, <1>5, <1>6

LEMMA MergedFoldIs ==
  ASSUME NEW rows \in Seq(Description)
  PROVE  MergedFrom(rows, Len(rows), FoldLeft(LAMBDA m, row : MergeRow(m, row), <<>>, rows))
<1> DEFINE n == Len(rows)
           A == Seq(Event)
           G == [k \in 1 .. n |-> [old \in A |-> MergeRow(old, rows[k])]]
           it == CHOOSE g : g = [s \in SUBSET (DOMAIN rows) |->
                                   IF s = {} THEN <<>>
                                   ELSE MergeRow(g[s \ {Max(s)}], rows[Max(s)])]
<1>1. n \in Nat /\ DOMAIN rows = 1 .. n /\ \A k \in 1 .. n : rows[k] \in Description
  BY LenProperties, ElementOfSeq
<1>2. G \in [1 .. n -> [A -> A]]
  BY <1>1, MergeRowIs
<1>3. PICK g \in [SUBSET (1 .. n) -> A] : StepsOver(n, <<>>, G, g)
  <2>1. <<>> \in A
    OBVIOUS
  <2> HIDE DEF G, n, A
  <2> QED  BY <1>1, <1>2, <2>1, StepsExist
<1>4. ASSUME NEW s \in SUBSET (1 .. n)
      PROVE  g[s] = IF s = {} THEN <<>> ELSE MergeRow(g[s \ {Max(s)}], rows[Max(s)])
  <2>1. g[s] = IF s = {} THEN <<>> ELSE G[Max(s)][g[s \ {Max(s)}]]
    BY <1>3 DEF StepsOver
  <2>2. ASSUME s # {} PROVE G[Max(s)][g[s \ {Max(s)}]] = MergeRow(g[s \ {Max(s)}], rows[Max(s)])
    <3>1. Max(s) \in 1 .. n
      <4> HIDE DEF n
      <4> QED  BY <1>1, <2>2, MaxOfPlaces
    <3>2. g[s \ {Max(s)}] \in A
      BY <1>3
    <3> HIDE DEF A
    <3> QED  BY <3>1, <3>2
  <2> HIDE DEF G
  <2> QED  BY <2>1, <2>2
<1>5. g = [s \in SUBSET (DOMAIN rows) |->
             IF s = {} THEN <<>> ELSE MergeRow(g[s \ {Max(s)}], rows[Max(s)])]
  <2> HIDE DEF A, G
  <2> QED  BY <1>1, <1>3, <1>4
<1>6. it = [s \in SUBSET (DOMAIN rows) |->
              IF s = {} THEN <<>> ELSE MergeRow(it[s \ {Max(s)}], rows[Max(s)])]
  BY <1>5, Zenon
<1>7. FoldLeft(LAMBDA m, row : MergeRow(m, row), <<>>, rows) = it[DOMAIN rows]
  BY Zenon DEF FoldLeft, MapThenFoldSet
<1> HIDE DEF it, G, A
<1>8. \A k \in 0 .. n : k \in {j \in 0 .. n : MergedFrom(rows, j, it[1 .. j])}
  <2> DEFINE S == {j \in 0 .. n : MergedFrom(rows, j, it[1 .. j])}
  <2>1. 0 \in S
    <3>1. 1 .. 0 = {} /\ {} \in SUBSET (DOMAIN rows) /\ 0 \in 0 .. n
      BY <1>1
    <3>2. it[{}] = <<>>
      BY <1>6, <3>1
    <3>3. MergedFrom(rows, 0, <<>>)
      <4>1. <<>> \in Seq(Event) /\ Len(<<>>) = 0
        BY EmptySeq
      <4> QED  BY <3>1, <4>1 DEF MergedFrom
    <3> QED  BY <3>1, <3>2, <3>3
  <2>2. ASSUME NEW k \in Nat, k < n, k \in S PROVE k + 1 \in S
    <3>1. /\ 1 .. (k + 1) \in SUBSET (1 .. n) /\ 1 .. (k + 1) # {}
          /\ Max(1 .. (k + 1)) = k + 1 /\ (1 .. (k + 1)) \ {k + 1} = 1 .. k
      BY <1>1, <2>2, PlacesUpTo
    <3>2. it[1 .. (k + 1)] = MergeRow(it[1 .. k], rows[k + 1])
      BY <1>1, <1>6, <3>1
    <3>3. k + 1 \in 0 .. n
      BY <1>1, <2>2
    <3>4. MergedFrom(rows, k + 1, MergeRow(it[1 .. k], rows[k + 1]))
      BY <2>2, RowMerges
    <3> QED  BY <3>2, <3>3, <3>4
  <2> HIDE DEF S, n
  <2>3. \A k \in 0 .. n : k \in S
    BY <1>1, <2>1, <2>2, UpTo
  <2> QED  BY <2>3 DEF S
<1>9. MergedFrom(rows, n, it[1 .. n])
  <2>1. n \in 0 .. n
    BY <1>1
  <2> QED  BY <1>8, <2>1
<1> QED  BY <1>1, <1>7, <1>9

(* What a search returns: the merged events, the newest first, cut short.  *)
ReturnedFrom(merged, order, result) ==
    /\ order \in Bijection(1 .. Len(merged), 1 .. Len(merged))
    /\ \A m, n \in 1 .. Len(merged) :
          m < n => merged[order[n]].row.start <= merged[order[m]].row.start
    /\ result \in Seq(Event)
    /\ Len(result) = IF MaxResults <= Len(merged) THEN MaxResults ELSE Len(merged)
    /\ \A i \in 1 .. Len(result) : result[i] = merged[order[i]]

LEMMA MergedEventsIs ==
  ASSUME NEW rows \in Seq(Description)
  PROVE  \E merged : \E order : /\ MergedFrom(rows, Len(rows), merged)
                                /\ ReturnedFrom(merged, order, MergedEvents(rows))
<1> DEFINE merged == FoldLeft(LAMBDA m, row : MergeRow(m, row), <<>>, rows)
           start(i) == merged[i].row.start
           before(i, j) == start(i) > start(j) \/ (start(i) = start(j) /\ i < j)
           order == Ordered(DOMAIN merged, before)
           sorted == [n \in DOMAIN order |-> merged[order[n]]]
           N == Len(merged)
           places == 1 .. N
           R == {p \in places \X places : before(p[1], p[2])}
<1>1. MergedFrom(rows, Len(rows), merged)
  BY MergedFoldIs
<1>2. MergedEvents(rows) = SubSeq(sorted, 1, Min({MaxResults, Len(sorted)}))
  BY Zenon DEF MergedEvents
<1> HIDE DEF merged
<1>3. /\ merged \in Seq(Event) /\ N \in Nat /\ DOMAIN merged = places
      /\ \A i \in places : merged[i] \in Event
  <2>1. merged \in Seq(Event)
    BY <1>1 DEF MergedFrom
  <2> QED  BY <2>1, LenProperties, ElementOfSeq
<1>4. \A i \in places : start(i) \in Nat
  <2> SUFFICES ASSUME NEW i \in places PROVE merged[i].row.start \in Nat
    OBVIOUS
  <2>1. merged[i].row \in Description
    BY <1>3 DEF Event
  <2> QED  BY <2>1, DescriptionIs
<1>5. IsFiniteSet(places) /\ Cardinality(places) = N
  <2>1. N \in Nat
    BY <1>3
  <2> HIDE DEF N
  <2>2. IsFiniteSet(1 .. N) /\ Cardinality(1 .. N) = IF 1 > N THEN 0 ELSE N - 1 + 1
    BY <2>1, FS_Interval
  <2> QED  BY <2>1, <2>2
<1>6. \A i, j \in places : <<i, j>> \in R <=> before(i, j)
  OBVIOUS
<1>7. StrictOrder(places, R)
  <2> HIDE DEF start
  <2>1. /\ \A x \in places : ~before(x, x)
        /\ \A x, y, z \in places : before(x, y) /\ before(y, z) => before(x, z)
        /\ \A x, y \in places : x # y => before(x, y) \/ before(y, x)
    BY <1>3, <1>4
  <2> HIDE DEF before, R, places
  <2> QED  BY <1>6, <2>1 DEF StrictOrder
<1>8. order = [n \in 1 .. N |->
                 CHOOSE x \in places : Cardinality({y \in places : before(y, x)}) = n - 1]
  <2>1. order = [n \in 1 .. Cardinality(DOMAIN merged) |->
                   CHOOSE x \in DOMAIN merged :
                      Cardinality({y \in DOMAIN merged : before(y, x)}) = n - 1]
    BY Zenon DEF Ordered
  <2> HIDE DEF order, before, places, N
  <2> QED  BY <1>3, <1>5, <2>1
<1> HIDE DEF start
<1>9. ASSUME NEW n \in 1 .. N
      PROVE  order[n] \in places /\ Cardinality(Before(places, R, order[n])) = n - 1
  <2>1. PICK x \in places : Cardinality(Before(places, R, x)) = n - 1
    <3> HIDE DEF R, places
    <3> QED  BY <1>5, <1>7, RanksAreTaken
  <2>2. \A y \in places : Before(places, R, y) = {z \in places : before(z, y)}
    BY <1>6 DEF Before
  <2>3. order[n] = CHOOSE y \in places : Cardinality({z \in places : before(z, y)}) = n - 1
    BY <1>8
  <2>4. Cardinality({z \in places : before(z, x)}) = n - 1
    BY <2>1, <2>2
  <2> HIDE DEF before, R, order, places
  <2>5. order[n] \in places /\ Cardinality({z \in places : before(z, order[n])}) = n - 1
    BY <2>3, <2>4, Zenon
  <2> QED  BY <2>2, <2>5
<1>10. order = [n \in 1 .. N |-> order[n]]
  BY <1>8
<1> HIDE DEF order, R
<1>11. /\ order \in Seq(places) /\ Len(order) = N
       /\ order \in Bijection(1 .. N, places)
       /\ \A m, n \in 1 .. N : m < n => <<order[m], order[n]>> \in R
  <2> HIDE DEF places
  <2> QED  BY <1>5, <1>7, <1>9, <1>10, OrderedHoldsAll
<1>12. DOMAIN order = 1 .. N /\ \A n \in 1 .. N : order[n] \in places
  BY <1>9, <1>10
<1>13. ASSUME NEW m \in 1 .. N, NEW n \in 1 .. N, m < n
       PROVE  merged[order[n]].row.start <= merged[order[m]].row.start
  <2>1. order[m] \in places /\ order[n] \in places /\ before(order[m], order[n])
    BY <1>6, <1>11, <1>12, <1>13
  <2> QED  BY <1>4, <2>1 DEF start
<1>14. sorted = [n \in 1 .. N |-> merged[order[n]]]
  BY <1>12
<1> HIDE DEF sorted
<1>15. Len(sorted) = N /\ \A i \in 1 .. N : sorted[i] = merged[order[i]] /\ sorted[i] \in Event
  BY <1>3, <1>12, <1>14
<1> DEFINE cut == Min({MaxResults, N})
<1>16. cut = IF MaxResults <= N THEN MaxResults ELSE N
  BY <1>3, MinOfTwo, EvidenceAssumption
<1>17. cut \in Nat /\ cut <= N /\ MaxResults \in Nat
  BY <1>3, <1>16, EvidenceAssumption
<1> HIDE DEF cut
<1>18. /\ SubSeq(sorted, 1, cut) \in Seq(Event)
       /\ Len(SubSeq(sorted, 1, cut)) = cut
       /\ \A i \in 1 .. cut : SubSeq(sorted, 1, cut)[i] = sorted[i]
  <2>1. \A i \in 1 .. cut : i \in 1 .. N /\ sorted[i] \in Event
    BY <1>3, <1>15, <1>17
  <2>2. /\ SubSeq(sorted, 1, cut) \in Seq(Event)
        /\ Len(SubSeq(sorted, 1, cut)) = IF 1 <= cut THEN cut - 1 + 1 ELSE 0
        /\ \A i \in 1 .. cut - 1 + 1 : SubSeq(sorted, 1, cut)[i] = sorted[1 + i - 1]
    BY <1>17, <2>1, SubSeqProperties
  <2> QED  BY <1>17, <2>2
<1>19. MergedEvents(rows) = SubSeq(sorted, 1, cut)
  BY <1>2, <1>15 DEF cut
<1>20. ReturnedFrom(merged, order, MergedEvents(rows))
  <2>1. \A i \in 1 .. cut : MergedEvents(rows)[i] = merged[order[i]]
    <3>1. \A i \in 1 .. cut : i \in 1 .. N
      BY <1>3, <1>17
    <3> QED  BY <1>15, <1>18, <1>19, <3>1
  <2> QED  BY <1>11, <1>13, <1>16, <1>18, <1>19, <2>1 DEF ReturnedFrom
<1> QED  BY <1>1, <1>20

(* The keys of a sequence of events that tells them apart are as many.     *)
LEMMA KeysAreCounted ==
  ASSUME NEW n \in Nat, NEW K, NEW key \in [1 .. n -> K],
         \A i, j \in 1 .. n : key[i] = key[j] => i = j,
         \A t \in K : \E i \in 1 .. n : key[i] = t
  PROVE  Cardinality(K) = n
<1>1. key \in Bijection(1 .. n, K)
  BY Fun_IsBij
<1>2. ExistsBijection(1 .. n, K)
  BY <1>1, Fun_ExistsBij
<1> QED  BY <1>2, FS_CountingElements

LEMMA PermutationIs ==
  ASSUME NEW n, NEW f \in Bijection(1 .. n, 1 .. n)
  PROVE  /\ f \in [1 .. n -> 1 .. n]
         /\ \A a, b \in 1 .. n : f[a] = f[b] => a = b
         /\ \A t \in 1 .. n : \E s \in 1 .. n : f[s] = t
  BY Fun_BijectionProperties

(* What is returned loses none of the rows that were collected.            *)
LEMMA ReturnedLosesNothing ==
  ASSUME NEW rows \in Seq(Description)
  PROVE  LosesNothing(rows, MergedEvents(rows))
<1> DEFINE result == MergedEvents(rows)
           L == Len(result)
<1>1. PICK merged, order : /\ MergedFrom(rows, Len(rows), merged)
                           /\ ReturnedFrom(merged, order, result)
  BY MergedEventsIs
<1> HIDE DEF result
<1> DEFINE N == Len(merged)
           keys == {MergeKey(rows[j]) : j \in DOMAIN rows}
           shown == {MergeKey(result[i].row) : i \in DOMAIN result}
           alike(row) == {j \in DOMAIN rows : MergeKey(rows[j]) = MergeKey(row)}
           better(row) == {j \in alike(row) : Priority(rows[j].source) > 0}
<1>2. /\ Len(rows) \in Nat /\ DOMAIN rows = 1 .. Len(rows)
      /\ merged \in Seq(Event) /\ N \in Nat
      /\ result \in Seq(Event) /\ L \in Nat /\ DOMAIN result = 1 .. L
  <2>1. merged \in Seq(Event) /\ result \in Seq(Event)
    BY <1>1 DEF MergedFrom, ReturnedFrom
  <2> QED  BY <2>1, LenProperties
<1>3. /\ \A i, j \in 1 .. N : MergeKey(merged[i].row) = MergeKey(merged[j].row) => i = j
      /\ \A j \in 1 .. Len(rows) :
            \E i \in 1 .. N : MergeKey(merged[i].row) = MergeKey(rows[j])
      /\ \A i \in 1 .. N : ShowsOneOf(rows, Len(rows), merged[i])
  BY <1>1 DEF MergedFrom
<1>4. /\ order \in [1 .. N -> 1 .. N]
      /\ \A a, b \in 1 .. N : order[a] = order[b] => a = b
      /\ \A t \in 1 .. N : \E s \in 1 .. N : order[s] = t
  <2>1. order \in Bijection(1 .. N, 1 .. N)
    BY <1>1 DEF ReturnedFrom
  <2> HIDE DEF N
  <2> QED  BY <2>1, PermutationIs
<1>5. /\ \A m, n \in 1 .. N :
            m < n => merged[order[n]].row.start <= merged[order[m]].row.start
      /\ L = IF MaxResults <= N THEN MaxResults ELSE N
      /\ \A i \in 1 .. L : result[i] = merged[order[i]]
  BY <1>1 DEF ReturnedFrom
<1>6. L <= N /\ MaxResults \in Nat
  BY <1>2, <1>5, EvidenceAssumption
<1> HIDE DEF L
<1>7. \A i \in 1 .. N : Same(rows, Len(rows), merged[i].row) = alike(merged[i].row)
  BY <1>2 DEF Same
<1>8. keys = {MergeKey(merged[i].row) : i \in 1 .. N}
  <2>1. ASSUME NEW j \in DOMAIN rows
        PROVE  \E i \in 1 .. N : MergeKey(rows[j]) = MergeKey(merged[i].row)
    BY <1>2, <1>3
  <2>2. ASSUME NEW i \in 1 .. N
        PROVE  \E j \in DOMAIN rows : MergeKey(merged[i].row) = MergeKey(rows[j])
    <3>1. PICK j \in Same(rows, Len(rows), merged[i].row) : rows[j] = merged[i].row
      BY <1>3 DEF ShowsOneOf
    <3> QED  BY <1>2, <3>1 DEF Same
  <2> HIDE DEF N
  <2> QED  BY <2>1, <2>2
<1>9. Cardinality(keys) = N
  <2> DEFINE key == [i \in 1 .. N |-> MergeKey(merged[i].row)]
  <2>1. \A i, j \in 1 .. N : key[i] = key[j] => i = j
    BY <1>3
  <2>2. key \in [1 .. N -> keys] /\ \A t \in keys : \E i \in 1 .. N : key[i] = t
    BY <1>8
  <2> HIDE DEF key, N, keys
  <2> QED  BY <1>2, <2>1, <2>2, KeysAreCounted
<1>10. \A i \in 1 .. L : i \in 1 .. N /\ order[i] \in 1 .. N
  <2> HIDE DEF N
  <2>1. \A i \in 1 .. L : i \in 1 .. N
    BY <1>2, <1>6
  <2>2. \A i \in 1 .. N : order[i] \in 1 .. N
    BY <1>4
  <2> QED  BY <2>1, <2>2
<1>11. Cardinality(shown) = L
  <2> DEFINE key == [i \in 1 .. L |-> MergeKey(result[i].row)]
  <2>1. \A i, j \in 1 .. L : key[i] = key[j] => i = j
    <3> SUFFICES ASSUME NEW i \in 1 .. L, NEW j \in 1 .. L, key[i] = key[j] PROVE i = j
      OBVIOUS
    <3>1. MergeKey(merged[order[i]].row) = MergeKey(merged[order[j]].row)
      BY <1>5
    <3>2. order[i] = order[j]
      BY <1>3, <1>10, <3>1
    <3> QED  BY <1>4, <1>10, <3>2
  <2>2. key \in [1 .. L -> shown] /\ \A t \in shown : \E i \in 1 .. L : key[i] = t
    BY <1>2
  <2> HIDE DEF key, shown
  <2> QED  BY <1>2, <2>1, <2>2, KeysAreCounted
<1>12. L = Min({MaxResults, Cardinality(keys)})
  <2> HIDE DEF N, keys
  <2> QED  BY <1>2, <1>5, <1>6, <1>9, MinOfTwo
<1>13. ASSUME NEW left \in keys \ shown, NEW i \in DOMAIN result
       PROVE  left[2] <= result[i].row.start
  <2>1. PICK p \in 1 .. N : left = MergeKey(merged[p].row)
    BY <1>8, <1>13
  <2>2. PICK q \in 1 .. N : order[q] = p
    BY <1>4
  <2>3. i \in 1 .. L /\ i \in 1 .. N /\ result[i] = merged[order[i]]
    BY <1>2, <1>5, <1>10, <1>13
  <2>4. q \notin 1 .. L
    <3>1. ASSUME q \in 1 .. L PROVE FALSE
      <4>1. left = MergeKey(result[q].row) /\ q \in DOMAIN result
        BY <1>2, <1>5, <2>1, <2>2, <3>1
      <4> QED  BY <1>13, <4>1
    <3> QED  BY <3>1
  <2>5. i < q
    BY <1>2, <2>3, <2>4
  <2>6. merged[p].row.start <= result[i].row.start
    BY <1>5, <2>2, <2>3, <2>5
  <2>7. left[2] = merged[p].row.start
    BY <2>1 DEF MergeKey
  <2> QED  BY <2>6, <2>7
<1>14. ASSUME NEW i \in DOMAIN result
       PROVE  /\ \E j \in alike(result[i].row) : rows[j] = result[i].row
              /\ Priority(result[i].row.source) = 0 => better(result[i].row) = {}
              /\ result[i].thumb <=> \E j \in alike(result[i].row) : HasThumbnail(rows[j])
  <2> DEFINE event == result[i]
             same == alike(event.row)
  <2>1. order[i] \in 1 .. N /\ event = merged[order[i]]
    BY <1>2, <1>5, <1>10, <1>14
  <2>2. ShowsOneOf(rows, Len(rows), event) /\ Same(rows, Len(rows), event.row) = same
    BY <1>3, <1>7, <2>1
  <2> HIDE DEF event, same
  <2>3. /\ \E j \in same : rows[j] = event.row
        /\ event.thumb <=> \E j \in same : HasThumbnail(rows[j])
        /\ Priority(event.row.source) = 0 => \A j \in same : Priority(rows[j].source) = 0
    BY <2>2 DEF ShowsOneOf
  <2>4. Priority(event.row.source) = 0 => better(event.row) = {}
    BY <2>3 DEF same
  <2> QED  BY <2>3, <2>4 DEF event, same
<1> HIDE DEF keys, shown, alike, better
<1>15. LosesNothing(rows, result)
  BY <1>11, <1>12, <1>13, <1>14 DEF LosesNothing, keys, shown, alike, better, L
<1> QED  BY <1>15 DEF result

-----------------------------------------------------------------------------
(* The searches and their station queries.                                 *)

SearchShape(x) ==
    x = [at |-> x.at, source |-> x.source, events |-> x.events, warned |-> x.warned,
         result |-> x.result]

TaskShape(t) == t = [at |-> t.at, step |-> t.step, rows |-> t.rows, warned |-> t.warned]

(* A search and a query for every name and station.                        *)
Shapes ==
    /\ search = [w \in Search |-> search[w]]
    /\ task = [w \in Search |-> [s \in Station |-> task[w][s]]]
    /\ \A w \in Search : SearchShape(search[w])
    /\ \A w \in Search : \A s \in Station : TaskShape(task[w][s])

(* A query runs against a station that advertises it, a HomeBase's own     *)
(* database after a failed AIC query only with a warning; one that is over *)
(* without a warning has answered what the search has to read.             *)
QueryIsOwed(t, s, source) ==
    /\ t.warned \in BOOLEAN
    /\ t.at \in {"waiting", "asking"} =>
         \/ t.step = "aic" /\ s \in Aic
         \/ t.step = "local" /\ s \in Local \ Pro /\ (s \in Aic => t.warned)
    /\ t.at = "done" /\ ~t.warned =>
         IF s \in Aic THEN t.step = "aic"
         ELSE s \in Local \ Pro /\ source # "latest" => t.step = "local"

QueriesFollowSearch ==
    \A w \in Search :
        /\ search[w].at \in {"idle", "account", "stations", "merged", "abandoned"}
        /\ \A s \in Station :
              /\ task[w][s].at \in {"none", "waiting", "asking", "done"}
              /\ task[w][s].at # "none" <=> search[w].at \in {"stations", "abandoned"}
              /\ QueryIsOwed(task[w][s], s, search[w].source)

AskingPro(w, s) == Asking(w, s) /\ ProQuery(s, task[w][s].step)
AskingHomeBase(w, s) == Asking(w, s) /\ ~ProQuery(s, task[w][s].step)

(* _pro_evidence_lock lets one Pro query of all searches run, the          *)
(* semaphore one HomeBase query of each.                                   *)
LocksAdmitOne ==
    /\ \A v \in Search : \A w \in Search : \A s \in Station : \A t \in Station :
          AskingPro(v, s) /\ AskingPro(w, t) => v = w /\ s = t
    /\ \A w \in Search : \A s \in Station : \A t \in Station :
          AskingHomeBase(w, s) /\ AskingHomeBase(w, t) => s = t

(* A Pro query runs with the lock.                                         *)
HelpersInv ==
    /\ proLock \in BOOLEAN
    /\ helper \in [Pro -> Search \union {None}] /\ answer \in [Pro -> BOOLEAN]
    /\ \A w \in Search : \A s \in Station : AskingPro(w, s) => proLock

(* The inductive invariant: of the queries and of the lock.                *)
QueriesInv == Shapes /\ QueriesFollowSearch /\ LocksAdmitOne
EvidenceInv == QueriesInv /\ HelpersInv

LEMMA InitEstablishesEvidenceInv == RefreshInit => EvidenceInv
<1> SUFFICES ASSUME RefreshInit PROVE EvidenceInv
  OBVIOUS
<1>1. /\ search = [w \in Search |-> Idle]
      /\ task = [w \in Search |-> [s \in Station |-> NoTask]]
  BY DEF RefreshInit, SearchInit
<1>2. /\ SearchShape(Idle) /\ TaskShape(NoTask)
      /\ Idle.at = "idle" /\ NoTask.at = "none" /\ NoTask.warned = FALSE
  BY DEF SearchShape, TaskShape, Idle, NoTask
<1>3. \A w \in Search : search[w] = Idle /\ \A s \in Station : task[w][s] = NoTask
  BY <1>1
<1>4. Shapes
  BY <1>1, <1>2, <1>3 DEF Shapes
<1>5. QueriesFollowSearch
  BY <1>2, <1>3 DEF QueriesFollowSearch, QueryIsOwed
<1>6. LocksAdmitOne
  BY <1>2, <1>3 DEF LocksAdmitOne, AskingPro, AskingHomeBase, Asking
<1>7. HelpersInv
  <2>1. ASSUME NEW w \in Search, NEW s \in Station PROVE ~AskingPro(w, s)
    BY <1>2, <1>3 DEF AskingPro, Asking
  <2> QED  BY <2>1 DEF HelpersInv, RefreshInit, SearchInit
<1> QED  BY <1>4, <1>5, <1>6, <1>7 DEF EvidenceInv, QueriesInv

(* Every step changes one search to some r and its queries to some q.  It  *)
(* keeps the invariant when q is owed to r, and when at most one query     *)
(* starts in it, through a free lock.                                      *)
LEMMA UpdateKeepsQueriesInv ==
  ASSUME EvidenceInv, NEW w \in Search, NEW STATE r, NEW STATE q,
         search' = [search EXCEPT ![w] = r], task' = [task EXCEPT ![w] = q],
         SearchShape(r), q = [s \in Station |-> q[s]],
         \A s \in Station : TaskShape(q[s]),
         r.at \in {"idle", "account", "stations", "merged", "abandoned"},
         \A s \in Station :
            /\ q[s].at \in {"none", "waiting", "asking", "done"}
            /\ (q[s].at # "none" <=> r.at \in {"stations", "abandoned"})
            /\ QueryIsOwed(q[s], s, r.source),
         \A s \in Station : q[s].at = "asking" =>
            \/ Asking(w, s) /\ q[s].step = task[w][s].step
            \/ /\ LockFree(w, s) /\ q[s].step = task[w][s].step
               /\ \A t \in Station : t # s => q[t] = task[w][t]
  PROVE  QueriesInv'
<1>1. /\ search = [v \in Search |-> search[v]]
      /\ task = [v \in Search |-> [s \in Station |-> task[v][s]]]
      /\ \A v \in Search : SearchShape(search[v])
      /\ \A v \in Search : \A s \in Station : TaskShape(task[v][s])
  BY DEF EvidenceInv, QueriesInv, Shapes
<1>2. /\ search'[w] = r /\ task'[w] = q
      /\ \A v \in Search : v # w => search'[v] = search[v] /\ task'[v] = task[v]
  BY <1>1
<1>3. /\ search' = [v \in Search |-> search'[v]]
      /\ task' = [v \in Search |-> task'[v]]
  BY <1>1
<1>4. \A v \in Search : task'[v] = [s \in Station |-> task'[v][s]]
  <2>1. ASSUME NEW v \in Search, v # w PROVE task'[v] = [s \in Station |-> task'[v][s]]
    <3>1. task[v] = [s \in Station |-> task[v][s]]
      BY <1>1
    <3> QED  BY <1>2, <2>1, <3>1
  <2> QED  BY <1>2, <2>1
<1>5. Shapes'
  <2>1. task' = [v \in Search |-> [s \in Station |-> task'[v][s]]]
    BY <1>3, <1>4
  <2>2. \A v \in Search : SearchShape(search[v])'
    BY <1>1, <1>2 DEF SearchShape
  <2>3. \A v \in Search : \A s \in Station : TaskShape(task[v][s])'
    BY <1>1, <1>2 DEF TaskShape
  <2> QED  BY <1>3, <2>1, <2>2, <2>3 DEF Shapes
<1>6. QueriesFollowSearch'
  BY <1>2 DEF EvidenceInv, QueriesInv, QueriesFollowSearch, QueryIsOwed
<1>7. ASSUME NEW s \in Station, q[s].at = "asking", ~Asking(w, s)
      PROVE  /\ LockFree(w, s) /\ q[s].step = task[w][s].step
             /\ \A t \in Station : t # s => q[t] = task[w][t]
  BY <1>7
<1>8. ASSUME NEW s \in Station, q[s].at = "asking", Asking(w, s)
      PROVE  q[s].step = task[w][s].step
  BY <1>8
<1>9. ASSUME NEW v \in Search, NEW u \in Search, NEW s \in Station, NEW t \in Station,
             AskingPro(v, s)', AskingPro(u, t)'
      PROVE  v = u /\ s = t
  <2>1. \A x \in Search : \A y \in Station :
           AskingPro(x, y)' => \/ AskingPro(x, y)
                               \/ /\ x = w /\ ~Asking(w, y) /\ q[y].at = "asking"
                                  /\ ProQuery(y, task[w][y].step)
    BY <1>2, <1>8, <1>7 DEF AskingPro, Asking
  <2>2. ASSUME NEW x \in Search, NEW y \in Station, NEW z \in Station, AskingPro(x, y),
               q[z].at = "asking", ~Asking(w, z), ProQuery(z, task[w][z].step)
        PROVE  FALSE
    BY <1>7, <2>2 DEF LockFree, EvidenceInv, HelpersInv
  <2>3. ASSUME NEW y \in Station, NEW z \in Station, y # z,
               q[y].at = "asking", ~Asking(w, y), q[z].at = "asking", ~Asking(w, z)
        PROVE  FALSE
    BY <1>7, <2>3 DEF Asking
  <2>4. CASE AskingPro(v, s) /\ AskingPro(u, t)
    BY <2>4 DEF EvidenceInv, QueriesInv, LocksAdmitOne
  <2> QED  BY <1>9, <2>1, <2>2, <2>3, <2>4
<1>10. ASSUME NEW v \in Search, NEW s \in Station, NEW t \in Station,
              AskingHomeBase(v, s)', AskingHomeBase(v, t)'
       PROVE  s = t
  <2>1. \A y \in Station :
           AskingHomeBase(v, y)' => \/ AskingHomeBase(v, y)
                                    \/ /\ v = w /\ ~Asking(w, y) /\ q[y].at = "asking"
                                       /\ ~ProQuery(y, task[w][y].step)
    BY <1>2, <1>8, <1>7 DEF AskingHomeBase, Asking
  <2>2. ASSUME NEW y \in Station, NEW z \in Station, AskingHomeBase(w, y),
               q[z].at = "asking", ~Asking(w, z), ~ProQuery(z, task[w][z].step)
        PROVE  FALSE
    BY <1>7, <2>2 DEF LockFree, AskingHomeBase
  <2>3. ASSUME NEW y \in Station, NEW z \in Station, y # z,
               q[y].at = "asking", ~Asking(w, y), q[z].at = "asking", ~Asking(w, z)
        PROVE  FALSE
    BY <1>7, <2>3 DEF Asking
  <2>4. CASE AskingHomeBase(v, s) /\ AskingHomeBase(v, t)
    BY <2>4 DEF EvidenceInv, QueriesInv, LocksAdmitOne
  <2> QED  BY <1>10, <2>1, <2>2, <2>3, <2>4
<1>11. LocksAdmitOne'
  BY <1>9, <1>10 DEF LocksAdmitOne
<1> QED  BY <1>5, <1>6, <1>11 DEF EvidenceInv, QueriesInv

(* What is known of a search and its queries as they are.                  *)
LEMMA SearchAsItIs ==
  ASSUME EvidenceInv, NEW w \in Search
  PROVE  /\ SearchShape(search[w])
         /\ search[w].at \in {"idle", "account", "stations", "merged", "abandoned"}
         /\ task[w] = [s \in Station |-> task[w][s]]
         /\ task = [task EXCEPT ![w] = task[w]]
         /\ search = [search EXCEPT ![w] = search[w]]
         /\ \A s \in Station :
               /\ TaskShape(task[w][s])
               /\ task[w][s].at \in {"none", "waiting", "asking", "done"}
               /\ (task[w][s].at # "none" <=> search[w].at \in {"stations", "abandoned"})
               /\ QueryIsOwed(task[w][s], s, search[w].source)
<1>1. /\ search = [v \in Search |-> search[v]]
      /\ task = [v \in Search |-> [s \in Station |-> task[v][s]]]
  BY DEF EvidenceInv, QueriesInv, Shapes
<1>2. task[w] = [s \in Station |-> task[w][s]]
  BY <1>1
<1>3. task = [task EXCEPT ![w] = task[w]] /\ search = [search EXCEPT ![w] = search[w]]
  BY <1>1
<1> QED  BY <1>2, <1>3 DEF EvidenceInv, QueriesInv, Shapes, QueriesFollowSearch

(* What comes after the AIC view is owed, and no query runs yet.           *)
LEMMA AfterAicIsOwed ==
  ASSUME NEW STATE source, NEW s \in Station, NEW STATE warned, warned \in BOOLEAN,
         s \in Aic => warned
  PROVE  /\ TaskShape(AfterAic(source, s, warned))
         /\ AfterAic(source, s, warned).at \in {"waiting", "done"}
         /\ QueryIsOwed(AfterAic(source, s, warned), s, source)
<1>1. CASE source # "latest" /\ s \in Local \ Pro
  <2>1. AfterAic(source, s, warned)
          = [at |-> "waiting", step |-> "local", rows |-> <<>>, warned |-> warned]
    BY <1>1 DEF AfterAic, NoTask
  <2> QED  BY <1>1, <2>1 DEF TaskShape, QueryIsOwed
<1>2. CASE ~(source # "latest" /\ s \in Local \ Pro)
  <2>1. AfterAic(source, s, warned)
          = [at |-> "done", step |-> "none", rows |-> <<>>, warned |-> warned]
    BY <1>2 DEF AfterAic, NoTask
  <2> QED  BY <1>2, <2>1 DEF TaskShape, QueryIsOwed
<1> QED  BY <1>1, <1>2

(* A search starts with one query owed for every station.                  *)
LEMMA QueriesAreOwed ==
  ASSUME NEW STATE source
  PROVE  /\ Queries(source) = [s \in Station |-> Queries(source)[s]]
         /\ \A s \in Station : /\ TaskShape(Queries(source)[s])
                               /\ Queries(source)[s].at \in {"waiting", "done"}
                               /\ QueryIsOwed(Queries(source)[s], s, source)
<1>1. ASSUME NEW s \in Station, s \in Aic
      PROVE  Queries(source)[s]
               = [at |-> "waiting", step |-> "aic", rows |-> <<>>, warned |-> FALSE]
  BY <1>1 DEF Queries, NoTask
<1>2. ASSUME NEW s \in Station, s \notin Aic
      PROVE  Queries(source)[s] = AfterAic(source, s, FALSE)
  BY <1>2 DEF Queries
<1>3. ASSUME NEW s \in Station
      PROVE  /\ TaskShape(Queries(source)[s])
             /\ Queries(source)[s].at \in {"waiting", "done"}
             /\ QueryIsOwed(Queries(source)[s], s, source)
  <2>1. CASE s \in Aic
    <3> DEFINE t == Queries(source)[s]
    <3>1. t = [at |-> "waiting", step |-> "aic", rows |-> <<>>, warned |-> FALSE]
      BY <1>1, <2>1
    <3> HIDE DEF t
    <3>2. TaskShape(t) /\ t.at \in {"waiting", "done"} /\ QueryIsOwed(t, s, source)
      BY <2>1, <3>1 DEF TaskShape, QueryIsOwed
    <3> QED  BY <3>2 DEF t
  <2>2. CASE s \notin Aic
    <3>1. FALSE \in BOOLEAN /\ (s \in Aic => FALSE)
      BY <2>2
    <3>2. /\ TaskShape(AfterAic(source, s, FALSE))
          /\ AfterAic(source, s, FALSE).at \in {"waiting", "done"}
          /\ QueryIsOwed(AfterAic(source, s, FALSE), s, source)
      BY <3>1, AfterAicIsOwed
    <3>3. Queries(source)[s] = AfterAic(source, s, FALSE)
      BY <1>2, <2>2
    <3> QED  BY <3>2, <3>3
  <2> QED  BY <2>1, <2>2
<1>4. Queries(source) = [s \in Station |-> Queries(source)[s]]
  BY DEF Queries
<1> QED  BY <1>3, <1>4

LEMMA NothingToAsk ==
  /\ NoTask.at = "none" /\ TaskShape(NoTask)
  /\ Idle.at = "idle" /\ SearchShape(Idle)
  /\ \A s \in Station : \A source : QueryIsOwed(NoTask, s, source)
  BY DEF NoTask, Idle, TaskShape, SearchShape, QueryIsOwed

(* One query of a search goes on.                                          *)
LEMMA QueryStepKeepsQueriesInv ==
  ASSUME EvidenceInv, NEW w \in Search, NEW s \in Station, NEW STATE t,
         task' = [task EXCEPT ![w][s] = t], search' = search,
         task[w][s].at # "none", TaskShape(t), t.at \in {"waiting", "asking", "done"},
         QueryIsOwed(t, s, search[w].source),
         t.at = "asking" => /\ Asking(w, s) \/ LockFree(w, s)
                            /\ t.step = task[w][s].step
  PROVE  QueriesInv'
<1> DEFINE q == [task[w] EXCEPT ![s] = t]
<1>1. task' = [task EXCEPT ![w] = q] /\ search' = [search EXCEPT ![w] = search[w]]
  BY SearchAsItIs
<1>2. /\ q = [u \in Station |-> q[u]]
      /\ q[s] = t /\ \A u \in Station : u # s => q[u] = task[w][u]
  <2>1. task[w] = [u \in Station |-> task[w][u]]
    BY SearchAsItIs
  <2> QED  BY <2>1
<1> HIDE DEF q
<1>3. /\ SearchShape(search[w])
      /\ search[w].at \in {"idle", "account", "stations", "merged", "abandoned"}
      /\ \A u \in Station : TaskShape(q[u])
  <2>1. \A u \in Station : TaskShape(task[w][u])
    BY SearchAsItIs
  <2>2. \A u \in Station : TaskShape(q[u])
    BY <1>2, <2>1
  <2> QED  BY <2>2, SearchAsItIs
<1>4. \A u \in Station :
         /\ q[u].at \in {"none", "waiting", "asking", "done"}
         /\ (q[u].at # "none" <=> search[w].at \in {"stations", "abandoned"})
         /\ QueryIsOwed(q[u], u, search[w].source)
  <2>1. ASSUME NEW u \in Station, u # s
        PROVE  /\ q[u].at \in {"none", "waiting", "asking", "done"}
               /\ (q[u].at # "none" <=> search[w].at \in {"stations", "abandoned"})
               /\ QueryIsOwed(q[u], u, search[w].source)
    <3>1. q[u] = task[w][u]
      BY <1>2, <2>1
    <3>2. /\ task[w][u].at \in {"none", "waiting", "asking", "done"}
          /\ (task[w][u].at # "none" <=> search[w].at \in {"stations", "abandoned"})
          /\ QueryIsOwed(task[w][u], u, search[w].source)
      BY SearchAsItIs
    <3> QED  BY <3>1, <3>2
  <2>2. /\ q[s].at \in {"none", "waiting", "asking", "done"}
        /\ (q[s].at # "none" <=> search[w].at \in {"stations", "abandoned"})
        /\ QueryIsOwed(q[s], s, search[w].source)
    <3>1. task[w][s].at # "none" <=> search[w].at \in {"stations", "abandoned"}
      BY SearchAsItIs
    <3> QED  BY <1>2, <3>1
  <2> QED  BY <2>1, <2>2
<1>5. \A u \in Station : q[u].at = "asking" =>
         \/ Asking(w, u) /\ q[u].step = task[w][u].step
         \/ /\ LockFree(w, u) /\ q[u].step = task[w][u].step
            /\ \A v \in Station : v # u => q[v] = task[w][v]
  BY <1>2 DEF Asking
<1> QED  BY <1>1, <1>2, <1>3, <1>4, <1>5, UpdateKeepsQueriesInv

(* A search goes on, with queries as they are, none, or all new ones.      *)
LEMMA SearchStepKeepsQueriesInv ==
  ASSUME EvidenceInv, NEW w \in Search, NEW STATE r,
         search' = [search EXCEPT ![w] = r], SearchShape(r),
         r.at \in {"idle", "account", "stations", "merged", "abandoned"},
         \/ /\ task' = task
            /\ r.at \in {"stations", "abandoned"}
                 <=> search[w].at \in {"stations", "abandoned"}
            /\ r.at \in {"stations", "abandoned"} => r.source = search[w].source
         \/ task' = [task EXCEPT ![w] = [s \in Station |-> NoTask]] /\ r.at \in {"idle", "merged"}
         \/ task' = [task EXCEPT ![w] = Queries(r.source)] /\ r.at = "stations"
  PROVE  QueriesInv'
<1>1. CASE /\ task' = task
           /\ r.at \in {"stations", "abandoned"}
                <=> search[w].at \in {"stations", "abandoned"}
           /\ r.at \in {"stations", "abandoned"} => r.source = search[w].source
  <2>1. /\ task' = [task EXCEPT ![w] = task[w]]
        /\ task[w] = [s \in Station |-> task[w][s]]
        /\ \A s \in Station : TaskShape(task[w][s])
    BY <1>1, SearchAsItIs
  <2>2. \A s \in Station :
           /\ task[w][s].at \in {"none", "waiting", "asking", "done"}
           /\ (task[w][s].at # "none" <=> r.at \in {"stations", "abandoned"})
           /\ QueryIsOwed(task[w][s], s, r.source)
    <3>1. ASSUME NEW s \in Station
          PROVE  /\ task[w][s].at \in {"none", "waiting", "asking", "done"}
                 /\ (task[w][s].at # "none" <=> r.at \in {"stations", "abandoned"})
                 /\ QueryIsOwed(task[w][s], s, search[w].source)
      BY <1>1, SearchAsItIs
    <3>2. ASSUME NEW s \in Station PROVE QueryIsOwed(task[w][s], s, r.source)
      <4>1. CASE r.at \in {"stations", "abandoned"}
        BY <1>1, <3>1, <4>1
      <4>2. CASE task[w][s].at = "none"
        BY <3>1, <4>2 DEF QueryIsOwed
      <4> QED  BY <3>1, <4>1, <4>2
    <3> QED  BY <3>1, <3>2
  <2>3. \A s \in Station : task[w][s].at = "asking" => Asking(w, s)
    BY DEF Asking
  <2> QED  BY <2>1, <2>2, <2>3, UpdateKeepsQueriesInv
<1>2. CASE task' = [task EXCEPT ![w] = [s \in Station |-> NoTask]] /\ r.at \in {"idle", "merged"}
  <2> DEFINE q == [s \in Station |-> NoTask]
  <2>1. q = [s \in Station |-> q[s]] /\ \A s \in Station : q[s] = NoTask
    OBVIOUS
  <2>2. task' = [task EXCEPT ![w] = q]
    BY <1>2
  <2> HIDE DEF q
  <2>3. /\ \A s \in Station : TaskShape(q[s])
        /\ \A s \in Station : q[s].at = "none"
    BY <2>1, NothingToAsk
  <2>4. \A s \in Station :
           /\ q[s].at \in {"none", "waiting", "asking", "done"}
           /\ (q[s].at # "none" <=> r.at \in {"stations", "abandoned"})
           /\ QueryIsOwed(q[s], s, r.source)
    BY <1>2, <2>1, <2>3, NothingToAsk
  <2> QED  BY <2>1, <2>2, <2>3, <2>4, UpdateKeepsQueriesInv
<1>3. CASE task' = [task EXCEPT ![w] = Queries(r.source)] /\ r.at = "stations"
  <2> DEFINE q == Queries(r.source)
  <2>1. /\ task' = [task EXCEPT ![w] = q]
        /\ q = [s \in Station |-> q[s]]
        /\ \A s \in Station : /\ TaskShape(q[s])
                              /\ q[s].at \in {"waiting", "done"}
                              /\ QueryIsOwed(q[s], s, r.source)
    BY <1>3, QueriesAreOwed
  <2> HIDE DEF q
  <2>2. \A s \in Station :
           /\ q[s].at \in {"none", "waiting", "asking", "done"}
           /\ (q[s].at # "none" <=> r.at \in {"stations", "abandoned"})
           /\ QueryIsOwed(q[s], s, r.source)
    BY <1>3, <2>1
  <2>3. \A s \in Station : TaskShape(q[s]) /\ q[s].at # "asking"
    BY <2>1
  <2> QED  BY <2>1, <2>2, <2>3, UpdateKeepsQueriesInv
<1> QED  BY <1>1, <1>2, <1>3

(* What a failed query leaves is owed.                                     *)
LEMMA FailureIsOwed ==
  ASSUME EvidenceInv, NEW w \in Search, NEW s \in Station, task[w][s].at \in {"waiting", "asking"}
  PROVE  /\ TaskShape(AfterFailure(w, s)) /\ AfterFailure(w, s).at \in {"waiting", "done"}
         /\ QueryIsOwed(AfterFailure(w, s), s, search[w].source)
<1>1. CASE task[w][s].step = "aic"
  <2>1. TRUE \in BOOLEAN /\ (s \in Aic => TRUE)
    OBVIOUS
  <2>2. /\ TaskShape(AfterAic(search[w].source, s, TRUE))
        /\ AfterAic(search[w].source, s, TRUE).at \in {"waiting", "done"}
        /\ QueryIsOwed(AfterAic(search[w].source, s, TRUE), s, search[w].source)
    BY <2>1, AfterAicIsOwed
  <2> QED  BY <1>1, <2>2 DEF AfterFailure
<1>2. CASE task[w][s].step # "aic"
  <2>1. AfterFailure(w, s) = [at |-> "done", step |-> "none", rows |-> <<>>, warned |-> TRUE]
    BY <1>2 DEF AfterFailure, NoTask
  <2> QED  BY <2>1 DEF TaskShape, QueryIsOwed
<1> QED  BY <1>1, <1>2

(* The station queries, answered or failed.                                *)
LEMMA StationStepsKeepQueriesInv ==
  ASSUME EvidenceInv, NEW w \in Search, NEW s \in Station,
         QueryStation(w, s) \/ AicAnswers(w, s) \/ LocalAnswers(w, s) \/ QueryFails(w, s)
  PROVE  QueriesInv'
<1>1. /\ TaskShape(task[w][s]) /\ QueryIsOwed(task[w][s], s, search[w].source)
  BY SearchAsItIs
<1>2. CASE QueryStation(w, s) /\ ~Refused(w, s)
  <2> DEFINE t == [task[w][s] EXCEPT !.at = "asking"]
  <2>1. /\ task[w][s].at = "waiting" /\ LockFree(w, s) /\ search' = search
        /\ task' = [task EXCEPT ![w][s] = t]
    BY <1>2 DEF QueryStation
  <2>2. t = [at |-> "asking", step |-> task[w][s].step, rows |-> task[w][s].rows,
             warned |-> task[w][s].warned]
    BY <1>1 DEF TaskShape
  <2> HIDE DEF t
  <2>3. TaskShape(t) /\ t.at = "asking" /\ QueryIsOwed(t, s, search[w].source)
        /\ t.step = task[w][s].step
    BY <1>1, <2>1, <2>2 DEF TaskShape, QueryIsOwed
  <2> QED  BY <2>1, <2>3, QueryStepKeepsQueriesInv
<1>3. CASE (QueryStation(w, s) /\ Refused(w, s)) \/ QueryFails(w, s)
  <2>1. /\ task[w][s].at \in {"waiting", "asking"} /\ search' = search
        /\ task' = [task EXCEPT ![w][s] = AfterFailure(w, s)]
    BY <1>3 DEF QueryStation, QueryFails, Asking
  <2>2. /\ TaskShape(AfterFailure(w, s)) /\ AfterFailure(w, s).at \in {"waiting", "done"}
        /\ QueryIsOwed(AfterFailure(w, s), s, search[w].source)
    BY <2>1, FailureIsOwed
  <2> QED  BY <2>1, <2>2, QueryStepKeepsQueriesInv
<1>4. ASSUME NEW rows, Asking(w, s), Answered(w, s, rows),
             task[w][s].step = "aic" \/ task[w][s].step = "local"
      PROVE  QueriesInv'
  <2> DEFINE t == [at |-> "done", step |-> task[w][s].step, rows |-> rows,
                   warned |-> task[w][s].warned]
             over == [task[w][s] EXCEPT !.at = "done"]
  <2>1. task[w][s].at = "asking" /\ search' = search
        /\ task' = [task EXCEPT ![w][s] = t]
    <3>1. /\ task = [v \in Search |-> [u \in Station |-> task[v][u]]]
          /\ task[w] = [u \in Station |-> task[w][u]]
      BY SearchAsItIs DEF EvidenceInv, QueriesInv, Shapes
    <3>2. task' = [task EXCEPT ![w][s].at = "done", ![w][s].rows = rows]
      BY <1>4 DEF Answered
    <3>3. over = [at |-> "done", step |-> task[w][s].step, rows |-> task[w][s].rows,
                  warned |-> task[w][s].warned]
      BY <1>1 DEF TaskShape
    <3>4. task' = [task EXCEPT ![w][s] = [over EXCEPT !.rows = rows]]
      BY <3>1, <3>2
    <3> HIDE DEF over
    <3>5. [over EXCEPT !.rows = rows] = t
      BY <3>3
    <3> QED  BY <1>4, <3>4, <3>5 DEF Answered, Asking
  <2>2. TaskShape(t) /\ t.at = "done" /\ QueryIsOwed(t, s, search[w].source)
    BY <1>1, <1>4, <2>1 DEF TaskShape, QueryIsOwed
  <2> HIDE DEF t
  <2> QED  BY <2>1, <2>2, QueryStepKeepsQueriesInv
<1>5. CASE AicAnswers(w, s) \/ LocalAnswers(w, s)
  BY <1>4, <1>5 DEF AicAnswers, LocalAnswers
<1> QED  BY <1>2, <1>3, <1>5

(* A search begins, with the account index or with its queries.            *)
LEMMA BeginSearchIs ==
  ASSUME EvidenceInv, NEW w \in Search, NEW source, BeginSearch(w, source)
  PROVE  /\ search[w].at = "idle"
         /\ search' = [search EXCEPT ![w] =
               [at |-> IF source = "local" THEN "stations" ELSE "account", source |-> source,
                events |-> search[w].events, warned |-> search[w].warned,
                result |-> search[w].result]]
<1> DEFINE at == IF source = "local" THEN "stations" ELSE "account"
           r == [at |-> at, source |-> source, events |-> search[w].events,
                 warned |-> search[w].warned, result |-> search[w].result]
           begun0 == [search[w] EXCEPT !.at = at]
<1>1. SearchShape(search[w]) /\ search[w].at = "idle"
  BY SearchAsItIs DEF BeginSearch
<1>2. begun0 = [at |-> at, source |-> search[w].source, events |-> search[w].events,
                warned |-> search[w].warned, result |-> search[w].result]
  BY <1>1 DEF SearchShape
<1>3. search' = [search EXCEPT ![w] = [begun0 EXCEPT !.source = source]]
  BY DEF BeginSearch, EvidenceInv, QueriesInv, Shapes
<1> HIDE DEF begun0
<1>4. [begun0 EXCEPT !.source = source] = r
  BY <1>2
<1> QED  BY <1>1, <1>3, <1>4

LEMMA BeginSearchKeepsQueriesInv ==
  ASSUME EvidenceInv, NEW w \in Search, NEW source, BeginSearch(w, source)
  PROVE  QueriesInv'
<1> DEFINE at == IF source = "local" THEN "stations" ELSE "account"
           r == [at |-> at, source |-> source, events |-> search[w].events,
                 warned |-> search[w].warned, result |-> search[w].result]
<1>1. search[w].at = "idle"
  BY BeginSearchIs
<1>2. search' = [search EXCEPT ![w] = r]
  BY BeginSearchIs
<1>3. /\ SearchShape(r) /\ r.at \in {"stations", "account"} /\ r.source = source
      /\ r.at = "stations" <=> source = "local"
  BY DEF SearchShape
<1>4. task' = IF source = "local" THEN [task EXCEPT ![w] = Queries(source)] ELSE task
  BY DEF BeginSearch
<1> HIDE DEF r
<1>5. CASE source = "local"
  BY <1>2, <1>3, <1>4, <1>5, SearchStepKeepsQueriesInv
<1>6. CASE source # "local"
  BY <1>1, <1>2, <1>3, <1>4, <1>6, SearchStepKeepsQueriesInv
<1> QED  BY <1>5, <1>6

(* What merging makes of a search.                                         *)
LEMMA MergeIs ==
  ASSUME EvidenceInv, NEW w \in Search, NEW STATE rows, NEW STATE warned
  PROVE  Merge(w, rows, warned)
           = [search EXCEPT ![w] = [at |-> "merged", source |-> search[w].source, events |-> rows,
                                    warned |-> warned, result |-> MergedEvents(rows)]]
<1> DEFINE e1 == [search[w] EXCEPT !.at = "merged"]
           e2 == [e1 EXCEPT !.events = rows]
           e3 == [e2 EXCEPT !.warned = warned]
           e4 == [e3 EXCEPT !.result = MergedEvents(rows)]
<1>1. search = [v \in Search |-> search[v]] /\ SearchShape(search[w])
  BY SearchAsItIs DEF EvidenceInv, QueriesInv, Shapes
<1>2. Merge(w, rows, warned) = [search EXCEPT ![w] = e4]
  BY <1>1 DEF Merge
<1>3. e1 = [at |-> "merged", source |-> search[w].source, events |-> search[w].events,
            warned |-> search[w].warned, result |-> search[w].result]
  BY <1>1 DEF SearchShape
<1> HIDE DEF e1
<1>4. e2 = [at |-> "merged", source |-> search[w].source, events |-> rows,
            warned |-> search[w].warned, result |-> search[w].result]
  BY <1>3
<1> HIDE DEF e2
<1>5. e3 = [at |-> "merged", source |-> search[w].source, events |-> rows,
            warned |-> warned, result |-> search[w].result]
  BY <1>4
<1> HIDE DEF e3
<1>6. e4 = [at |-> "merged", source |-> search[w].source, events |-> rows,
            warned |-> warned, result |-> MergedEvents(rows)]
  BY <1>5
<1> QED  BY <1>2, <1>6

(* The account index answers or fails.                                     *)
LEMMA AccountEndsIs ==
  ASSUME EvidenceInv, NEW w \in Search, NEW rows, NEW warned, AccountEnds(w, rows, warned)
  PROVE  /\ search[w].at = "account" /\ records' = FoldLeft(Remember, records, rows)
         /\ \/ /\ search' = [search EXCEPT ![w] =
                     [at |-> "merged", source |-> search[w].source, events |-> rows,
                      warned |-> warned, result |-> MergedEvents(rows)]]
               /\ task' = task
            \/ /\ search' = [search EXCEPT ![w] =
                     [at |-> "stations", source |-> search[w].source, events |-> rows,
                      warned |-> warned, result |-> search[w].result]]
               /\ task' = [task EXCEPT ![w] = Queries(search[w].source)]
<1>1. SearchShape(search[w]) /\ search[w].at = "account"
  BY SearchAsItIs DEF AccountEnds
<1>2. records' = FoldLeft(Remember, records, rows)
  BY DEF AccountEnds, RememberAll
<1>3. CASE search[w].source = "cloud"
  BY <1>1, <1>2, <1>3, MergeIs DEF AccountEnds
<1>4. CASE search[w].source # "cloud"
  <2> DEFINE e1 == [search[w] EXCEPT !.at = "stations"]
             e2 == [e1 EXCEPT !.events = rows]
  <2>1. search = [v \in Search |-> search[v]]
    BY DEF EvidenceInv, QueriesInv, Shapes
  <2>2. /\ search' = [search EXCEPT ![w] = [e2 EXCEPT !.warned = warned]]
        /\ task' = [task EXCEPT ![w] = Queries(search[w].source)]
    BY <1>4, <2>1 DEF AccountEnds
  <2>3. e1 = [at |-> "stations", source |-> search[w].source, events |-> search[w].events,
              warned |-> search[w].warned, result |-> search[w].result]
    BY <1>1 DEF SearchShape
  <2> HIDE DEF e1
  <2>4. e2 = [at |-> "stations", source |-> search[w].source, events |-> rows,
              warned |-> search[w].warned, result |-> search[w].result]
    BY <2>3
  <2> HIDE DEF e2
  <2>5. [e2 EXCEPT !.warned = warned]
          = [at |-> "stations", source |-> search[w].source, events |-> rows,
             warned |-> warned, result |-> search[w].result]
    BY <2>4
  <2> QED  BY <1>1, <1>2, <2>2, <2>5
<1> QED  BY <1>3, <1>4

LEMMA AccountEndsKeepsQueriesInv ==
  ASSUME EvidenceInv, NEW w \in Search, NEW rows, NEW warned, AccountEnds(w, rows, warned)
  PROVE  QueriesInv'
<1> DEFINE r == [at |-> "merged", source |-> search[w].source, events |-> rows,
                 warned |-> warned, result |-> MergedEvents(rows)]
           q == [at |-> "stations", source |-> search[w].source, events |-> rows,
                 warned |-> warned, result |-> search[w].result]
<1>1. /\ search[w].at = "account"
      /\ \/ search' = [search EXCEPT ![w] = r] /\ task' = task
         \/ /\ search' = [search EXCEPT ![w] = q]
            /\ task' = [task EXCEPT ![w] = Queries(search[w].source)]
  BY AccountEndsIs
<1>2. SearchShape(r) /\ r.at = "merged" /\ SearchShape(q) /\ q.at = "stations"
      /\ q.source = search[w].source
  BY DEF SearchShape
<1> HIDE DEF r, q
<1> QED  BY <1>1, <1>2, SearchStepKeepsQueriesInv

(* A search becomes what CollectStations makes of it.                      *)
LEMMA CollectStationsMerges ==
  ASSUME EvidenceInv, NEW w \in Search, CollectStations(w)
  PROVE  \E rows :
            /\ search' = [search EXCEPT ![w] =
                 [at |-> "merged", source |-> search[w].source, events |-> rows,
                  warned |-> search[w].warned
                               \union {s \in Station : task[w][s].at = "done" /\ task[w][s].warned}
                               \union {s \in Station : task[w][s].at # "done"},
                  result |-> MergedEvents(rows)]]
            /\ search[w].events \in Seq(Description)
                 /\ (\A s \in Station : task[w][s].rows \in Seq(Description))
                 => rows \in Seq(Description)
<1> DEFINE done == {s \in Station : task[w][s].at = "done"}
           rowsOf(s) == task[w][s].rows
           warned == {s \in done : task[w][s].warned} \union (Station \ done)
<1>1. PICK order \in SetToSeqs(done) :
         search' = Merge(w, FoldLeft(LAMBDA rows, s : rows \o rowsOf(s), search[w].events, order),
                         search[w].warned \union warned)
  BY Zenon DEF CollectStations
<1> DEFINE rows0 == FoldLeft(LAMBDA rows, s : rows \o rowsOf(s), search[w].events, order)
<1>2. search[w].warned \union warned
        = search[w].warned
            \union {s \in Station : task[w][s].at = "done" /\ task[w][s].warned}
            \union {s \in Station : task[w][s].at # "done"}
  OBVIOUS
<1>3. search' = Merge(w, rows0, search[w].warned \union warned)
  BY <1>1
<1> HIDE DEF rows0, warned
<1>4. search' = [search EXCEPT ![w] =
         [at |-> "merged", source |-> search[w].source, events |-> rows0,
          warned |-> search[w].warned \union warned, result |-> MergedEvents(rows0)]]
  BY <1>3, MergeIs
<1>5. order \in Seq(Station)
  <2>1. IsFiniteSet(done) /\ done \in SUBSET Station
    BY FS_Subset, EvidenceAssumption
  <2>2. Cardinality(done) \in Nat
    BY <2>1, FS_CardinalityType
  <2>3. order \in [1 .. Cardinality(done) -> done]
    BY Zenon DEF SetToSeqs
  <2> HIDE DEF done
  <2> QED  BY <2>1, <2>2, <2>3
<1>6. ASSUME search[w].events \in Seq(Description),
             \A s \in Station : task[w][s].rows \in Seq(Description)
      PROVE  rows0 \in Seq(Description)
  BY <1>5, <1>6, CollectedIs DEF rows0
<1> QED  BY <1>2, <1>4, <1>6

LEMMA CollectStationsKeepsQueriesInv ==
  ASSUME EvidenceInv, NEW w \in Search, CollectStations(w)
  PROVE  QueriesInv'
<1>1. PICK rows :
         search' = [search EXCEPT ![w] =
            [at |-> "merged", source |-> search[w].source, events |-> rows,
             warned |-> search[w].warned
                          \union {s \in Station : task[w][s].at = "done" /\ task[w][s].warned}
                          \union {s \in Station : task[w][s].at # "done"},
             result |-> MergedEvents(rows)]]
  BY CollectStationsMerges
<1> DEFINE warned == search[w].warned
                       \union {s \in Station : task[w][s].at = "done" /\ task[w][s].warned}
                       \union {s \in Station : task[w][s].at # "done"}
           r == [at |-> "merged", source |-> search[w].source, events |-> rows,
                 warned |-> warned, result |-> MergedEvents(rows)]
<1>2. search' = [search EXCEPT ![w] = r]
  BY <1>1
<1> HIDE DEF warned
<1>3. SearchShape(r) /\ r.at = "merged"
  BY DEF SearchShape
<1>4. task' = [task EXCEPT ![w] = [s \in Station |-> NoTask]]
  BY DEF CollectStations
<1> HIDE DEF r
<1> QED  BY <1>2, <1>3, <1>4, SearchStepKeepsQueriesInv

(* The caller takes the result or gives up.                                *)
LEMMA SearchEndsKeepsQueriesInv ==
  ASSUME EvidenceInv, NEW w \in Search, SearchReturns(w) \/ CallerGivesUp(w) \/ AbandonedEnds(w)
  PROVE  QueriesInv'
<1>1. CASE SearchReturns(w)
  BY <1>1, NothingToAsk, SearchStepKeepsQueriesInv DEF SearchReturns
<1>2. CASE CallerGivesUp(w) /\ search[w].at = "account"
  BY <1>2, NothingToAsk, SearchStepKeepsQueriesInv DEF CallerGivesUp, GivenUp
<1>3. CASE CallerGivesUp(w) /\ search[w].at # "account"
  <2> DEFINE left == [Idle EXCEPT !.at = "abandoned"]
             r == [left EXCEPT !.source = search[w].source]
  <2>1. /\ search' = [search EXCEPT ![w] = r] /\ task' = task
        /\ search[w].at = "stations"
    BY <1>3 DEF CallerGivesUp, GivenUp
  <2>2. r = [at |-> "abandoned", source |-> search[w].source, events |-> <<>>,
             warned |-> {}, result |-> <<>>]
    <3>1. left = [at |-> "abandoned", source |-> "none", events |-> <<>>, warned |-> {},
                  result |-> <<>>]
      BY DEF Idle
    <3> HIDE DEF left
    <3> QED  BY <3>1
  <2> HIDE DEF r
  <2>3. SearchShape(r) /\ r.at = "abandoned" /\ r.source = search[w].source
    BY <2>2 DEF SearchShape
  <2> QED  BY <2>1, <2>3, SearchStepKeepsQueriesInv
<1>4. CASE AbandonedEnds(w)
  BY <1>4, NothingToAsk, SearchStepKeepsQueriesInv DEF AbandonedEnds
<1> QED  BY <1>1, <1>2, <1>3, <1>4

LEMMA SearchStepsKeepQueriesInv ==
  ASSUME EvidenceInv, NEW w \in Search, SearchStep(w)
  PROVE  QueriesInv'
<1>1. CASE AccountAnswers(w) \/ AccountFails(w)
  BY <1>1, AccountEndsKeepsQueriesInv DEF AccountAnswers, AccountFails
<1>2. CASE \E s \in Station : \/ QueryStation(w, s) \/ AicAnswers(w, s)
                              \/ LocalAnswers(w, s) \/ QueryFails(w, s)
  BY <1>2, StationStepsKeepQueriesInv
<1>3. CASE CollectStations(w)
  BY <1>3, CollectStationsKeepsQueriesInv
<1>4. CASE AbandonedEnds(w)
  BY <1>4, SearchEndsKeepsQueriesInv
<1> QED  BY <1>1, <1>2, <1>3, <1>4 DEF SearchStep

(* The steps of the refresh alone leave every search as it is.             *)
LEMMA QuietStepKeepsQueriesInv ==
  ASSUME EvidenceInv, search' = search, task' = task
  PROVE  QueriesInv'
<1>1. Shapes' /\ QueriesFollowSearch'
  BY DEF EvidenceInv, QueriesInv, Shapes, QueriesFollowSearch, SearchShape, TaskShape, QueryIsOwed
<1>2. \A w \in Search : \A s \in Station :
         AskingPro(w, s)' = AskingPro(w, s) /\ AskingHomeBase(w, s)' = AskingHomeBase(w, s)
  BY DEF AskingPro, AskingHomeBase, Asking
<1>3. LocksAdmitOne'
  BY <1>2 DEF EvidenceInv, QueriesInv, LocksAdmitOne
<1> QED  BY <1>1, <1>3 DEF EvidenceInv, QueriesInv

(* What the steps do to the lock.                                          *)
HelpersSame == proLock' = proLock /\ helper' = helper /\ answer' = answer

LEMMA QuietStepKeepsHelpersInv ==
  ASSUME EvidenceInv, task' = task, proLock' = proLock,
         helper' \in [Pro -> Search \union {None}], answer' \in [Pro -> BOOLEAN]
  PROVE  HelpersInv'
BY DEF EvidenceInv, HelpersInv, AskingPro, Asking

(* A search whose queries start anew or end leaves the lock to the others. *)
LEMMA UpdateKeepsHelpersInv ==
  ASSUME EvidenceInv, NEW w \in Search, NEW STATE q, task' = [task EXCEPT ![w] = q],
         helper' = helper, answer' = answer, \A s \in Station : q[s].at # "asking",
         proLock' = proLock \/ proLock' = (proLock /\ ~AskingAPro(w))
  PROVE  HelpersInv'
<1>1. task'[w] = q /\ \A v \in Search : v # w => task'[v] = task[v]
  BY DEF EvidenceInv, QueriesInv, Shapes
<1>2. ASSUME NEW v \in Search, NEW s \in Station, AskingPro(v, s)' PROVE proLock'
  <2>1. v # w
    BY <1>1, <1>2 DEF AskingPro, Asking
  <2>2. AskingPro(v, s)
    BY <1>1, <1>2, <2>1 DEF AskingPro, Asking
  <2>3. proLock
    BY <2>2 DEF EvidenceInv, HelpersInv
  <2>4. ~AskingAPro(w)
    <3>1. ASSUME NEW t \in Station, AskingPro(w, t) PROVE FALSE
      BY <2>1, <2>2, <3>1 DEF EvidenceInv, QueriesInv, LocksAdmitOne
    <3> QED  BY <3>1 DEF AskingAPro, AskingPro
  <2> QED  BY <2>3, <2>4
<1>3. proLock' \in BOOLEAN
  BY DEF EvidenceInv, HelpersInv
<1> QED  BY <1>2, <1>3 DEF EvidenceInv, HelpersInv

(* One query starts with the lock, or ends and leaves it.                  *)
LEMMA QueryStepKeepsHelpersInv ==
  ASSUME EvidenceInv, NEW w \in Search, NEW s \in Station, NEW STATE t,
         task' = [task EXCEPT ![w][s] = t],
         helper' \in [Pro -> Search \union {None}], answer' \in [Pro -> BOOLEAN],
         proLock' \in BOOLEAN,
         t.at = "asking" /\ ProQuery(s, t.step) => proLock',
         proLock /\ ~proLock' => AskingPro(w, s)
  PROVE  HelpersInv'
<1>1. /\ task'[w][s] = t
      /\ \A v \in Search : \A u \in Station : v # w \/ u # s => task'[v][u] = task[v][u]
  BY DEF EvidenceInv, QueriesInv, Shapes
<1>2. ASSUME NEW v \in Search, NEW u \in Station, AskingPro(v, u)' PROVE proLock'
  <2>1. CASE v = w /\ u = s
    BY <1>1, <1>2, <2>1 DEF AskingPro, Asking
  <2>2. CASE v # w \/ u # s
    <3>1. AskingPro(v, u)
      BY <1>1, <1>2, <2>2 DEF AskingPro, Asking
    <3>2. proLock
      BY <3>1 DEF EvidenceInv, HelpersInv
    <3>3. ~AskingPro(w, s)
      BY <2>2, <3>1 DEF EvidenceInv, QueriesInv, LocksAdmitOne
    <3> QED  BY <3>2, <3>3
  <2> QED  BY <2>1, <2>2
<1> QED  BY <1>2 DEF HelpersInv

LEMMA StationStepsKeepHelpersInv ==
  ASSUME EvidenceInv, NEW w \in Search, NEW s \in Station,
         QueryStation(w, s) \/ AicAnswers(w, s) \/ LocalAnswers(w, s) \/ QueryFails(w, s)
  PROVE  HelpersInv'
<1>1. /\ proLock \in BOOLEAN
      /\ helper \in [Pro -> Search \union {None}] /\ answer \in [Pro -> BOOLEAN]
  BY DEF EvidenceInv, HelpersInv
<1>2. /\ proLock' \in BOOLEAN
      /\ helper' \in [Pro -> Search \union {None}] /\ answer' \in [Pro -> BOOLEAN]
  BY <1>1 DEF QueryStation, AicAnswers, LocalAnswers, QueryFails, Answered, LeavesLock
<1>3. CASE QueryStation(w, s) /\ ~Refused(w, s)
  <2> DEFINE t == [task[w][s] EXCEPT !.at = "asking"]
  <2>1. t.at = "asking" /\ t.step = task[w][s].step
    <3>1. TaskShape(task[w][s])
      BY SearchAsItIs
    <3> QED  BY <3>1 DEF TaskShape
  <2>2. task' = [task EXCEPT ![w][s] = t]
    BY <1>3 DEF QueryStation
  <2>3. IF ProQuery(s, task[w][s].step) THEN proLock' = TRUE ELSE proLock' = proLock
    BY <1>3 DEF QueryStation
  <2> HIDE DEF t
  <2> QED  BY <1>2, <2>1, <2>2, <2>3, QueryStepKeepsHelpersInv
<1>4. CASE (QueryStation(w, s) /\ Refused(w, s)) \/ QueryFails(w, s)
  <2>1. /\ task[w][s].at \in {"waiting", "asking"}
        /\ task' = [task EXCEPT ![w][s] = AfterFailure(w, s)]
        /\ proLock /\ ~proLock' => AskingPro(w, s)
    BY <1>4 DEF QueryStation, QueryFails, Asking, LeavesLock, AskingPro
  <2>2. AfterFailure(w, s).at \in {"waiting", "done"}
    BY <2>1, FailureIsOwed
  <2> QED  BY <1>2, <2>1, <2>2, QueryStepKeepsHelpersInv
<1>5. CASE AicAnswers(w, s) \/ LocalAnswers(w, s)
  <2>1. PICK rows : Asking(w, s) /\ Answered(w, s, rows)
    BY <1>5 DEF AicAnswers, LocalAnswers
  <2> DEFINE over == [task[w][s] EXCEPT !.at = "done"]
             t == [over EXCEPT !.rows = rows]
  <2>2. task' = [task EXCEPT ![w][s] = t]
    <3>1. /\ task = [v \in Search |-> [u \in Station |-> task[v][u]]]
          /\ task[w] = [u \in Station |-> task[w][u]]
      BY SearchAsItIs DEF EvidenceInv, QueriesInv, Shapes
    <3> QED  BY <2>1, <3>1 DEF Answered
  <2>3. t.at = "done"
    <3>1. TaskShape(task[w][s])
      BY SearchAsItIs
    <3>2. over = [at |-> "done", step |-> task[w][s].step, rows |-> task[w][s].rows,
                  warned |-> task[w][s].warned]
      BY <3>1 DEF TaskShape
    <3> HIDE DEF over
    <3> QED  BY <3>2
  <2>4. proLock /\ ~proLock' => AskingPro(w, s)
    BY <2>1 DEF Answered, LeavesLock, AskingPro
  <2> HIDE DEF t
  <2> QED  BY <1>2, <2>2, <2>3, <2>4, QueryStepKeepsHelpersInv
<1> QED  BY <1>3, <1>4, <1>5

LEMMA BeginSearchKeepsHelpersInv ==
  ASSUME EvidenceInv, NEW w \in Search, NEW source, BeginSearch(w, source)
  PROVE  HelpersInv'
<1>1. HelpersSame /\ (task' = task \/ task' = [task EXCEPT ![w] = Queries(source)])
  BY DEF BeginSearch, HelpersSame, proVars
<1>2. \A s \in Station : Queries(source)[s].at # "asking"
  BY QueriesAreOwed
<1>3. helper' \in [Pro -> Search \union {None}] /\ answer' \in [Pro -> BOOLEAN]
  BY <1>1 DEF HelpersSame, EvidenceInv, HelpersInv
<1> QED  BY <1>1, <1>2, <1>3, QuietStepKeepsHelpersInv, UpdateKeepsHelpersInv DEF HelpersSame

LEMMA SearchStepsKeepHelpersInv ==
  ASSUME EvidenceInv, NEW w \in Search,
         SearchStep(w) \/ SearchReturns(w) \/ CallerGivesUp(w)
  PROVE  HelpersInv'
<1>1. helper \in [Pro -> Search \union {None}] /\ answer \in [Pro -> BOOLEAN]
  BY DEF EvidenceInv, HelpersInv
<1>2. CASE SearchReturns(w) \/ CallerGivesUp(w)
  BY <1>1, <1>2, QuietStepKeepsHelpersInv DEF SearchReturns, CallerGivesUp, proVars
<1>3. ASSUME NEW rows, NEW warned, AccountEnds(w, rows, warned) PROVE HelpersInv'
  <2>1. /\ HelpersSame
        /\ task' = task \/ task' = [task EXCEPT ![w] = Queries(search[w].source)]
    BY <1>3 DEF AccountEnds, HelpersSame, proVars
  <2>2. \A s \in Station : Queries(search[w].source)[s].at # "asking"
    BY QueriesAreOwed
  <2> QED  BY <1>1, <2>1, <2>2, QuietStepKeepsHelpersInv, UpdateKeepsHelpersInv DEF HelpersSame
<1>4. CASE CollectStations(w) \/ AbandonedEnds(w)
  <2> DEFINE q == [s \in Station |-> NoTask]
  <2>1. /\ task' = [task EXCEPT ![w] = q] /\ helper' = helper /\ answer' = answer
        /\ proLock' = proLock \/ proLock' = (proLock /\ ~AskingAPro(w))
    BY <1>4 DEF CollectStations, AbandonedEnds, proVars
  <2>2. \A s \in Station : q[s].at # "asking"
    BY NothingToAsk
  <2> HIDE DEF q
  <2> QED  BY <2>1, <2>2, UpdateKeepsHelpersInv
<1>5. CASE \E s \in Station : \/ QueryStation(w, s) \/ AicAnswers(w, s)
                              \/ LocalAnswers(w, s) \/ QueryFails(w, s)
  BY <1>5, StationStepsKeepHelpersInv
<1> QED  BY <1>2, <1>3, <1>4, <1>5 DEF SearchStep, AccountAnswers, AccountFails

(* The helpers and their answers by themselves.                            *)
LEMMA HelperStepsAre ==
  ASSUME EvidenceInv, NEW s \in Pro, HelperEnds(s) \/ AnswerIsDropped(s)
  PROVE  /\ search' = search /\ task' = task /\ records' = records /\ proLock' = proLock
         /\ helper' \in [Pro -> Search \union {None}] /\ answer' \in [Pro -> BOOLEAN]
BY DEF HelperEnds, AnswerIsDropped, EvidenceInv, HelpersInv

(* Every step of every actor keeps the invariant.                          *)
LEMMA NextKeepsEvidenceInv == EvidenceInv /\ [EvidenceNext]_refreshVars => EvidenceInv'
<1> SUFFICES ASSUME EvidenceInv, [EvidenceNext]_refreshVars PROVE QueriesInv' /\ HelpersInv'
  BY DEF EvidenceInv
<1>1. CASE OtherSearch
  BY <1>1, BeginSearchKeepsQueriesInv, SearchEndsKeepsQueriesInv, BeginSearchKeepsHelpersInv,
     SearchStepsKeepHelpersInv DEF OtherSearch
<1>2. CASE \E w \in Search : SearchStep(w)
  BY <1>2, SearchStepsKeepQueriesInv, SearchStepsKeepHelpersInv
<1>3. CASE RefreshBegins
  BY <1>3, RefreshAssumption, BeginSearchKeepsQueriesInv, BeginSearchKeepsHelpersInv
     DEF RefreshBegins
<1>4. CASE RefreshSelects
  BY <1>4, RefreshAssumption, SearchEndsKeepsQueriesInv, SearchStepsKeepHelpersInv
     DEF RefreshSelects
<1>5. CASE \E s \in Pro : HelperEnds(s) \/ AnswerIsDropped(s)
  BY <1>5, HelperStepsAre, QuietStepKeepsQueriesInv, QuietStepKeepsHelpersInv
<1>6. CASE UNCHANGED searchVars
  <2>1. /\ search' = search /\ task' = task /\ proLock' = proLock
        /\ helper' \in [Pro -> Search \union {None}] /\ answer' \in [Pro -> BOOLEAN]
    BY <1>6 DEF searchVars, proVars, EvidenceInv, HelpersInv
  <2> QED  BY <2>1, QuietStepKeepsQueriesInv, QuietStepKeepsHelpersInv
<1>7. CASE \/ RefreshApplies \/ RefreshTimesOut
           \/ \E c \in Camera : DownloadBegins(c) \/ DownloadEnds(c) \/ DownloadIsRefused(c)
  BY <1>6, <1>7 DEF RefreshApplies, RefreshTimesOut, DownloadBegins, DownloadEnds,
     DownloadIsRefused
<1>8. CASE UNCHANGED refreshVars
  BY <1>6, <1>8 DEF refreshVars
<1> QED  BY <1>1, <1>2, <1>3, <1>4, <1>5, <1>7, <1>8 DEF EvidenceNext

(***************************************************************************)
(* The station queries of every search are owed to it, at every step.      *)
(***************************************************************************)
THEOREM EvidenceInvariant == EvidenceSpec => []EvidenceInv
<1>1. RefreshInit => EvidenceInv
  BY InitEstablishesEvidenceInv
<1>2. EvidenceInv /\ [EvidenceNext]_refreshVars => EvidenceInv'
  BY NextKeepsEvidenceInv
<1> QED  BY <1>1, <1>2, PTL DEF EvidenceSpec

(***************************************************************************)
(* However many searches overlap, and although those given up keep their   *)
(* queries, a Pro query that gets its lock is refused only behind a helper *)
(* whose own query is no longer awaited: _pro_evidence_lock outlives the   *)
(* search and is held as long as a query waits for the helper.             *)
(***************************************************************************)
THEOREM ProQueriesNeverCollide == EvidenceSpec => []ProRefusedOnlyForGivenUp
<1>1. EvidenceInv => ProRefusedOnlyForGivenUp
  <2> SUFFICES ASSUME EvidenceInv, NEW w \in Search, NEW s \in Pro,
                      task[w][s].at = "waiting", LockFree(w, s), Refused(w, s)
               PROVE  helper[s] # None /\ ~Asking(helper[s], s)
    BY DEF ProRefusedOnlyForGivenUp
  <2>1. s \in Station
    BY EvidenceAssumption
  <2>2. \A v \in Search : task[v][s].at \in {"waiting", "asking"} => task[v][s].step = "aic"
    BY <2>1, SearchAsItIs DEF QueryIsOwed
  <2>3. ~proLock
    BY <2>2 DEF LockFree, ProQuery
  <2>4. \A v \in Search : ~Asking(v, s)
    BY <2>1, <2>2, <2>3 DEF EvidenceInv, HelpersInv, AskingPro, Asking, ProQuery
  <2>5. helper[s] # None
    BY <2>4 DEF Refused, AlreadyRunning
  <2>6. helper[s] \in Search
    BY <2>5 DEF EvidenceInv, HelpersInv
  <2> QED  BY <2>4, <2>5, <2>6
<1> QED  BY <1>1, EvidenceInvariant, PTL

(***************************************************************************)
(* One Pro query of all searches and one HomeBase query of each search run *)
(* at a time: _pro_evidence_lock and the search's own semaphore.           *)
(***************************************************************************)
THEOREM LocksAreExclusive == EvidenceSpec => []LocksAdmitOne
<1>1. EvidenceInv => LocksAdmitOne
  BY DEF EvidenceInv, QueriesInv
<1> QED  BY <1>1, EvidenceInvariant, PTL

(***************************************************************************)
(* A search that merges reports every station it had to read and has no    *)
(* answer of: the one that failed, whichever query it was, and, counted    *)
(* only, the one still waiting or asking when the 70 seconds were over.    *)
(***************************************************************************)
THEOREM MissingStationsAreReported == EvidenceSpec => FailureIsReported
<1> DEFINE Reported ==
      \A w \in Search : search[w].at = "stations" /\ search'[w].at = "merged" =>
          LET answered(s, step) == task[w][s].at = "done" /\ task[w][s].step = step
              read(s) == IF s \in Aic THEN answered(s, "aic")
                         ELSE s \in Local \ Pro /\ search[w].source # "latest"
                                  => answered(s, "local")
          IN  \A s \in Station : read(s) \/ s \in search'[w].warned
<1>1. ASSUME EvidenceInv, EvidenceNext, NEW w \in Search,
             search[w].at = "stations", search'[w].at = "merged"
      PROVE  CollectStations(w)
  <2>1. search = [v \in Search |-> search[v]]
    BY <1>1 DEF EvidenceInv, QueriesInv, Shapes
  <2>2. search' # search /\ search'[w] # search[w]
    BY <1>1
  <2>3. ASSUME NEW v \in Search, NEW source, BeginSearch(v, source) PROVE FALSE
    BY <1>1, <2>1, <2>3 DEF BeginSearch
  <2>4. ASSUME NEW v \in Search, SearchReturns(v) \/ CallerGivesUp(v) \/ AbandonedEnds(v)
        PROVE  FALSE
    BY <1>1, <2>1, <2>4 DEF SearchReturns, CallerGivesUp, GivenUp, AbandonedEnds, Idle
  <2>5. ASSUME NEW v \in Search, AccountAnswers(v) \/ AccountFails(v) PROVE FALSE
    BY <1>1, <2>1, <2>5 DEF AccountAnswers, AccountFails, AccountEnds, Merge
  <2>6. ASSUME NEW v \in Search, NEW s \in Station,
               \/ QueryStation(v, s) \/ AicAnswers(v, s) \/ LocalAnswers(v, s) \/ QueryFails(v, s)
        PROVE  FALSE
    BY <2>2, <2>6 DEF QueryStation, AicAnswers, LocalAnswers, Answered, QueryFails
  <2>7. ASSUME NEW v \in Search, CollectStations(v), v # w PROVE FALSE
    BY <1>1, <2>1, <2>2, <2>7, CollectStationsMerges
  <2>8. CASE OtherSearch
    BY <2>3, <2>4, <2>8 DEF OtherSearch
  <2>9. CASE \E v \in Search : SearchStep(v)
    BY <2>4, <2>5, <2>6, <2>7, <2>9 DEF SearchStep
  <2>10. CASE RefreshBegins \/ RefreshSelects
    BY <2>3, <2>4, <2>10, RefreshAssumption DEF RefreshBegins, RefreshSelects
  <2>11. CASE \/ RefreshApplies \/ RefreshTimesOut
              \/ \E s \in Pro : HelperEnds(s) \/ AnswerIsDropped(s)
              \/ \E c \in Camera : DownloadBegins(c) \/ DownloadEnds(c) \/ DownloadIsRefused(c)
    BY <2>2, <2>11 DEF RefreshApplies, RefreshTimesOut, DownloadBegins, DownloadEnds,
       DownloadIsRefused, HelperEnds, AnswerIsDropped, searchVars
  <2> QED  BY <1>1, <2>8, <2>9, <2>10, <2>11 DEF EvidenceNext
<1>2. ASSUME EvidenceInv, NEW w \in Search, CollectStations(w), NEW s \in Station
      PROVE  \/ s \in search'[w].warned
             \/ task[w][s].at = "done" /\ ~task[w][s].warned
  <2> DEFINE named == search[w].warned
                        \union {u \in Station : task[w][u].at = "done" /\ task[w][u].warned}
                        \union {u \in Station : task[w][u].at # "done"}
  <2>1. PICK rows :
           search' = [search EXCEPT ![w] =
              [at |-> "merged", source |-> search[w].source, events |-> rows,
               warned |-> named, result |-> MergedEvents(rows)]]
    BY <1>2, CollectStationsMerges
  <2>2. search = [v \in Search |-> search[v]]
    BY <1>2 DEF EvidenceInv, QueriesInv, Shapes
  <2>3. (task[w][s].at = "done" /\ ~task[w][s].warned) \/ s \in named
    OBVIOUS
  <2> HIDE DEF named
  <2>4. search'[w].warned = named
    BY <2>1, <2>2
  <2> QED  BY <2>3, <2>4
<1>3. ASSUME EvidenceInv, EvidenceNext PROVE Reported
  <2> SUFFICES ASSUME NEW w \in Search, search[w].at = "stations", search'[w].at = "merged",
                      NEW s \in Station, s \notin search'[w].warned
               PROVE  IF s \in Aic THEN task[w][s].at = "done" /\ task[w][s].step = "aic"
                      ELSE s \in Local \ Pro /\ search[w].source # "latest"
                             => task[w][s].at = "done" /\ task[w][s].step = "local"
    OBVIOUS
  <2>1. CollectStations(w)
    BY <1>1, <1>3
  <2>2. task[w][s].at = "done" /\ ~task[w][s].warned
    BY <1>2, <1>3, <2>1
  <2>3. QueryIsOwed(task[w][s], s, search[w].source)
    BY <1>3, SearchAsItIs
  <2> QED  BY <2>2, <2>3 DEF QueryIsOwed
<1>4. EvidenceInv /\ [EvidenceNext]_refreshVars => [Reported]_searchVars
  BY <1>3 DEF refreshVars, searchVars
<1> QED  BY <1>4, EvidenceInvariant, PTL DEF EvidenceSpec, FailureIsReported

-----------------------------------------------------------------------------
(* What the searches hold, and the pictures.                               *)

(* A search holds descriptions, and when it is merged the result of them.  *)
HoldsRows(x) ==
    /\ x.events \in Seq(Description)
    /\ x.result = IF x.at = "merged" THEN MergedEvents(x.events) ELSE <<>>

RowsInv ==
    /\ records \in Kept
    /\ \A w \in Search : HoldsRows(search[w])
    /\ \A w \in Search : \A s \in Station : task[w][s].rows \in Seq(Description)

(* A download has an event, and its result is a picture of the row's own.  *)
DownloadIs(x) ==
    /\ x = [at |-> x.at, event |-> x.event]
    /\ x.at \in {"none", "queued", "asking", "got", "failed"}
    /\ x.at # "none" => x.event \in Event

PictureIs(p) ==
    p.id = None \/ \E row \in Rows : p.id = row.id /\ p.time = row.start

PicturesInv ==
    /\ job = [c \in Camera |-> job[c]] /\ \A c \in Camera : DownloadIs(job[c])
    /\ picture = [c \in Camera |-> picture[c]] /\ \A c \in Camera : PictureIs(picture[c])

LEMMA InitEstablishesRowsInv == RefreshInit => RowsInv /\ PicturesInv
<1> SUFFICES ASSUME RefreshInit PROVE RowsInv /\ PicturesInv
  OBVIOUS
<1>1. /\ search = [w \in Search |-> Idle] /\ records = <<>>
      /\ task = [w \in Search |-> [s \in Station |-> NoTask]]
      /\ job = NoJobs /\ picture = [c \in Camera |-> NoPicture]
  BY DEF RefreshInit, SearchInit
<1>2. <<>> \in Seq(Description) /\ <<>> \in Kept
  <2>1. <<>> \in Seq(Description) /\ Len(<<>>) = 0
    BY EmptySeq
  <2>2. 0 <= RecordCap
    BY EvidenceAssumption
  <2> QED  BY <2>1, <2>2 DEF Kept
<1>3. HoldsRows(Idle) /\ NoTask.rows = <<>>
  BY <1>2 DEF HoldsRows, Idle, NoTask
<1>4. RowsInv
  BY <1>1, <1>2, <1>3 DEF RowsInv
<1>5. \A c \in Camera : job[c] = NoJob /\ picture[c] = NoPicture
  BY <1>1 DEF NoJobs
<1>6. DownloadIs(NoJob) /\ PictureIs(NoPicture)
  BY DEF NoJob, NoPicture, DownloadIs, PictureIs
<1>7. job = [c \in Camera |-> job[c]] /\ picture = [c \in Camera |-> picture[c]]
  BY <1>1 DEF NoJobs
<1> QED  BY <1>4, <1>5, <1>6, <1>7 DEF PicturesInv

LEMMA AfterAicHasNoRows ==
  ASSUME NEW source, NEW s, NEW warned
  PROVE  AfterAic(source, s, warned).rows = <<>>
<1>1. CASE source # "latest" /\ s \in Local \ Pro
  <2>1. AfterAic(source, s, warned)
          = [at |-> "waiting", step |-> "local", rows |-> <<>>, warned |-> warned]
    BY <1>1 DEF AfterAic, NoTask
  <2> QED  BY <2>1
<1>2. CASE ~(source # "latest" /\ s \in Local \ Pro)
  <2>1. AfterAic(source, s, warned)
          = [at |-> "done", step |-> "none", rows |-> <<>>, warned |-> warned]
    BY <1>2 DEF AfterAic, NoTask
  <2> QED  BY <2>1
<1> QED  BY <1>1, <1>2

(* A search becomes r and its queries q, all with descriptions.            *)
LEMMA UpdateKeepsRowsInv ==
  ASSUME EvidenceInv, RowsInv, NEW w \in Search, NEW STATE r, NEW STATE q,
         search' = [search EXCEPT ![w] = r], task' = [task EXCEPT ![w] = q],
         HoldsRows(r), \A s \in Station : q[s].rows \in Seq(Description), records' \in Kept
  PROVE  RowsInv'
<1>1. /\ search = [v \in Search |-> search[v]]
      /\ task = [v \in Search |-> [s \in Station |-> task[v][s]]]
  BY DEF EvidenceInv, QueriesInv, Shapes
<1>2. /\ search'[w] = r /\ task'[w] = q
      /\ \A v \in Search : v # w => search'[v] = search[v] /\ task'[v] = task[v]
  BY <1>1
<1>3. ASSUME NEW v \in Search
      PROVE  HoldsRows(search'[v]) /\ \A s \in Station : task'[v][s].rows \in Seq(Description)
  BY <1>2 DEF RowsInv
<1>4. \A v \in Search : HoldsRows(search[v])'
  BY <1>3 DEF HoldsRows
<1> QED  BY <1>3, <1>4 DEF RowsInv

(* A search starts, merges or ends, with its queries as they were or new.  *)
LEMMA SearchStepKeepsRowsInv ==
  ASSUME EvidenceInv, RowsInv, NEW w \in Search, NEW STATE r, NEW STATE source,
         search' = [search EXCEPT ![w] = r], HoldsRows(r), records' \in Kept,
         \/ task' = task
         \/ task' = [task EXCEPT ![w] = [s \in Station |-> NoTask]]
         \/ task' = [task EXCEPT ![w] = Queries(source)]
  PROVE  RowsInv'
<1>1. <<>> \in Seq(Description)
  BY EmptySeq
<1>2. CASE task' = task
  <2>1. task' = [task EXCEPT ![w] = task[w]]
    BY <1>2, SearchAsItIs
  <2>2. \A s \in Station : task[w][s].rows \in Seq(Description)
    BY DEF RowsInv
  <2> QED  BY <2>1, <2>2, UpdateKeepsRowsInv
<1>3. CASE task' = [task EXCEPT ![w] = [s \in Station |-> NoTask]]
  <2> DEFINE q == [s \in Station |-> NoTask]
  <2>1. \A s \in Station : q[s].rows \in Seq(Description)
    BY <1>1 DEF NoTask
  <2>2. task' = [task EXCEPT ![w] = q]
    BY <1>3
  <2> HIDE DEF q
  <2> QED  BY <2>1, <2>2, UpdateKeepsRowsInv
<1>4. CASE task' = [task EXCEPT ![w] = Queries(source)]
  <2> DEFINE q == Queries(source)
  <2>1. ASSUME NEW s \in Station PROVE q[s].rows = <<>>
    <3>1. CASE s \in Aic
      <4>1. q[s] = [NoTask EXCEPT !.at = "waiting", !.step = "aic"]
        BY <3>1 DEF Queries
      <4> QED  BY <4>1 DEF NoTask
    <3>2. CASE s \notin Aic
      <4>1. q[s] = AfterAic(source, s, FALSE)
        BY <3>2 DEF Queries
      <4>2. AfterAic(source, s, FALSE).rows = <<>>
        BY AfterAicHasNoRows
      <4> QED  BY <4>1, <4>2
    <3> QED  BY <3>1, <3>2
  <2>2. task' = [task EXCEPT ![w] = q]
    BY <1>4
  <2> HIDE DEF q
  <2>3. \A s \in Station : q[s].rows \in Seq(Description)
    BY <1>1, <2>1
  <2> QED  BY <2>2, <2>3, UpdateKeepsRowsInv
<1> QED  BY <1>2, <1>3, <1>4

(* What a source delivers is a sequence of descriptions.                   *)
LEMMA DeliveredIs ==
  ASSUME NEW rows \in SUBSET Description, IsFiniteSet(rows), TellsApart(rows)
  PROVE  NewestFirst(rows) \in Seq(Description)
<1>1. NewestFirst(rows) \in Seq(rows)
  BY NewestFirstIs
<1> HIDE DEF Description
<1> QED  BY <1>1, SeqMonotonic

LEMMA RowsOfOneSource ==
  ASSUME NEW rows \in SUBSET Rows, NEW source, \A row \in rows : row.source = source
  PROVE  /\ rows \in SUBSET Description /\ IsFiniteSet(rows) /\ TellsApart(rows)
<1>1. IsFiniteSet(rows)
  BY FS_Subset, EvidenceAssumption
<1>2. TellsApart(rows)
  BY RowIs DEF TellsApart
<1> QED  BY <1>1, <1>2 DEF Description

LEMMA JoinedRowsAre ==
  ASSUME NEW histories \in SUBSET Rows, NEW updates \in SUBSET Rows,
         \A row \in histories : row.source = "aic", \A row \in updates : row.source = "update"
  PROVE  LET rows == JoinAicEventData(histories, updates)
         IN  rows \in SUBSET Description /\ IsFiniteSet(rows) /\ TellsApart(rows)
<1> DEFINE base == IF histories = {} THEN updates ELSE histories
           rows == {Joined(row, updates) : row \in base}
           f == [row \in base |-> Joined(row, updates)]
<1>1. JoinAicEventData(histories, updates) = rows
  BY DEF JoinAicEventData
<1>2. /\ base \in SUBSET Rows /\ IsFiniteSet(base) /\ TellsApart(base)
  <2>1. CASE histories = {}
    BY <2>1, RowsOfOneSource
  <2>2. CASE histories # {}
    BY <2>2, RowsOfOneSource
  <2> QED  BY <2>1, <2>2
<1> HIDE DEF base
<1>3. rows \in SUBSET Description
  BY <1>2 DEF Description
<1>4. IsFiniteSet(rows)
  <2>1. f \in Surjection(base, rows)
    BY DEF Surjection
  <2> HIDE DEF f, rows
  <2> QED  BY <1>2, <2>1, FS_Surjection
<1>5. \A row \in base : Joined(row, updates).id = row.id
  BY <1>2, JoinedIs
<1>6. TellsApart(rows)
  BY <1>2, <1>5 DEF TellsApart
<1> QED  BY <1>1, <1>3, <1>4, <1>6

(* One query of a search goes on.                                          *)
LEMMA QueryStepKeepsRowsInv ==
  ASSUME EvidenceInv, RowsInv, NEW w \in Search, NEW s \in Station, NEW STATE t,
         task' = [task EXCEPT ![w][s] = t], search' = search, records' \in Kept,
         t.rows \in Seq(Description)
  PROVE  RowsInv'
<1> DEFINE q == [task[w] EXCEPT ![s] = t]
<1>1. task' = [task EXCEPT ![w] = q] /\ search' = [search EXCEPT ![w] = search[w]]
  BY SearchAsItIs
<1>2. \A u \in Station : q[u].rows \in Seq(Description)
  <2>1. task[w] = [u \in Station |-> task[w][u]]
    BY SearchAsItIs
  <2>2. \A u \in Station : q[u] = IF u = s THEN t ELSE task[w][u]
    BY <2>1
  <2>3. \A u \in Station : task[w][u].rows \in Seq(Description)
    BY DEF RowsInv
  <2> HIDE DEF q
  <2> QED  BY <2>2, <2>3
<1>3. HoldsRows(search[w])
  BY DEF RowsInv
<1> HIDE DEF q
<1> QED  BY <1>1, <1>2, <1>3, UpdateKeepsRowsInv

(* What a query finds is remembered and kept for its search.               *)
LEMMA AnsweredKeepsRowsInv ==
  ASSUME EvidenceInv, RowsInv, NEW w \in Search, NEW s \in Station,
         NEW rows \in Seq(Description), Answered(w, s, rows)
  PROVE  RowsInv'
<1> DEFINE over == [task[w][s] EXCEPT !.at = "done"]
           t == [over EXCEPT !.rows = rows]
<1>1. /\ task = [v \in Search |-> [u \in Station |-> task[v][u]]]
      /\ TaskShape(task[w][s])
  BY SearchAsItIs DEF EvidenceInv, QueriesInv, Shapes
<1>2. task' = [task EXCEPT ![w][s] = t]
  BY <1>1 DEF Answered
<1>3. t.rows = rows
  <2>1. over = [at |-> "done", step |-> task[w][s].step, rows |-> task[w][s].rows,
                warned |-> task[w][s].warned]
    BY <1>1 DEF TaskShape
  <2> HIDE DEF over
  <2> QED  BY <2>1
<1>4. search' = search /\ records' = FoldLeft(Remember, records, rows)
  BY DEF Answered, RememberAll
<1>5. records' \in Kept
  BY <1>4, RememberAllKeeps DEF RowsInv
<1> HIDE DEF t
<1> QED  BY <1>2, <1>3, <1>4, <1>5, QueryStepKeepsRowsInv

LEMMA StationStepsKeepRowsInv ==
  ASSUME EvidenceInv, RowsInv, NEW w \in Search, NEW s \in Station,
         QueryStation(w, s) \/ AicAnswers(w, s) \/ LocalAnswers(w, s) \/ QueryFails(w, s)
  PROVE  RowsInv'
<1>1. TaskShape(task[w][s]) /\ task[w][s].rows \in Seq(Description) /\ records \in Kept
  BY SearchAsItIs DEF RowsInv
<1>2. CASE QueryStation(w, s) /\ ~Refused(w, s)
  <2> DEFINE t == [task[w][s] EXCEPT !.at = "asking"]
  <2>1. search' = search /\ records' = records /\ task' = [task EXCEPT ![w][s] = t]
    BY <1>2 DEF QueryStation
  <2>2. t.rows = task[w][s].rows
    BY <1>1 DEF TaskShape
  <2> HIDE DEF t
  <2> QED  BY <1>1, <2>1, <2>2, QueryStepKeepsRowsInv
<1>3. CASE (QueryStation(w, s) /\ Refused(w, s)) \/ QueryFails(w, s)
  <2> DEFINE t == AfterFailure(w, s)
  <2>1. search' = search /\ records' = records /\ task' = [task EXCEPT ![w][s] = t]
    BY <1>3 DEF QueryStation, QueryFails
  <2>2. t.rows = <<>>
    <3>1. CASE task[w][s].step = "aic"
      <4>1. AfterAic(search[w].source, s, TRUE).rows = <<>>
        BY AfterAicHasNoRows
      <4> QED  BY <3>1, <4>1 DEF AfterFailure
    <3>2. CASE task[w][s].step # "aic"
      <4>1. t = [at |-> "done", step |-> "none", rows |-> <<>>, warned |-> TRUE]
        BY <3>2 DEF AfterFailure, NoTask
      <4> QED  BY <4>1
    <3> QED  BY <3>1, <3>2
  <2>3. <<>> \in Seq(Description)
    BY EmptySeq
  <2> HIDE DEF t
  <2> QED  BY <1>1, <2>1, <2>2, <2>3, QueryStepKeepsRowsInv
<1>4. CASE AicAnswers(w, s)
  <2>1. PICK histories \in SUBSET RowsOf("aic", s), updates \in SUBSET RowsOf("update", s) :
           Answered(w, s, NewestFirst(JoinAicEventData(histories, updates)))
    BY <1>4 DEF AicAnswers
  <2>2. /\ histories \in SUBSET Rows /\ \A row \in histories : row.source = "aic"
        /\ updates \in SUBSET Rows /\ \A row \in updates : row.source = "update"
    BY DEF RowsOf
  <2> DEFINE rows == JoinAicEventData(histories, updates)
  <2>3. rows \in SUBSET Description /\ IsFiniteSet(rows) /\ TellsApart(rows)
    BY <2>2, JoinedRowsAre
  <2> HIDE DEF rows
  <2>4. NewestFirst(rows) \in Seq(Description)
    BY <2>3, DeliveredIs
  <2>5. Answered(w, s, NewestFirst(rows))
    BY <2>1 DEF rows
  <2> QED  BY <2>4, <2>5, AnsweredKeepsRowsInv
<1>5. CASE LocalAnswers(w, s)
  <2>1. PICK rows \in SUBSET RowsOf("local", s) : Answered(w, s, NewestFirst(rows))
    BY <1>5 DEF LocalAnswers
  <2>2. rows \in SUBSET Rows /\ \A row \in rows : row.source = "local"
    BY DEF RowsOf
  <2>3. rows \in SUBSET Description /\ IsFiniteSet(rows) /\ TellsApart(rows)
    BY <2>2, RowsOfOneSource
  <2>4. NewestFirst(rows) \in Seq(Description)
    BY <2>3, DeliveredIs
  <2> QED  BY <2>1, <2>4, AnsweredKeepsRowsInv
<1> QED  BY <1>2, <1>3, <1>4, <1>5

(* A search begins.                                                        *)
LEMMA BeginSearchKeepsRowsInv ==
  ASSUME EvidenceInv, RowsInv, NEW w \in Search, NEW source, BeginSearch(w, source)
  PROVE  RowsInv'
<1> DEFINE r == [at |-> IF source = "local" THEN "stations" ELSE "account", source |-> source,
                 events |-> search[w].events, warned |-> search[w].warned,
                 result |-> search[w].result]
<1>1. search[w].at = "idle" /\ search' = [search EXCEPT ![w] = r]
  BY BeginSearchIs
<1>2. HoldsRows(search[w])
  BY DEF RowsInv
<1>3. HoldsRows(r)
  BY <1>1, <1>2 DEF HoldsRows
<1>4. task' = (IF source = "local" THEN [task EXCEPT ![w] = Queries(source)] ELSE task)
      /\ records' = records
  BY DEF BeginSearch
<1>5. records' \in Kept
  BY <1>4 DEF RowsInv
<1> HIDE DEF r
<1>6. CASE source = "local"
  <2>1. task' = [task EXCEPT ![w] = Queries(source)]
    BY <1>4, <1>6
  <2> QED  BY <1>1, <1>3, <1>5, <2>1, SearchStepKeepsRowsInv
<1>7. CASE source # "local"
  <2>1. task' = task
    BY <1>4, <1>7
  <2> QED  BY <1>1, <1>3, <1>5, <2>1, SearchStepKeepsRowsInv
<1> QED  BY <1>6, <1>7

(* The account index answers or fails.                                     *)
LEMMA AccountEndsKeepsRowsInv ==
  ASSUME EvidenceInv, RowsInv, NEW w \in Search, NEW rows \in Seq(Description), NEW warned,
         AccountEnds(w, rows, warned)
  PROVE  RowsInv'
<1> DEFINE r == [at |-> "merged", source |-> search[w].source, events |-> rows,
                 warned |-> warned, result |-> MergedEvents(rows)]
           q == [at |-> "stations", source |-> search[w].source, events |-> rows,
                 warned |-> warned, result |-> search[w].result]
<1>1. /\ search[w].at = "account" /\ records' = FoldLeft(Remember, records, rows)
      /\ \/ search' = [search EXCEPT ![w] = r] /\ task' = task
         \/ /\ search' = [search EXCEPT ![w] = q]
            /\ task' = [task EXCEPT ![w] = Queries(search[w].source)]
  BY AccountEndsIs
<1>2. records' \in Kept
  BY <1>1, RememberAllKeeps DEF RowsInv
<1>3. search[w].result = <<>>
  BY <1>1 DEF RowsInv, HoldsRows
<1>4. HoldsRows(r) /\ HoldsRows(q)
  BY <1>3 DEF HoldsRows
<1> HIDE DEF r, q
<1>5. CASE search' = [search EXCEPT ![w] = r] /\ task' = task
  BY <1>2, <1>4, <1>5, SearchStepKeepsRowsInv
<1>6. CASE /\ search' = [search EXCEPT ![w] = q]
           /\ task' = [task EXCEPT ![w] = Queries(search[w].source)]
  BY <1>2, <1>4, <1>6, SearchStepKeepsRowsInv
<1> QED  BY <1>1, <1>5, <1>6

LEMMA AccountStepsKeepRowsInv ==
  ASSUME EvidenceInv, RowsInv, NEW w \in Search, AccountAnswers(w) \/ AccountFails(w)
  PROVE  RowsInv'
<1>1. CASE AccountAnswers(w)
  <2> DEFINE cloud == {row \in Rows : row.source = "cloud"}
  <2>1. PICK rows \in SUBSET cloud : AccountEnds(w, NewestFirst(rows), {})
    BY <1>1 DEF AccountAnswers
  <2>2. rows \in SUBSET Rows /\ \A row \in rows : row.source = "cloud"
    OBVIOUS
  <2>3. rows \in SUBSET Description /\ IsFiniteSet(rows) /\ TellsApart(rows)
    BY <2>2, RowsOfOneSource
  <2>4. NewestFirst(rows) \in Seq(Description)
    BY <2>3, DeliveredIs
  <2> QED  BY <2>1, <2>4, AccountEndsKeepsRowsInv
<1>2. CASE AccountFails(w)
  <2>1. <<>> \in Seq(Description) /\ AccountEnds(w, <<>>, {"account"})
    BY <1>2, EmptySeq DEF AccountFails
  <2> QED  BY <2>1, AccountEndsKeepsRowsInv
<1> QED  BY <1>1, <1>2

(* The search merges what the stations have delivered.                     *)
LEMMA CollectStationsKeepsRowsInv ==
  ASSUME EvidenceInv, RowsInv, NEW w \in Search, CollectStations(w)
  PROVE  RowsInv'
<1> DEFINE warned == search[w].warned
                       \union {s \in Station : task[w][s].at = "done" /\ task[w][s].warned}
                       \union {s \in Station : task[w][s].at # "done"}
<1>1. PICK rows :
         /\ search' = [search EXCEPT ![w] =
              [at |-> "merged", source |-> search[w].source, events |-> rows,
               warned |-> warned, result |-> MergedEvents(rows)]]
         /\ search[w].events \in Seq(Description)
              /\ (\A s \in Station : task[w][s].rows \in Seq(Description))
              => rows \in Seq(Description)
  BY CollectStationsMerges
<1> HIDE DEF warned
<1>2. rows \in Seq(Description)
  BY <1>1 DEF RowsInv, HoldsRows
<1> DEFINE r == [at |-> "merged", source |-> search[w].source, events |-> rows,
                 warned |-> warned, result |-> MergedEvents(rows)]
<1>3. HoldsRows(r) /\ search' = [search EXCEPT ![w] = r]
  BY <1>1, <1>2 DEF HoldsRows
<1>4. task' = [task EXCEPT ![w] = [s \in Station |-> NoTask]] /\ records' \in Kept
  BY DEF CollectStations, RowsInv
<1> HIDE DEF r
<1> QED  BY <1>3, <1>4, SearchStepKeepsRowsInv

(* The caller takes the result or gives up.                                *)
LEMMA SearchEndsKeepsRowsInv ==
  ASSUME EvidenceInv, RowsInv, NEW w \in Search,
         SearchReturns(w) \/ CallerGivesUp(w) \/ AbandonedEnds(w)
  PROVE  RowsInv'
<1>1. HoldsRows(Idle) /\ records' \in Kept
  BY EmptySeq DEF HoldsRows, Idle, SearchReturns, CallerGivesUp, AbandonedEnds, RowsInv
<1>2. CASE SearchReturns(w) \/ AbandonedEnds(w) \/ (CallerGivesUp(w) /\ search[w].at = "account")
  <2>1. /\ search' = [search EXCEPT ![w] = Idle]
        /\ task' = task \/ task' = [task EXCEPT ![w] = [s \in Station |-> NoTask]]
    BY <1>2 DEF SearchReturns, CallerGivesUp, GivenUp, AbandonedEnds
  <2> QED  BY <1>1, <2>1, SearchStepKeepsRowsInv
<1>3. CASE CallerGivesUp(w) /\ search[w].at # "account"
  <2> DEFINE left == [Idle EXCEPT !.at = "abandoned"]
             r == [left EXCEPT !.source = search[w].source]
  <2>1. search' = [search EXCEPT ![w] = r] /\ task' = task
    BY <1>3 DEF CallerGivesUp, GivenUp
  <2>2. HoldsRows(r)
    <3>1. SearchShape(Idle) /\ Idle.events = <<>> /\ Idle.result = <<>>
      BY NothingToAsk DEF Idle
    <3>2. SearchShape(left) /\ left.at = "abandoned"
          /\ left.events = <<>> /\ left.result = <<>>
      BY <3>1 DEF SearchShape
    <3> HIDE DEF left
    <3>3. r.at = "abandoned" /\ r.events = <<>> /\ r.result = <<>>
      BY <3>2 DEF SearchShape
    <3> HIDE DEF r
    <3> QED  BY <3>3, EmptySeq DEF HoldsRows
  <2> HIDE DEF r
  <2> QED  BY <1>1, <2>1, <2>2, SearchStepKeepsRowsInv
<1> QED  BY <1>2, <1>3

LEMMA SearchStepsKeepRowsInv ==
  ASSUME EvidenceInv, RowsInv, NEW w \in Search, SearchStep(w)
  PROVE  RowsInv'
<1>1. CASE AccountAnswers(w) \/ AccountFails(w)
  BY <1>1, AccountStepsKeepRowsInv
<1>2. CASE \E s \in Station : \/ QueryStation(w, s) \/ AicAnswers(w, s)
                              \/ LocalAnswers(w, s) \/ QueryFails(w, s)
  BY <1>2, StationStepsKeepRowsInv
<1>3. CASE CollectStations(w)
  BY <1>3, CollectStationsKeepsRowsInv
<1>4. CASE AbandonedEnds(w)
  BY <1>4, SearchEndsKeepsRowsInv
<1> QED  BY <1>1, <1>2, <1>3, <1>4 DEF SearchStep

LEMMA NextKeepsRowsInv == EvidenceInv /\ RowsInv /\ [EvidenceNext]_refreshVars => RowsInv'
<1> SUFFICES ASSUME EvidenceInv, RowsInv, [EvidenceNext]_refreshVars PROVE RowsInv'
  OBVIOUS
<1>1. CASE OtherSearch
  BY <1>1, BeginSearchKeepsRowsInv, SearchEndsKeepsRowsInv DEF OtherSearch
<1>2. CASE \E w \in Search : SearchStep(w)
  BY <1>2, SearchStepsKeepRowsInv
<1>3. CASE RefreshBegins
  BY <1>3, RefreshAssumption, BeginSearchKeepsRowsInv DEF RefreshBegins
<1>4. CASE RefreshSelects
  BY <1>4, RefreshAssumption, SearchEndsKeepsRowsInv DEF RefreshSelects
<1>5. ASSUME search' = search, task' = task, records' = records PROVE RowsInv'
  BY <1>5 DEF RowsInv, HoldsRows
<1>6. CASE RefreshApplies \/ RefreshTimesOut
  BY <1>5, <1>6 DEF RefreshApplies, RefreshTimesOut, searchVars
<1>7. CASE \E c \in Camera : DownloadBegins(c) \/ DownloadEnds(c) \/ DownloadIsRefused(c)
  BY <1>5, <1>7 DEF DownloadBegins, DownloadEnds, DownloadIsRefused, searchVars
<1>8. CASE UNCHANGED refreshVars
  BY <1>5, <1>8 DEF refreshVars, searchVars
<1>9. CASE \E s \in Pro : HelperEnds(s) \/ AnswerIsDropped(s)
  BY <1>5, <1>9, HelperStepsAre
<1> QED  BY <1>1, <1>2, <1>3, <1>4, <1>6, <1>7, <1>8, <1>9 DEF EvidenceNext

(* The result of a search: events, the newest first, no more than asked.   *)
LEMMA ResultIs ==
  ASSUME RowsInv, NEW w \in Search
  PROVE  LET result == search[w].result
         IN  /\ result \in Seq(Event) /\ Len(result) \in Nat /\ Len(result) <= MaxResults
             /\ DOMAIN result = 1 .. Len(result)
             /\ \A i \in DOMAIN result : result[i] \in Event
             /\ \A m, n \in DOMAIN result : m < n => result[n].row.start <= result[m].row.start
<1> DEFINE result == search[w].result
           rows == search[w].events
<1>1. /\ rows \in Seq(Description)
      /\ result = IF search[w].at = "merged" THEN MergedEvents(rows) ELSE <<>>
  BY DEF RowsInv, HoldsRows
<1> HIDE DEF result, rows
<1>2. CASE search[w].at = "merged"
  <2>1. PICK merged, order : /\ MergedFrom(rows, Len(rows), merged)
                             /\ ReturnedFrom(merged, order, result)
    BY <1>1, <1>2, MergedEventsIs
  <2> DEFINE N == Len(merged)
  <2>2. /\ result \in Seq(Event) /\ merged \in Seq(Event)
        /\ Len(result) = IF MaxResults <= N THEN MaxResults ELSE N
        /\ \A i \in 1 .. Len(result) : result[i] = merged[order[i]]
        /\ \A m, n \in 1 .. N :
              m < n => merged[order[n]].row.start <= merged[order[m]].row.start
    BY <2>1 DEF ReturnedFrom, MergedFrom
  <2>3. N \in Nat /\ MaxResults \in Nat /\ Len(result) \in Nat
        /\ DOMAIN result = 1 .. Len(result) /\ \A i \in DOMAIN result : result[i] \in Event
    BY <2>2, LenProperties, ElementOfSeq, EvidenceAssumption
  <2> HIDE DEF N
  <2>4. Len(result) <= N /\ Len(result) <= MaxResults
    BY <2>2, <2>3
  <2>5. \A m \in 1 .. Len(result) : m \in 1 .. N
    BY <2>3, <2>4
  <2>6. \A m, n \in DOMAIN result : m < n => result[n].row.start <= result[m].row.start
    BY <2>2, <2>3, <2>5
  <2> QED  BY <2>2, <2>3, <2>4, <2>6 DEF result
<1>3. CASE search[w].at # "merged"
  <2>1. result = <<>> /\ result \in Seq(Event) /\ Len(result) = 0
    BY <1>1, <1>3, EmptySeq
  <2>2. DOMAIN result = 1 .. 0 /\ 0 <= MaxResults
    BY <2>1, LenProperties, EvidenceAssumption
  <2>3. DOMAIN result = {}
    BY <2>2
  <2> QED  BY <2>1, <2>2, <2>3 DEF result
<1> QED  BY <1>2, <1>3

(* The first of some events of a result is the newest of them.             *)
LEMMA FirstEventIs ==
  ASSUME RowsInv, NEW w \in Search, NEW at \in SUBSET (DOMAIN search[w].result)
  PROVE  LET result == search[w].result
         IN  /\ at = {} => FirstEvent(result, at) = None
             /\ at # {} => /\ FirstEvent(result, at) \in Event
                           /\ \E i \in at : FirstEvent(result, at) = result[i]
                           /\ \A i \in at :
                                 result[i].row.start <= FirstEvent(result, at).row.start
<1> DEFINE result == search[w].result
<1>1. /\ Len(result) \in Nat /\ DOMAIN result = 1 .. Len(result)
      /\ \A i \in DOMAIN result : result[i] \in Event
      /\ \A m, n \in DOMAIN result : m < n => result[n].row.start <= result[m].row.start
  BY ResultIs
<1>2. at \in SUBSET (DOMAIN result)
  OBVIOUS
<1> HIDE DEF result
<1>3. CASE at # {}
  <2>1. at \in SUBSET Nat
    BY <1>1, <1>2
  <2>2. Min(at) \in at /\ \A i \in at : Min(at) <= i
    BY <1>3, <2>1, MinOfPlaces
  <2> DEFINE first == Min(at)
  <2>3. FirstEvent(result, at) = result[first]
    BY <1>3 DEF FirstEvent
  <2> HIDE DEF first
  <2>4. first \in at /\ \A i \in at : first <= i
    BY <2>2 DEF first
  <2>5. ASSUME NEW i \in at PROVE result[i].row.start <= result[first].row.start
    <3>1. i \in DOMAIN result /\ first \in DOMAIN result /\ first <= i /\ i \in Nat /\ first \in Nat
      BY <1>2, <2>1, <2>4
    <3>2. CASE first < i
      BY <1>1, <3>1, <3>2
    <3>3. CASE first = i
      <4>1. result[first] \in Event
        BY <1>1, <3>1
      <4>2. result[first].row.start \in Nat
        <5>1. result[first].row \in Description
          BY <4>1 DEF Event
        <5> QED  BY <5>1, DescriptionIs
      <4> QED  BY <3>3, <4>2
    <3> QED  BY <3>1, <3>2, <3>3
  <2> QED  BY <1>1, <1>2, <1>3, <2>3, <2>4, <2>5 DEF result
<1>4. CASE at = {}
  BY <1>4 DEF FirstEvent
<1> QED  BY <1>3, <1>4

LEMMA ChosenIs ==
  ASSUME RowsInv, NEW w \in Search, NEW c \in Camera
  PROVE  Chosen(search[w].result, c) = None \/ Chosen(search[w].result, c) \in Event
<1> DEFINE result == search[w].result
<1>1. /\ BySerial(result, c) \in SUBSET (DOMAIN result)
      /\ BySlot(result, c) \in SUBSET (DOMAIN result)
      /\ ByName(result, c) \in SUBSET (DOMAIN result)
      /\ ByKind(result, c) \in SUBSET (DOMAIN result)
  BY DEF BySerial, BySlot, ByName, ByKind, Indexed
<1>2. PICK at \in SUBSET (DOMAIN result) : Chosen(result, c) = FirstEvent(result, at)
  BY <1>1 DEF Chosen
<1> QED  BY <1>2, FirstEventIs

LEMMA NoJobsAreDownloads ==
  /\ NoJobs = [c \in Camera |-> NoJobs[c]]
  /\ \A c \in Camera : DownloadIs(NoJobs[c])
<1>1. DownloadIs(NoJob)
  BY DEF NoJob, DownloadIs
<1> QED  BY <1>1 DEF NoJobs

(* The events are chosen from what the search has returned.                *)
LEMMA RefreshSelectsKeepsPicturesInv ==
  ASSUME RowsInv, PicturesInv, RefreshSelects
  PROVE  PicturesInv'
<1> DEFINE event(c) == Chosen(search[Refresher].result, c)
           wanted == {c \in Camera : event(c) # None}
           fresh == {c \in wanted : ~Unchanged(event(c), c)}
           next(c) == IF c \in fresh THEN [at |-> "queued", event |-> event(c)] ELSE NoJob
<1>1. job' = [c \in Camera |-> next(c)] /\ picture' = picture
  BY DEF RefreshSelects
<1>2. ASSUME NEW c \in Camera PROVE DownloadIs(next(c))
  <2>1. CASE c \in fresh
    <3>1. event(c) \in Event
      BY <2>1, ChosenIs, RefreshAssumption
    <3> HIDE DEF event
    <3> QED  BY <2>1, <3>1 DEF DownloadIs
  <2>2. CASE c \notin fresh
    BY <2>2 DEF DownloadIs, NoJob
  <2> QED  BY <2>1, <2>2
<1> HIDE DEF next
<1>3. \A c \in Camera : DownloadIs(job'[c])
  BY <1>1, <1>2
<1>4. \A c \in Camera : DownloadIs(job[c])'
  BY <1>3 DEF DownloadIs
<1>5. job' = [c \in Camera |-> job'[c]]
  BY <1>1
<1> QED  BY <1>1, <1>4, <1>5 DEF PicturesInv, PictureIs

(* One download goes on.                                                   *)
LEMMA DownloadStepKeepsPicturesInv ==
  ASSUME PicturesInv, NEW c \in Camera, NEW STATE x,
         job' = [job EXCEPT ![c] = x], DownloadIs(x), picture' = picture
  PROVE  PicturesInv'
<1>1. job' = [d \in Camera |-> IF d = c THEN x ELSE job[d]]
  BY DEF PicturesInv
<1>2. job' = [d \in Camera |-> job'[d]]
  BY <1>1
<1>3. \A d \in Camera : DownloadIs(job'[d])
  BY <1>1 DEF PicturesInv
<1>4. \A d \in Camera : DownloadIs(job[d])'
  BY <1>3 DEF DownloadIs
<1> QED  BY <1>2, <1>4 DEF PicturesInv, PictureIs

LEMMA NoDownloadsKeepPicturesInv ==
  ASSUME PicturesInv, job' = NoJobs, picture' = picture
  PROVE  PicturesInv'
<1>1. job' = [c \in Camera |-> job'[c]] /\ \A c \in Camera : DownloadIs(job'[c])
  BY NoJobsAreDownloads
<1>2. \A c \in Camera : DownloadIs(job[c])'
  BY <1>1 DEF DownloadIs
<1> QED  BY <1>1, <1>2 DEF PicturesInv, PictureIs

(* A retained row is a description.                                        *)
LEMMA RetainedIs ==
  ASSUME RowsInv, NEW id, Retained(id)
  PROVE  RetainedRow(id) \in Description /\ RetainedRow(id).id = id
<1>1. records \in Seq(Description)
  BY DEF RowsInv, Kept
<1>2. \A i \in DOMAIN records : records[i] \in Description
  BY <1>1, LenProperties, ElementOfSeq
<1> DEFINE i == CHOOSE j \in DOMAIN records : records[j].id = id
<1>3. i \in DOMAIN records /\ records[i].id = id
  BY Zenon DEF Retained
<1>4. RetainedRow(id) = records[i]
  BY DEF RetainedRow
<1> HIDE DEF i
<1> QED  BY <1>2, <1>3, <1>4

(* A download begins with the retained row, ends, or fails the refresh.    *)
LEMMA DownloadsKeepPicturesInv ==
  ASSUME RowsInv, PicturesInv, NEW c \in Camera,
         DownloadBegins(c) \/ DownloadEnds(c) \/ DownloadIsRefused(c)
  PROVE  PicturesInv'
<1>1. /\ job = [d \in Camera |-> job[d]] /\ DownloadIs(job[c])
  BY DEF PicturesInv
<1>2. CASE DownloadBegins(c) /\ Retained(job[c].event.row.id)
  <2> DEFINE row == RetainedRow(job[c].event.row.id)
             asked == [job[c] EXCEPT !.at = "asking"]
             event == [job[c].event EXCEPT !.row = row]
             x == [at |-> "asking", event |-> event]
  <2>1. /\ job' = [job EXCEPT ![c].at = "asking", ![c].event.row = row] /\ picture' = picture
        /\ job[c].at = "queued"
    BY <1>2 DEF DownloadBegins
  <2>2. row \in Description
    BY <1>2, RetainedIs
  <2> HIDE DEF row
  <2>3. job' = [job EXCEPT ![c] = [asked EXCEPT !.event = [asked.event EXCEPT !.row = row]]]
    BY <1>1, <2>1
  <2>4. asked = [at |-> "asking", event |-> job[c].event]
    BY <1>1 DEF DownloadIs
  <2> HIDE DEF asked
  <2>5. [asked EXCEPT !.event = [asked.event EXCEPT !.row = row]] = x
    BY <2>4
  <2>6. event \in Event
    <3>1. job[c].event \in Event
      BY <1>1, <2>1 DEF DownloadIs
    <3> QED  BY <2>2, <3>1 DEF Event
  <2> HIDE DEF event
  <2>7. DownloadIs(x)
    BY <2>6 DEF DownloadIs
  <2> HIDE DEF x
  <2> QED  BY <2>1, <2>3, <2>5, <2>7, DownloadStepKeepsPicturesInv
<1>3. CASE DownloadEnds(c)
  <2>1. PICK at \in {"failed", "got"} : job' = [job EXCEPT ![c].at = at]
    BY <1>3 DEF DownloadEnds
  <2> DEFINE x == [job[c] EXCEPT !.at = at]
  <2>2. job' = [job EXCEPT ![c] = x] /\ picture' = picture /\ job[c].at = "asking"
    BY <1>1, <1>3, <2>1 DEF DownloadEnds
  <2>3. x = [at |-> at, event |-> job[c].event] /\ job[c].event \in Event
    BY <1>1, <2>2 DEF DownloadIs
  <2> HIDE DEF x
  <2>4. DownloadIs(x)
    BY <2>3 DEF DownloadIs
  <2> QED  BY <2>2, <2>4, DownloadStepKeepsPicturesInv
<1>4. CASE DownloadIsRefused(c) \/ (DownloadBegins(c) /\ ~Retained(job[c].event.row.id))
  <2>1. job' = NoJobs /\ picture' = picture
    BY <1>4 DEF DownloadIsRefused, DownloadBegins, RefreshFails
  <2> QED  BY <2>1, NoDownloadsKeepPicturesInv
<1> QED  BY <1>2, <1>3, <1>4

(* The pictures are dated by the rows whose images they are.               *)
LEMMA RefreshAppliesKeepsPicturesInv ==
  ASSUME PicturesInv, RefreshApplies
  PROVE  PicturesInv'
<1> DEFINE got == {c \in Camera : job[c].at = "got"}
           row(c) == job[c].event.row
           next(c) == IF c \in got THEN [id |-> ImageOf(row(c)), time |-> row(c).start]
                                   ELSE picture[c]
<1>1. picture' = [c \in Camera |-> next(c)] /\ job' = NoJobs
  BY DEF RefreshApplies
<1>2. ASSUME NEW c \in Camera PROVE PictureIs(next(c))
  <2>1. CASE c \in got
    <3> DEFINE d == row(c)
    <3>1. job[c].event \in Event
      BY <2>1 DEF PicturesInv, DownloadIs
    <3>2. d \in Description
      BY <3>1 DEF Event
    <3>3. next(c) = [id |-> ImageOf(d), time |-> d.start]
      BY <2>1
    <3> HIDE DEF d, next
    <3>4. next(c).id \in {d.id, None} /\ next(c).time = d.start
      BY <3>2, <3>3, ImageIsOwn
    <3>5. \E r \in Rows : r.id = d.id /\ r.start = d.start
      BY <3>2, DescriptionIs
    <3> QED  BY <3>4, <3>5 DEF PictureIs
  <2>2. CASE c \notin got
    BY <2>2 DEF PicturesInv
  <2> QED  BY <2>1, <2>2
<1> HIDE DEF next
<1>3. \A c \in Camera : PictureIs(picture'[c])
  BY <1>1, <1>2
<1>4. \A c \in Camera : PictureIs(picture[c])'
  BY <1>3 DEF PictureIs
<1>5. picture' = [c \in Camera |-> picture'[c]]
  BY <1>1
<1>6. job' = [c \in Camera |-> job'[c]] /\ \A c \in Camera : DownloadIs(job'[c])
  BY <1>1, NoJobsAreDownloads
<1>7. \A c \in Camera : DownloadIs(job[c])'
  BY <1>6 DEF DownloadIs
<1> QED  BY <1>4, <1>5, <1>6, <1>7 DEF PicturesInv

LEMMA NextKeepsPicturesInv ==
  RowsInv /\ PicturesInv /\ [EvidenceNext]_refreshVars => PicturesInv'
<1> SUFFICES ASSUME RowsInv, PicturesInv, [EvidenceNext]_refreshVars PROVE PicturesInv'
  OBVIOUS
<1>1. ASSUME job' = job, picture' = picture PROVE PicturesInv'
  BY <1>1 DEF PicturesInv, DownloadIs, PictureIs
<1>2. CASE \/ OtherSearch /\ UNCHANGED <<refreshing, job, picture, lastEvent>>
           \/ \E w \in Search : SearchStep(w) /\ UNCHANGED <<refreshing, job, picture, lastEvent>>
           \/ \E s \in Pro : /\ HelperEnds(s) \/ AnswerIsDropped(s)
                             /\ UNCHANGED <<refreshing, job, picture, lastEvent>>
           \/ RefreshBegins
  BY <1>1, <1>2 DEF RefreshBegins
<1>3. CASE RefreshSelects
  BY <1>3, RefreshSelectsKeepsPicturesInv
<1>4. CASE RefreshApplies
  BY <1>4, RefreshAppliesKeepsPicturesInv
<1>5. CASE RefreshTimesOut
  BY <1>5, NoDownloadsKeepPicturesInv DEF RefreshTimesOut
<1>6. CASE \E c \in Camera : DownloadBegins(c) \/ DownloadEnds(c) \/ DownloadIsRefused(c)
  BY <1>6, DownloadsKeepPicturesInv
<1>7. CASE UNCHANGED refreshVars
  BY <1>1, <1>7 DEF refreshVars
<1> QED  BY <1>2, <1>3, <1>4, <1>5, <1>6, <1>7 DEF EvidenceNext

(***************************************************************************)
(* What the searches hold and return, and the table of raw rows.           *)
(***************************************************************************)
THEOREM RowsInvariant == EvidenceSpec => []RowsInv
<1>1. RefreshInit => RowsInv
  BY InitEstablishesRowsInv
<1>2. EvidenceInv /\ RowsInv /\ [EvidenceNext]_refreshVars => RowsInv'
  BY NextKeepsRowsInv
<1> QED  BY <1>1, <1>2, EvidenceInvariant, PTL DEF EvidenceSpec

(***************************************************************************)
(* What the downloads and the pictures are.                                *)
(***************************************************************************)
THEOREM PicturesInvariant == EvidenceSpec => []PicturesInv
<1>1. RefreshInit => PicturesInv
  BY InitEstablishesRowsInv
<1>2. RowsInv /\ PicturesInv /\ [EvidenceNext]_refreshVars => PicturesInv'
  BY NextKeepsPicturesInv
<1> QED  BY <1>1, <1>2, RowsInvariant, PTL DEF EvidenceSpec

(***************************************************************************)
(* A result has at most the requested length, and the table of raw rows    *)
(* stays within its bound with one row for each id, whatever was delivered *)
(* and remembered, by however many searches and by those given up.         *)
(***************************************************************************)
THEOREM SearchTypes == EvidenceSpec => []SearchTypeOK
<1>1. EvidenceInv /\ RowsInv => SearchTypeOK
  <2> SUFFICES ASSUME EvidenceInv, RowsInv PROVE SearchTypeOK
    OBVIOUS
  <2>1. ASSUME NEW w \in Search
        PROVE  /\ search[w].at \in {"idle", "account", "stations", "merged", "abandoned"}
               /\ Len(search[w].result) <= MaxResults
               /\ \A s \in Station : /\ task[w][s].at \in {"none", "waiting", "asking", "done"}
                                     /\ task[w][s].at # "none"
                                          <=> search[w].at \in {"stations", "abandoned"}
    <3>1. Len(search[w].result) <= MaxResults
      BY ResultIs
    <3>2. /\ search[w].at \in {"idle", "account", "stations", "merged", "abandoned"}
          /\ \A s \in Station :
                /\ task[w][s].at \in {"none", "waiting", "asking", "done"}
                /\ (task[w][s].at # "none" <=> search[w].at \in {"stations", "abandoned"})
      BY SearchAsItIs
    <3> QED  BY <3>1, <3>2
  <2>2. /\ records \in Seq(Description) /\ Len(records) <= RecordCap
        /\ \A i, j \in 1 .. Len(records) : i # j => records[i].id # records[j].id
    BY DEF RowsInv, Kept
  <2>3. DOMAIN records = 1 .. Len(records)
    BY <2>2, LenProperties
  <2>4. /\ proLock \in BOOLEAN
        /\ helper \in [Pro -> Search \union {None}] /\ answer \in [Pro -> BOOLEAN]
    BY DEF EvidenceInv, HelpersInv
  <2> QED  BY <2>1, <2>2, <2>3, <2>4 DEF SearchTypeOK
<1> QED  BY <1>1, EvidenceInvariant, RowsInvariant, PTL

(***************************************************************************)
(* Whatever the sources deliver and in whatever order it is merged, the    *)
(* result keeps the newest recordings, each once, shown by an account row  *)
(* only where no other describes it; its thumbnail flag is that of all.    *)
(***************************************************************************)
THEOREM MergesLoseNothing == EvidenceSpec => []MergeLosesNothing
<1>1. RowsInv => MergeLosesNothing
  <2> SUFFICES ASSUME RowsInv, NEW w \in Search, search[w].at = "merged"
               PROVE  LosesNothing(search[w].events, search[w].result)
    BY DEF MergeLosesNothing
  <2>1. /\ search[w].events \in Seq(Description)
        /\ search[w].result = MergedEvents(search[w].events)
    BY DEF RowsInv, HoldsRows
  <2>2. LosesNothing(search[w].events, MergedEvents(search[w].events))
    BY <2>1, ReturnedLosesNothing
  <2> QED  BY <2>1, <2>2
<1> QED  BY <1>1, RowsInvariant, PTL

(***************************************************************************)
(* A picture has the time of the recording whose image it is, whichever    *)
(* updates the join attaches to the rows.                                  *)
(***************************************************************************)
THEOREM PicturesAreDated == EvidenceSpec => []PictureIsDatedByItsRecording
<1>1. PicturesInv => PictureIsDatedByItsRecording
  <2> SUFFICES ASSUME PicturesInv, NEW c \in Camera, NEW row \in Rows, picture[c].id = row.id
               PROVE  picture[c].time = row.start
    BY DEF PictureIsDatedByItsRecording
  <2>1. PictureIs(picture[c]) /\ picture[c].id # None
    BY RowIs DEF PicturesInv
  <2>2. PICK other \in Rows : picture[c].id = other.id /\ picture[c].time = other.start
    BY <2>1 DEF PictureIs
  <2> QED  BY <2>2, RowIs
<1> QED  BY <1>1, PicturesInvariant, PTL

LEMMA CameraIs ==
  ASSUME NEW d \in Description
  PROVE  d.camera \in Camera
<1>1. \A row \in Rows : row.camera \in Camera
  BY EvidenceAssumption
<1>2. CASE \E row \in Rows : \E updates \in SUBSET Rows : d = Joined(row, updates)
  BY <1>1, <1>2, JoinedIs
<1> QED  BY <1>1, <1>2 DEF Description

(* No two cameras share a channel of a station: then a channel names its   *)
(* camera as well as a serial does.                                        *)
ChannelsDiffer == \A c, d \in Camera : Home[c] = Home[d] /\ Slot[c] = Slot[d] => c = d

(* The events that a retained row ties to a camera.                        *)
Tied(result, c, known) ==
    {i \in DOMAIN result :
        result[i].thumb /\ result[i].row.camera = c /\ known \in KnownBy(result[i].row)}

LEMMA TiedAre ==
  ASSUME RowsInv, ChannelsDiffer, NEW w \in Search, NEW c \in Camera
  PROVE  /\ BySerial(search[w].result, c) = Tied(search[w].result, c, "serial")
         /\ BySlot(search[w].result, c) = Tied(search[w].result, c, "slot")
<1> DEFINE result == search[w].result
<1>1. \A i \in DOMAIN result : result[i].row.camera \in Camera
  <2> SUFFICES ASSUME NEW i \in DOMAIN result PROVE result[i].row.camera \in Camera
    OBVIOUS
  <2>1. result[i] \in Event
    BY ResultIs
  <2>2. result[i].row \in Description
    BY <2>1 DEF Event
  <2> HIDE DEF result
  <2> QED  BY <2>2, CameraIs
<1>2. \A i \in DOMAIN result :
         NamedBySlot(result[i].row, c)
           <=> result[i].row.camera = c /\ "slot" \in KnownBy(result[i].row)
  BY <1>1 DEF ChannelsDiffer, NamedBySlot
<1> HIDE DEF result
<1>3. BySerial(result, c) = Tied(result, c, "serial")
  BY DEF BySerial, Indexed, NamedBySerial, Tied
<1>4. BySlot(result, c) = Tied(result, c, "slot")
  BY <1>2 DEF BySlot, Indexed, Tied
<1> QED  BY <1>3, <1>4 DEF result

(***************************************************************************)
(* Where every channel of a station has one camera, a camera that is known *)
(* to the result is offered its own newest event with a thumbnail.         *)
(***************************************************************************)
THEOREM TheOwnNewestIsOffered ==
  ASSUME ChannelsDiffer
  PROVE  EvidenceSpec => OffersTheOwnNewest
<1> DEFINE Offers ==
      refreshing = "searching" /\ refreshing' = "downloading" =>
          LET result == search[Refresher].result
              tied(c, known) == {i \in DOMAIN result :
                  result[i].thumb /\ result[i].row.camera = c /\ known \in KnownBy(result[i].row)}
          IN  \A c \in Camera : job'[c].at = "queued" =>
                  LET row == job'[c].event.row
                      best == IF tied(c, "serial") # {} THEN tied(c, "serial")
                              ELSE tied(c, "slot")
                  IN  best # {} => /\ row.camera = c
                                   /\ \A i \in best : result[i].row.start <= row.start
<1>1. ASSUME RowsInv, EvidenceNext PROVE Offers
  <2> DEFINE result == search[Refresher].result
             best(c) == IF Tied(result, c, "serial") # {} THEN Tied(result, c, "serial")
                        ELSE Tied(result, c, "slot")
  <2> SUFFICES ASSUME refreshing = "searching", refreshing' = "downloading",
                      NEW c \in Camera, job'[c].at = "queued", best(c) # {}
               PROVE  /\ job'[c].event.row.camera = c
                      /\ \A i \in best(c) : result[i].row.start <= job'[c].event.row.start
    BY DEF Tied
  <2>1. RefreshSelects
    BY <1>1 DEF EvidenceNext, RefreshBegins, RefreshApplies, RefreshTimesOut, DownloadBegins,
       DownloadEnds, DownloadIsRefused, RefreshFails
  <2>2. job'[c].event = Chosen(result, c)
    BY <2>1 DEF RefreshSelects, NoJob
  <2>3. Chosen(result, c) = FirstEvent(result, best(c))
    <3>1. /\ BySerial(result, c) = Tied(result, c, "serial")
          /\ BySlot(result, c) = Tied(result, c, "slot")
      BY <1>1, TiedAre, RefreshAssumption
    <3> HIDE DEF result
    <3> QED  BY <3>1 DEF Chosen
  <2>4. best(c) \in SUBSET (DOMAIN result)
    BY DEF Tied
  <2> DEFINE at == best(c)
  <2>5. \A i \in at : result[i].row.camera = c
    BY DEF Tied
  <2> HIDE DEF at
  <2>6. at # {} /\ at \in SUBSET (DOMAIN search[Refresher].result)
    BY <2>4 DEF at
  <2>7. /\ \E i \in at : FirstEvent(result, at) = result[i]
        /\ \A i \in at : result[i].row.start <= FirstEvent(result, at).row.start
    BY <1>1, <2>6, FirstEventIs, RefreshAssumption
  <2> HIDE DEF result
  <2> QED  BY <2>2, <2>3, <2>5, <2>7 DEF at
<1>2. RowsInv /\ [EvidenceNext]_refreshVars => [Offers]_refreshVars
  BY <1>1
<1> QED  BY <1>2, RowsInvariant, PTL DEF EvidenceSpec, OffersTheOwnNewest

=============================================================================
