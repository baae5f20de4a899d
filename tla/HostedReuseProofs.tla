--------------------------- MODULE HostedReuseProofs ---------------------------
(***************************************************************************)
(* Theorems about HostedReuse and the ranges it compares, for every set of *)
(* requests, queries, answers, fetchers and objects and every bound.       *)
(*                                                                         *)
(* Ranges: the order of versions is total, so a range has a strictest      *)
(* bound on each side, and a range is covered when it admits every version *)
(* that the required one admits.  Fetches: a call holds the result kept    *)
(* for its own request from the first step to the last, and its file is    *)
(* complete before it is linked.                                           *)
(***************************************************************************)
EXTENDS HostedReuse, FiniteSetTheorems, SequenceTheorems, WellFoundedInduction, TLAPS

-----------------------------------------------------------------------------
(* The order of versions.                                                   *)

\* Every nonempty set of naturals has a least element.
LEMMA LeastNatural ==
  ASSUME NEW T \in SUBSET Nat, T # {}
  PROVE  \E n \in T : \A m \in T : n <= m
<1> DEFINE Smaller == {ss \in Nat \X Nat : ss[1] < ss[2]}
<1>1. IsWellFoundedOn(Smaller, Nat) BY NatLessThanWellFounded DEF OpToRel
<1> HIDE DEF Smaller
<1>2. PICK n \in T : \A m \in T : ~ (<<m, n>> \in Smaller) BY <1>1, WFMin
<1>3. ASSUME NEW m \in T PROVE n <= m
  <2>1. m \in Nat /\ n \in Nat OBVIOUS
  <2>2. ~ (<<m, n>> \in Smaller) BY <1>2
  <2>3. ~ (m < n) BY <2>1, <2>2 DEF Smaller
  <2> QED BY <2>1, <2>3
<1> QED BY <1>3

\* A component read from a version.
LEMMA Component ==
  ASSUME NEW v \in Versions, NEW i \in 1..Width
  PROVE  v[i] \in Nat
  BY DEF Versions

\* The order is total.
LEMMA BelowTotal ==
  ASSUME NEW v \in Versions, NEW w \in Versions
  PROVE  Below(v, w) \/ v = w \/ Below(w, v)
<1> SUFFICES ASSUME v # w PROVE Below(v, w) \/ Below(w, v) OBVIOUS
<1> DEFINE T == {i \in 1..Width : v[i] # w[i]}
<1>1. T # {} /\ T \in SUBSET Nat BY WidthAssumption DEF Versions
<1>2. PICK i \in T : \A j \in T : i <= j BY <1>1, LeastNatural
<1>3. i \in 1..Width /\ v[i] # w[i] BY <1>2
<1>4. \A j \in 1..(i - 1) : v[j] = w[j]
  <2> SUFFICES ASSUME NEW j \in 1..(i - 1), v[j] # w[j] PROVE FALSE OBVIOUS
  <2>1. j \in 1..Width /\ ~ (i <= j) BY <1>3, WidthAssumption
  <2> QED BY <1>2, <2>1
<1>5. v[i] \in Nat /\ w[i] \in Nat BY <1>3, Component
<1>6. v[i] < w[i] \/ w[i] < v[i] BY <1>3, <1>5
<1> QED BY <1>3, <1>4, <1>6 DEF Below

LEMMA BelowIrreflexive == ASSUME NEW v \in Versions PROVE ~ Below(v, v)
  BY Component DEF Below

LEMMA BelowTransitive ==
  ASSUME NEW u \in Versions, NEW v \in Versions, NEW w \in Versions,
         Below(u, v), Below(v, w)
  PROVE  Below(u, w)
<1>1. PICK i \in 1..Width : u[i] < v[i] /\ \A j \in 1..(i - 1) : u[j] = v[j] BY DEF Below
<1>2. PICK k \in 1..Width : v[k] < w[k] /\ \A j \in 1..(k - 1) : v[j] = w[j] BY DEF Below
<1>3. /\ u[i] \in Nat /\ v[i] \in Nat /\ w[i] \in Nat
      /\ u[k] \in Nat /\ v[k] \in Nat /\ w[k] \in Nat
  BY Component
<1>4. CASE i < k
  <2>1. v[i] = w[i] BY <1>2, <1>4
  <2>2. \A j \in 1..(i - 1) : u[j] = w[j] BY <1>1, <1>2, <1>4
  <2> QED BY <1>1, <2>1, <2>2 DEF Below
<1>5. CASE k < i
  <2>1. u[k] = v[k] BY <1>1, <1>5
  <2>2. \A j \in 1..(k - 1) : u[j] = w[j] BY <1>1, <1>2, <1>5
  <2> QED BY <1>2, <2>1, <2>2 DEF Below
<1>6. CASE i = k
  <2>1. u[i] < w[i] BY <1>1, <1>2, <1>3, <1>6
  <2>2. \A j \in 1..(i - 1) : u[j] = w[j] BY <1>1, <1>2, <1>6
  <2> QED BY <2>1, <2>2 DEF Below
<1> QED BY <1>4, <1>5, <1>6

LEMMA BelowAsymmetric ==
  ASSUME NEW v \in Versions, NEW w \in Versions, Below(v, w)
  PROVE  ~ Below(w, v)
  BY BelowTransitive, BelowIrreflexive

\* Of finitely many things some strict order leaves one that nothing precedes.
LEMMA Strictest ==
  ASSUME NEW n \in Nat, NEW I \in SUBSET (1..n), I # {}, NEW R,
         \A i \in I : <<i, i>> \notin R,
         \A i, j, k \in I : <<i, j>> \in R /\ <<j, k>> \in R => <<i, k>> \in R
  PROVE  \E i \in I : \A j \in I : <<j, i>> \notin R
<1> DEFINE D(i) == {j \in I : <<j, i>> \in R}
           Sizes == {Cardinality(D(i)) : i \in I}
<1>1. IsFiniteSet(I)
  <2>1. IsFiniteSet(1..n) BY FS_Interval
  <2> QED BY <2>1, FS_Subset
<1>2. \A i \in I : IsFiniteSet(D(i)) /\ Cardinality(D(i)) \in Nat
  <2> TAKE i \in I
  <2>1. D(i) \in SUBSET I OBVIOUS
  <2>2. IsFiniteSet(D(i)) BY <1>1, <2>1, FS_Subset
  <2> QED BY <2>2, FS_CardinalityType
<1>3. PICK m \in Sizes : \A k \in Sizes : m <= k
  <2>1. \A k \in Sizes : k \in Nat
    <3> HIDE DEF D
    <3> QED BY <1>2
  <2>2. PICK i \in I : TRUE OBVIOUS
  <2>3. Cardinality(D(i)) \in Sizes BY <2>2
  <2> HIDE DEF Sizes
  <2> QED BY <2>1, <2>3, LeastNatural
<1>4. PICK i \in I : m = Cardinality(D(i)) BY <1>3
<1>5. ASSUME NEW j \in I, <<j, i>> \in R PROVE FALSE
  <2>1. D(j) \in SUBSET D(i) BY <1>5
  <2>2. j \in D(i) /\ j \notin D(j) BY <1>5
  <2>3. Cardinality(D(j)) <= Cardinality(D(i)) /\ Cardinality(D(j)) # Cardinality(D(i))
    BY <1>2, <2>1, <2>2, FS_Subset
  <2>4. Cardinality(D(j)) \in Sizes OBVIOUS
  <2>5. m <= Cardinality(D(j)) BY <1>3, <2>4
  <2> QED BY <1>2, <1>4, <2>3, <2>5
<1> QED BY <1>5

-----------------------------------------------------------------------------
(* Bounds of a range.                                                       *)

Bounds == [value : Versions, inclusive : BOOLEAN]

LEMMA ClauseOf ==
  ASSUME NEW range \in RangeTexts, NEW i \in 1..Len(range)
  PROVE  /\ range[i][1] \in {"==", ">=", ">", "<=", "<", "*", "?"}
         /\ Padded(range[i][2]) \in Versions
<1>1. range[i] \in {"==", ">=", ">", "<=", "<", "*", "?"} \X Seq(Nat)
  BY ElementOfSeq DEF RangeTexts
<1>2. range[i][2] \in Seq(Nat) BY <1>1
<1>3. ASSUME NEW c \in Seq(Nat) PROVE Padded(c) \in Versions
  <2>1. \A k \in 1..Width : k <= Len(c) => c[k] \in Nat
    BY LenProperties, ElementOfSeq, WidthAssumption
  <2> QED BY <2>1 DEF Padded, Versions
<1> QED BY <1>1, <1>2, <1>3

LEMMA BoundOf ==
  ASSUME NEW range \in RangeTexts, NEW i \in 1..Len(range), NEW inclusive \in BOOLEAN
  PROVE  Bound(range[i], inclusive) \in Bounds
  BY ClauseOf DEF Bound, Bounds

\* The bounds of a side, by the places of their clauses.
LEMMA BoundsByPlace ==
  ASSUME NEW range \in RangeTexts, NEW strict, NEW loose,
         NEW b \in BoundsOf(range, strict, loose)
  PROVE  \E i \in 1..Len(range) :
           /\ range[i][1] \in {strict, loose, "=="}
           /\ b = Bound(range[i], range[i][1] # strict)
  BY DEF BoundsOf

LEMMA PlaceBounds ==
  ASSUME NEW range \in RangeTexts, NEW strict, NEW loose,
         NEW i \in 1..Len(range), range[i][1] \in {strict, loose, "=="}
  PROVE  Bound(range[i], range[i][1] # strict) \in BoundsOf(range, strict, loose)
  BY DEF BoundsOf

LEMMA BoundsTyped ==
  ASSUME NEW range \in RangeTexts, NEW strict, NEW loose
  PROVE  BoundsOf(range, strict, loose) \subseteq Bounds
<1> SUFFICES ASSUME NEW b \in BoundsOf(range, strict, loose) PROVE b \in Bounds OBVIOUS
<1>1. PICK i \in 1..Len(range) : b = Bound(range[i], range[i][1] # strict)
  BY BoundsByPlace
<1>2. (range[i][1] # strict) \in BOOLEAN OBVIOUS
<1> QED BY <1>1, <1>2, BoundOf

\* Being stricter is a strict order, on each side.
LEMMA StricterLowerOrder ==
  ASSUME NEW a \in Bounds, NEW b \in Bounds, NEW c \in Bounds
  PROVE  /\ ~ StricterLower(a, a)
         /\ StricterLower(a, b) /\ StricterLower(b, c) => StricterLower(a, c)
<1>1. a.value \in Versions /\ b.value \in Versions /\ c.value \in Versions BY DEF Bounds
<1>2. ~ StricterLower(a, a) BY <1>1, BelowIrreflexive DEF StricterLower, Stricter
<1>3. ASSUME StricterLower(a, b), StricterLower(b, c) PROVE StricterLower(a, c)
  BY <1>1, <1>3, BelowTransitive DEF StricterLower, Stricter
<1> QED BY <1>2, <1>3

LEMMA StricterUpperOrder ==
  ASSUME NEW a \in Bounds, NEW b \in Bounds, NEW c \in Bounds
  PROVE  /\ ~ StricterUpper(a, a)
         /\ StricterUpper(a, b) /\ StricterUpper(b, c) => StricterUpper(a, c)
<1>1. a.value \in Versions /\ b.value \in Versions /\ c.value \in Versions BY DEF Bounds
<1>2. ~ StricterUpper(a, a) BY <1>1, BelowIrreflexive DEF StricterUpper, Stricter
<1>3. ASSUME StricterUpper(a, b), StricterUpper(b, c) PROVE StricterUpper(a, c)
  BY <1>1, <1>3, BelowTransitive DEF StricterUpper, Stricter
<1> QED BY <1>2, <1>3

\* _parse_range finds a strictest bound of each side that has one.
LEMMA LowerIsStrictest ==
  ASSUME NEW range \in RangeTexts, Lowers(range) # {}
  PROVE  /\ Lower(range) \in Lowers(range)
         /\ \A c \in Lowers(range) : ~ StricterLower(c, Lower(range))
<1> DEFINE I == {i \in 1..Len(range) : range[i][1] \in {">", ">=", "=="}}
           At(i) == Bound(range[i], range[i][1] # ">")
           R == {p \in I \X I : StricterLower(At(p[1]), At(p[2]))}
<1>1. Len(range) \in Nat BY LenProperties DEF RangeTexts
<1>2. \A i \in I : At(i) \in Bounds BY BoundOf
<1>3. \A b \in Lowers(range) : \E i \in I : b = At(i) BY BoundsByPlace DEF Lowers
<1>4. \A i \in I : At(i) \in Lowers(range) BY PlaceBounds DEF Lowers
<1>5. I \in SUBSET (1..Len(range)) /\ I # {} BY <1>3
<1> HIDE DEF At, I
<1>6. \A i \in I : <<i, i>> \notin R BY <1>2, StricterLowerOrder
<1>7. \A i, j, k \in I : <<i, j>> \in R /\ <<j, k>> \in R => <<i, k>> \in R
  <2> TAKE i, j, k \in I
  <2>1. At(i) \in Bounds /\ At(j) \in Bounds /\ At(k) \in Bounds BY <1>2
  <2> QED BY <2>1, StricterLowerOrder
<1>8. PICK i \in I : \A j \in I : <<j, i>> \notin R
  <2> HIDE DEF R
  <2> QED BY <1>1, <1>5, <1>6, <1>7, Strictest
<1>9. \E b \in Lowers(range) : \A c \in Lowers(range) : ~ StricterLower(c, b)
  BY <1>3, <1>4, <1>8
<1> QED BY <1>9 DEF Lower

LEMMA UpperIsStrictest ==
  ASSUME NEW range \in RangeTexts, Uppers(range) # {}
  PROVE  /\ Upper(range) \in Uppers(range)
         /\ \A c \in Uppers(range) : ~ StricterUpper(c, Upper(range))
<1> DEFINE I == {i \in 1..Len(range) : range[i][1] \in {"<", "<=", "=="}}
           At(i) == Bound(range[i], range[i][1] # "<")
           R == {p \in I \X I : StricterUpper(At(p[1]), At(p[2]))}
<1>1. Len(range) \in Nat BY LenProperties DEF RangeTexts
<1>2. \A i \in I : At(i) \in Bounds BY BoundOf
<1>3. \A b \in Uppers(range) : \E i \in I : b = At(i) BY BoundsByPlace DEF Uppers
<1>4. \A i \in I : At(i) \in Uppers(range) BY PlaceBounds DEF Uppers
<1>5. I \in SUBSET (1..Len(range)) /\ I # {} BY <1>3
<1> HIDE DEF At, I
<1>6. \A i \in I : <<i, i>> \notin R BY <1>2, StricterUpperOrder
<1>7. \A i, j, k \in I : <<i, j>> \in R /\ <<j, k>> \in R => <<i, k>> \in R
  <2> TAKE i, j, k \in I
  <2>1. At(i) \in Bounds /\ At(j) \in Bounds /\ At(k) \in Bounds BY <1>2
  <2> QED BY <2>1, StricterUpperOrder
<1>8. PICK i \in I : \A j \in I : <<j, i>> \notin R
  <2> HIDE DEF R
  <2> QED BY <1>1, <1>5, <1>6, <1>7, Strictest
<1>9. \E b \in Uppers(range) : \A c \in Uppers(range) : ~ StricterUpper(c, b)
  BY <1>3, <1>4, <1>8
<1> QED BY <1>9 DEF Upper

\* What a bound lets through, on its side.
Above(b, v) == Below(b.value, v) \/ (b.inclusive /\ v = b.value)
Under(b, v) == Below(v, b.value) \/ (b.inclusive /\ v = b.value)

\* What is let through by a bound is let through by one that is no stricter.
LEMMA LooserLower ==
  ASSUME NEW a \in Bounds, NEW b \in Bounds, NEW v \in Versions,
         ~ StricterLower(a, b), Above(b, v)
  PROVE  Above(a, v)
<1>1. a.value \in Versions /\ b.value \in Versions BY DEF Bounds
<1>2. ~ Below(b.value, a.value) BY DEF StricterLower, Stricter
<1>3. CASE Below(a.value, b.value)
  BY <1>1, <1>3, BelowTransitive DEF Above
<1>4. CASE a.value = b.value
  BY <1>4 DEF Above, StricterLower, Stricter
<1> QED BY <1>1, <1>2, <1>3, <1>4, BelowTotal

LEMMA LooserUpper ==
  ASSUME NEW a \in Bounds, NEW b \in Bounds, NEW v \in Versions,
         ~ StricterUpper(a, b), Under(b, v)
  PROVE  Under(a, v)
<1>1. a.value \in Versions /\ b.value \in Versions BY DEF Bounds
<1>2. ~ Below(a.value, b.value) BY DEF StricterUpper, Stricter
<1>3. CASE Below(b.value, a.value)
  BY <1>1, <1>3, BelowTransitive DEF Under
<1>4. CASE a.value = b.value
  BY <1>4 DEF Under, StricterUpper, Stricter
<1> QED BY <1>1, <1>2, <1>3, <1>4, BelowTotal

\* A version that a range admits is let through by each of its bounds.
LEMMA AdmittedByBounds ==
  ASSUME NEW range \in RangeTexts, NEW v \in Versions, Admits(range, v)
  PROVE  /\ \A b \in Lowers(range) : Above(b, v)
         /\ \A b \in Uppers(range) : Under(b, v)
<1>1. ASSUME NEW b \in Lowers(range) PROVE Above(b, v)
  <2>1. PICK i \in 1..Len(range) :
           /\ range[i][1] \in {">", ">=", "=="}
           /\ b = Bound(range[i], range[i][1] # ">")
    BY BoundsByPlace DEF Lowers
  <2>2. Satisfies(v, range[i]) /\ Padded(range[i][2]) \in Versions
    BY ClauseOf DEF Admits
  <2>3. b.value = Padded(range[i][2]) /\ b.inclusive = (range[i][1] # ">")
    BY <2>1 DEF Bound
  <2> QED BY <2>1, <2>2, <2>3, BelowTotal DEF Satisfies, Above
<1>2. ASSUME NEW b \in Uppers(range) PROVE Under(b, v)
  <2>1. PICK i \in 1..Len(range) :
           /\ range[i][1] \in {"<", "<=", "=="}
           /\ b = Bound(range[i], range[i][1] # "<")
    BY BoundsByPlace DEF Uppers
  <2>2. Satisfies(v, range[i]) /\ Padded(range[i][2]) \in Versions
    BY ClauseOf DEF Admits
  <2>3. b.value = Padded(range[i][2]) /\ b.inclusive = (range[i][1] # "<")
    BY <2>1 DEF Bound
  <2> QED BY <2>1, <2>2, <2>3, BelowTotal DEF Satisfies, Under
<1> QED BY <1>1, <1>2

\* And a version let through by each bound satisfies each well-formed clause.
LEMMA BoundsAdmit ==
  ASSUME NEW range \in RangeTexts, NEW v \in Versions,
         \A i \in 1..Len(range) : range[i][1] \notin {"?", "*"},
         \A b \in Lowers(range) : Above(b, v),
         \A b \in Uppers(range) : Under(b, v)
  PROVE  Admits(range, v)
<1> SUFFICES ASSUME NEW i \in 1..Len(range) PROVE Satisfies(v, range[i]) BY DEF Admits
<1> DEFINE w == Padded(range[i][2])
<1>1. range[i][1] \in {"==", ">=", ">", "<=", "<"} /\ w \in Versions BY ClauseOf
<1>2. range[i][1] \in {">", ">=", "=="} =>
        Below(w, v) \/ (range[i][1] # ">" /\ v = w)
  <2> SUFFICES ASSUME range[i][1] \in {">", ">=", "=="}
               PROVE  Below(w, v) \/ (range[i][1] # ">" /\ v = w) OBVIOUS
  <2>1. Above(Bound(range[i], range[i][1] # ">"), v) BY PlaceBounds DEF Lowers
  <2> QED BY <2>1 DEF Above, Bound
<1>3. range[i][1] \in {"<", "<=", "=="} =>
        Below(v, w) \/ (range[i][1] # "<" /\ v = w)
  <2> SUFFICES ASSUME range[i][1] \in {"<", "<=", "=="}
               PROVE  Below(v, w) \/ (range[i][1] # "<" /\ v = w) OBVIOUS
  <2>1. Under(Bound(range[i], range[i][1] # "<"), v) BY PlaceBounds DEF Uppers
  <2> QED BY <2>1 DEF Under, Bound
<1> HIDE DEF w
<1>4. ~ (Below(v, w) /\ Below(w, v)) /\ ~ Below(v, v) /\ ~ Below(w, w)
  BY <1>1, BelowAsymmetric, BelowIrreflexive
<1>5. range[i][1] = "==" => v = w BY <1>2, <1>3, <1>4
<1>6. range[i][1] = ">=" => ~ Below(v, w) BY <1>2, <1>4
<1>7. range[i][1] = ">" => Below(w, v) BY <1>2
<1>8. range[i][1] = "<=" => ~ Below(w, v) BY <1>3, <1>4
<1>9. range[i][1] = "<" => Below(v, w) BY <1>3
<1> QED BY <1>1, <1>5, <1>6, <1>7, <1>8, <1>9 DEF Satisfies, w

\* version_range_covers is right: a range that covers another admits every
\* version that the other admits, whatever their clauses and spellings.
THEOREM CoversAdmits ==
  ASSUME NEW supported \in RangeTexts, NEW required \in RangeTexts,
         Covers(supported, required),
         NEW v \in Versions, Admits(required, v)
  PROVE  Admits(supported, v)
<1>1. CASE supported = required BY <1>1
<1>2. CASE supported = Wildcard
  <2>1. \A i \in 1..Len(supported) : supported[i][1] = "*" BY <1>2 DEF Wildcard
  <2> QED BY <2>1 DEF Admits, Satisfies
<1>3. CASE supported # required /\ supported # Wildcard
  <2>1. \A i \in 1..Len(supported) : supported[i][1] \notin {"?", "*"}
    BY <1>3 DEF Covers, Readable
  <2>2. ASSUME NEW b \in Lowers(supported) PROVE Above(b, v)
    <3>1. Lowers(required) # {} /\ ~ StricterLower(Lower(supported), Lower(required))
      BY <1>3, <2>2 DEF Covers
    <3>2. /\ Lower(supported) \in Lowers(supported) /\ ~ StricterLower(b, Lower(supported))
          /\ Lower(required) \in Lowers(required)
      BY <2>2, <3>1, LowerIsStrictest
    <3>3. /\ b \in Bounds /\ Lower(supported) \in Bounds /\ Lower(required) \in Bounds
      BY <2>2, <3>2, BoundsTyped DEF Lowers
    <3>4. Above(Lower(required), v) BY <3>2, AdmittedByBounds
    <3>5. Above(Lower(supported), v) BY <3>1, <3>3, <3>4, LooserLower
    <3> QED BY <3>2, <3>3, <3>5, LooserLower
  <2>3. ASSUME NEW b \in Uppers(supported) PROVE Under(b, v)
    <3>1. Uppers(required) # {} /\ ~ StricterUpper(Upper(supported), Upper(required))
      BY <1>3, <2>3 DEF Covers
    <3>2. /\ Upper(supported) \in Uppers(supported) /\ ~ StricterUpper(b, Upper(supported))
          /\ Upper(required) \in Uppers(required)
      BY <2>3, <3>1, UpperIsStrictest
    <3>3. /\ b \in Bounds /\ Upper(supported) \in Bounds /\ Upper(required) \in Bounds
      BY <2>3, <3>2, BoundsTyped DEF Uppers
    <3>4. Under(Upper(required), v) BY <3>2, AdmittedByBounds
    <3>5. Under(Upper(supported), v) BY <3>1, <3>3, <3>4, LooserUpper
    <3> QED BY <3>2, <3>3, <3>5, LooserUpper
  <2> QED BY <2>1, <2>2, <2>3, BoundsAdmit
<1> QED BY <1>1, <1>2, <1>3

-----------------------------------------------------------------------------
(* The invariant of the fetches.                                            *)

Calls == [step : Steps, request : Requests \cup {None},
          result : Answers \cup {None}, placed : 0..(MaxOwnerSteps + 1)]

\* What is kept was accepted for a query that was asked.
KeptIsValid ==
  \A q \in Requests :
    /\ query[q] \in Queries[q] \cup {None}
    /\ kept[q] # None => query[q] # None /\ ValidResult(kept[q], q)

\* A call under way holds what is kept for its request; its file is absent
\* before it may be made, and complete when it is linked.
HoldsKept(c) ==
  c.step \notin Ended \cup {"killed"} =>
    /\ c.request \in Requests /\ c.result # None
    /\ kept[c.request] = c.result
    /\ c.result.object \in Objects

FileOf(c, t) ==
  /\ c.step \in Ended \cup {"stage", "request", "write"} => t = None
  /\ c.step = "stream" => t \in PartialBodies
  /\ c.step = "link" => IsComplete(t, c.result.object)

\* A call that has placed the file, with no step of the owner since, finds it.
PlacedIsThere(f, c) ==
  /\ c.placed <= ownerSteps + 1
  /\ c.placed = ownerSteps + 1 => dest # None /\ dest.by = f

\* A file that a fetch has placed is what its request selects.
IsSelected(d) ==
  d # None /\ d.by \in Fetchers =>
    /\ d.request \in Requests /\ kept[d.request] # None
    /\ IsComplete(d.body, kept[d.request].object)

CallsFit ==
  \A f \in Fetchers :
    HoldsKept(call[f]) /\ FileOf(call[f], temp[f]) /\ PlacedIsThere(f, call[f])

HostedInv == TypeOK /\ KeptIsValid /\ CallsFit /\ IsSelected(dest)

LEMMA InitHostedInv == Init => HostedInv
<1> SUFFICES ASSUME Init PROVE HostedInv OBVIOUS
<1>1. NewCall \in Calls BY ReuseAssumption DEF NewCall, Calls, Steps, Ended
<1>2. TypeOK
  <2>1. call \in [Fetchers -> Calls] BY <1>1 DEF Init
  <2>2. calls \in 0..MaxCalls /\ ownerSteps \in 0..MaxOwnerSteps
    BY ReuseAssumption DEF Init
  <2>3. query \in [Requests -> (UNION {Queries[q] : q \in Requests}) \cup {None}]
    <3> DEFINE Q == UNION {Queries[q] : q \in Requests}
    <3>1. query = [q \in Requests |-> None] BY DEF Init
    <3> HIDE DEF Q
    <3>2. query \in [Requests -> Q \cup {None}] BY <3>1
    <3> QED BY <3>2 DEF Q
  <2>4. /\ kept \in [Requests -> Answers \cup {None}]
        /\ temp \in [Fetchers -> PartialBodies \cup {None}]
        /\ dest \in Files \cup {None}
    BY DEF Init
  <2> QED BY <2>1, <2>2, <2>3, <2>4 DEF TypeOK, Calls
<1>3. KeptIsValid BY DEF Init, KeptIsValid
<1>4. CallsFit
  <2> SUFFICES ASSUME NEW f \in Fetchers
               PROVE  HoldsKept(call[f]) /\ FileOf(call[f], temp[f]) /\ PlacedIsThere(f, call[f])
    BY DEF CallsFit
  <2>1. call[f] = NewCall /\ temp[f] = None /\ ownerSteps = 0 BY DEF Init
  <2> QED BY <2>1 DEF NewCall, HoldsKept, FileOf, PlacedIsThere, Ended
<1>5. IsSelected(dest) BY DEF Init, IsSelected
<1> QED BY <1>2, <1>3, <1>4, <1>5 DEF HostedInv

\* A step of one fetcher, from what it makes of its call, its temporary file
\* and the destination.
LEMMA FetcherStep ==
  ASSUME HostedInv, UNCHANGED <<query, kept, ownerSteps>>, calls' \in 0..MaxCalls,
         NEW f \in Fetchers,
         NEW c \in Calls, call' = [call EXCEPT ![f] = c],
         NEW t \in PartialBodies \cup {None}, temp' = [temp EXCEPT ![f] = t],
         HoldsKept(c), FileOf(c, t),
         c.placed <= ownerSteps + 1,
         c.placed = ownerSteps + 1 => dest' # None /\ dest'.by = f,
         dest' = dest \/ (dest = None /\ dest' \in Files /\ IsSelected(dest'))
  PROVE  HostedInv'
<1>1. /\ call \in [Fetchers -> Calls] /\ temp \in [Fetchers -> PartialBodies \cup {None}]
      /\ dest \in Files \cup {None}
  BY DEF HostedInv, TypeOK, Calls
<1>2. /\ call'[f] = c /\ temp'[f] = t
      /\ \A g \in Fetchers \ {f} : call'[g] = call[g] /\ temp'[g] = temp[g]
  BY <1>1
<1>3. TypeOK'
  <2>1. call' \in [Fetchers -> Calls] /\ temp' \in [Fetchers -> PartialBodies \cup {None}]
        /\ dest' \in Files \cup {None}
    BY <1>1
  <2> QED BY <2>1 DEF HostedInv, TypeOK, Calls
<1>4. KeptIsValid' BY DEF HostedInv, KeptIsValid, ValidResult
<1>5. ASSUME NEW g \in Fetchers
      PROVE  (HoldsKept(call[g]) /\ FileOf(call[g], temp[g]) /\ PlacedIsThere(g, call[g]))'
  <2>1. CASE g = f BY <1>2, <2>1 DEF HoldsKept, FileOf, PlacedIsThere
  <2>2. CASE g # f
    <3>1. call'[g] = call[g] /\ temp'[g] = temp[g] BY <1>2, <2>2
    <3>2. HoldsKept(call[g]) /\ FileOf(call[g], temp[g]) /\ PlacedIsThere(g, call[g])
      BY DEF HostedInv, CallsFit
    <3>3. HoldsKept(call[g])' BY <3>1, <3>2 DEF HoldsKept
    <3>4. FileOf(call[g], temp[g])' BY <3>1, <3>2 DEF FileOf
    <3>5. PlacedIsThere(g, call[g])' BY <3>1, <3>2 DEF PlacedIsThere
    <3> QED BY <3>3, <3>4, <3>5
  <2> QED BY <2>1, <2>2
<1>6. IsSelected(dest)'
  <2>1. IsSelected(dest) BY DEF HostedInv
  <2> QED BY <2>1 DEF IsSelected
<1> QED BY <1>3, <1>4, <1>5, <1>6 DEF HostedInv, CallsFit

\* A call as it moves on or ends.
Moved(c, step) == [c EXCEPT !.step = step]
Over(c, step) == [NewCall EXCEPT !.step = step, !.placed = c.placed]

LEMMA CallOf ==
  ASSUME HostedInv, NEW f \in Fetchers
  PROVE  /\ call[f] \in Calls /\ temp[f] \in PartialBodies \cup {None}
         /\ HoldsKept(call[f]) /\ FileOf(call[f], temp[f]) /\ PlacedIsThere(f, call[f])
         /\ temp = [temp EXCEPT ![f] = temp[f]]
  BY DEF HostedInv, TypeOK, CallsFit, Calls

\* A call moves on, with its file as it is or as it becomes.
LEMMA GoesStep ==
  ASSUME HostedInv, UNCHANGED <<query, kept, dest, calls, ownerSteps>>,
         NEW f \in Fetchers, NEW step \in Steps, Goes(f, step),
         call[f].step \notin Ended \cup {"killed"},
         NEW t \in PartialBodies \cup {None}, temp' = [temp EXCEPT ![f] = t],
         FileOf(Moved(call[f], step), t)
  PROVE  HostedInv'
<1> DEFINE c == Moved(call[f], step)
<1>1. call[f] \in Calls /\ HoldsKept(call[f]) /\ PlacedIsThere(f, call[f]) BY CallOf
<1>2. call' = [call EXCEPT ![f] = c] BY DEF Goes, Moved
<1>3. /\ c \in Calls /\ c.step = step /\ c.request = call[f].request
      /\ c.result = call[f].result /\ c.placed = call[f].placed
  BY <1>1 DEF Moved, Calls
<1>4. calls' \in 0..MaxCalls BY DEF HostedInv, TypeOK
<1> HIDE DEF c
<1>5. HoldsKept(c) BY <1>1, <1>3 DEF HoldsKept
<1>6. /\ c.placed <= ownerSteps + 1
      /\ c.placed = ownerSteps + 1 => dest' # None /\ dest'.by = f
  BY <1>1, <1>3 DEF PlacedIsThere
<1>7. FileOf(c, t) BY DEF c
<1> QED BY <1>2, <1>3, <1>4, <1>5, <1>6, <1>7, FetcherStep

\* A call ends, and has no file.
LEMMA EndsStep ==
  ASSUME HostedInv, UNCHANGED <<query, kept, dest, calls, ownerSteps>>,
         NEW f \in Fetchers, NEW step \in Ended, Ends(f, step),
         temp' = [temp EXCEPT ![f] = None]
  PROVE  HostedInv'
<1> DEFINE c == Over(call[f], step)
<1>1. call[f] \in Calls /\ PlacedIsThere(f, call[f]) BY CallOf
<1>2. call' = [call EXCEPT ![f] = c] BY DEF Ends, Over
<1>3. c \in Calls /\ c.step = step /\ c.placed = call[f].placed
  BY <1>1 DEF Over, NewCall, Calls, Steps
<1>4. calls' \in 0..MaxCalls BY DEF HostedInv, TypeOK
<1> HIDE DEF c
<1>5. HoldsKept(c) BY <1>3 DEF HoldsKept
<1>6. /\ c.placed <= ownerSteps + 1
      /\ c.placed = ownerSteps + 1 => dest' # None /\ dest'.by = f
  BY <1>1, <1>3 DEF PlacedIsThere
<1>7. FileOf(c, None) BY <1>3 DEF FileOf, Ended
<1> QED BY <1>2, <1>3, <1>4, <1>5, <1>6, <1>7, FetcherStep

LEMMA AskStep ==
  ASSUME HostedInv, NEW q \in Requests, NEW asked \in Queries[q], Ask(q, asked)
  PROVE  HostedInv'
<1>1. /\ query[q] = None /\ query' = [query EXCEPT ![q] = asked]
      /\ UNCHANGED <<kept, call, temp, dest, calls, ownerSteps>>
  BY DEF Ask
<1>2. TypeOK' BY <1>1 DEF HostedInv, TypeOK
<1>3. KeptIsValid'
  <2> SUFFICES ASSUME NEW r \in Requests
               PROVE  /\ query'[r] \in Queries[r] \cup {None}
                      /\ kept[r] # None => query'[r] # None /\ ValidResult(kept[r], r)'
    BY <1>1 DEF KeptIsValid, ValidResult
  <2>1. /\ query[r] \in Queries[r] \cup {None}
        /\ kept[r] # None => query[r] # None /\ ValidResult(kept[r], r)
    BY DEF HostedInv, KeptIsValid
  <2>2. CASE r = q
    <3>1. query'[r] = asked BY <1>1, <2>2 DEF HostedInv, TypeOK
    <3> QED BY <1>1, <2>1, <2>2, <3>1
  <2>3. CASE r # q
    <3>1. query'[r] = query[r] BY <1>1, <2>3 DEF HostedInv, TypeOK
    <3> QED BY <1>1, <2>1, <3>1 DEF ValidResult
  <2> QED BY <2>2, <2>3
<1>4. CallsFit' BY <1>1 DEF HostedInv, CallsFit, HoldsKept, FileOf, PlacedIsThere
<1>5. IsSelected(dest)' BY <1>1 DEF HostedInv, IsSelected
<1> QED BY <1>2, <1>3, <1>4, <1>5 DEF HostedInv

LEMMA AcceptStep ==
  ASSUME HostedInv, NEW q \in Requests, NEW result \in Answers, Accept(q, result)
  PROVE  HostedInv'
<1>1. /\ query[q] # None /\ kept[q] = None /\ ValidResult(result, q)
      /\ kept' = [kept EXCEPT ![q] = result]
      /\ UNCHANGED <<query, call, temp, dest, calls, ownerSteps>>
  BY DEF Accept
<1>2. TypeOK' BY <1>1 DEF HostedInv, TypeOK
<1>3. /\ kept'[q] = result
      /\ \A r \in Requests : kept[r] # None => kept'[r] = kept[r]
      /\ \A r \in Requests \ {q} : kept'[r] = kept[r]
  BY <1>1 DEF HostedInv, TypeOK
<1>4. KeptIsValid'
  <2> SUFFICES ASSUME NEW r \in Requests
               PROVE  /\ query[r] \in Queries[r] \cup {None}
                      /\ kept'[r] # None => query[r] # None /\ ValidResult(kept'[r], r)
    BY <1>1 DEF KeptIsValid, ValidResult
  <2>1. /\ query[r] \in Queries[r] \cup {None}
        /\ kept[r] # None => query[r] # None /\ ValidResult(kept[r], r)
    BY DEF HostedInv, KeptIsValid
  <2> QED BY <1>1, <1>3, <2>1
<1>5. ASSUME NEW f \in Fetchers
      PROVE  (HoldsKept(call[f]) /\ FileOf(call[f], temp[f]) /\ PlacedIsThere(f, call[f]))'
  <2>1. HoldsKept(call[f]) /\ FileOf(call[f], temp[f]) /\ PlacedIsThere(f, call[f])
    BY CallOf
  <2> QED BY <1>1, <1>3, <2>1 DEF HoldsKept, FileOf, PlacedIsThere
<1>6. IsSelected(dest)' BY <1>1, <1>3 DEF HostedInv, IsSelected
<1> QED BY <1>2, <1>4, <1>5, <1>6 DEF HostedInv, CallsFit

\* A fetch begins with the result that is kept for its own request.
LEMMA BeginsStep ==
  ASSUME HostedInv, NEW f \in Fetchers, NEW q \in Requests, NEW result \in KeptResults,
         BoundTo(result, q), ValidSelection(result), Begins(f, q, result)
  PROVE  HostedInv'
<1> DEFINE c == [step |-> IF result.version = "1.3" THEN "request" ELSE "stage",
                 request |-> q, result |-> result, placed |-> 0]
<1>1. /\ call' = [call EXCEPT ![f] = c]
      /\ call[f].step \in Ended /\ calls < MaxCalls /\ calls' = calls + 1
      /\ Deliverable(result) /\ UNCHANGED <<query, kept, temp, dest, ownerSteps>>
  BY DEF Begins
<1>2. PICK r \in Requests : result = kept[r] /\ result # None BY DEF KeptResults
<1>3. result.request = r BY <1>2 DEF HostedInv, KeptIsValid, ValidResult, BoundTo
<1>4. kept[q] = result BY <1>2, <1>3 DEF BoundTo
<1>5. result.object \in Objects BY <1>1 DEF Deliverable, ValidSelection
<1>6. result \in Answers BY <1>2 DEF HostedInv, TypeOK
<1>7. /\ calls' \in 0..MaxCalls /\ ownerSteps \in 0..MaxOwnerSteps
  BY <1>1, ReuseAssumption DEF HostedInv, TypeOK
<1>8. /\ c \in Calls /\ c.step \in {"request", "stage"} /\ c.request = q
      /\ c.result = result /\ c.placed = 0
  BY <1>6, ReuseAssumption DEF Calls, Steps
<1>9. temp[f] = None /\ temp' = [temp EXCEPT ![f] = None]
  BY <1>1, CallOf DEF FileOf
<1> HIDE DEF c
<1>10. HoldsKept(c) BY <1>2, <1>4, <1>5, <1>8 DEF HoldsKept
<1>11. FileOf(c, None) BY <1>8 DEF FileOf
<1>12. c.placed <= ownerSteps + 1 /\ c.placed # ownerSteps + 1 BY <1>7, <1>8
<1> QED BY <1>1, <1>7, <1>8, <1>9, <1>10, <1>11, <1>12, FetcherStep

LEMMA FetchBegins ==
  ASSUME HostedInv, NEW f \in Fetchers, NEW q \in Requests, NEW result \in KeptResults,
         FetchSelected(f, q, result) \/ Continue(f, q, result)
  PROVE  HostedInv'
  BY BeginsStep DEF FetchSelected, Continue, ValidResult, ValidAlone

LEMMA StageStep ==
  ASSUME HostedInv, NEW f \in Fetchers, Stage(f)
  PROVE  HostedInv'
<1>1. call[f].step = "stage" /\ UNCHANGED <<query, kept, dest, calls, ownerSteps>>
  BY DEF Stage
<1>2. temp[f] = None BY <1>1, CallOf DEF FileOf
<1>3. CASE Ends(f, "raised") /\ UNCHANGED temp
  <2>1. temp' = [temp EXCEPT ![f] = None] BY <1>2, <1>3, CallOf
  <2> QED BY <1>1, <1>3, <2>1, EndsStep DEF Ended
<1>4. CASE Goes(f, "stream") /\ temp' = [temp EXCEPT ![f] = [object |-> None, bytes |-> 0]]
  <2>1. [object |-> None, bytes |-> 0] \in PartialBodies BY ReuseAssumption DEF PartialBodies
  <2>2. Moved(call[f], "stream").step = "stream" BY CallOf DEF Moved, Calls
  <2>3. FileOf(Moved(call[f], "stream"), [object |-> None, bytes |-> 0])
    BY <2>1, <2>2 DEF FileOf, Ended
  <2>4. call[f].step \notin Ended \cup {"killed"} /\ "stream" \in Steps
    BY <1>1 DEF Ended, Steps
  <2> QED BY <1>1, <1>4, <2>1, <2>3, <2>4, GoesStep
<1> QED BY <1>3, <1>4 DEF Stage

\* A call that leaves its transfer keeps its file for the finally clause.
LEMMA FailsStep ==
  ASSUME HostedInv, UNCHANGED <<query, kept, temp, dest, calls, ownerSteps>>,
         NEW f \in Fetchers, Fails(f), call[f].step \notin Ended \cup {"killed"}
  PROVE  HostedInv'
<1>1. Moved(call[f], "unlink").step = "unlink" BY CallOf DEF Moved, Calls
<1>2. FileOf(Moved(call[f], "unlink"), temp[f]) BY <1>1 DEF FileOf, Ended
<1>3. temp[f] \in PartialBodies \cup {None} /\ temp' = [temp EXCEPT ![f] = temp[f]]
  BY CallOf
<1> QED BY <1>2, <1>3, GoesStep DEF Fails, Steps

LEMMA ReceiveStep ==
  ASSUME HostedInv, NEW f \in Fetchers, NEW object \in Objects, Receive(f, object)
  PROVE  HostedInv'
<1>1. call[f].step = "stream" /\ UNCHANGED <<query, kept, dest, calls, ownerSteps>>
  BY DEF Receive
<1>2. temp[f] \in PartialBodies BY <1>1, CallOf DEF FileOf
<1>3. call[f].step \notin Ended \cup {"killed"} BY <1>1 DEF Ended
<1>4. CASE Fails(f) /\ UNCHANGED temp BY <1>1, <1>3, <1>4, FailsStep
<1>5. CASE /\ temp[f].bytes < MaxBytes /\ UNCHANGED call
           /\ temp' = [temp EXCEPT ![f] = [object |-> object, bytes |-> @.bytes + 1]]
  <2> DEFINE t == [object |-> object, bytes |-> temp[f].bytes + 1]
  <2>1. t \in PartialBodies /\ temp' = [temp EXCEPT ![f] = t]
    BY <1>2, <1>5, ReuseAssumption DEF PartialBodies
  <2>2. call' = [call EXCEPT ![f] = call[f]] BY <1>5 DEF HostedInv, TypeOK
  <2> HIDE DEF t
  <2>3. FileOf(call[f], t) BY <1>1, <2>1 DEF FileOf, Ended
  <2>4. calls' \in 0..MaxCalls BY <1>1 DEF HostedInv, TypeOK
  <2>5. /\ call[f].placed <= ownerSteps + 1
        /\ call[f].placed = ownerSteps + 1 => dest' # None /\ dest'.by = f
    BY <1>1, CallOf DEF PlacedIsThere
  <2> QED BY <1>1, <2>1, <2>2, <2>3, <2>4, <2>5, CallOf, FetcherStep
<1> QED BY <1>4, <1>5 DEF Receive

LEMMA EndOfStreamStep ==
  ASSUME HostedInv, NEW f \in Fetchers, NEW headers \in Headers, EndOfStream(f, headers)
  PROVE  HostedInv'
<1>1. /\ call[f].step = "stream"
      /\ UNCHANGED <<query, kept, temp, dest, calls, ownerSteps>>
  BY DEF EndOfStream
<1>2. call[f].step \notin Ended \cup {"killed"} BY <1>1 DEF Ended
<1>3. CASE Fails(f) BY <1>1, <1>2, <1>3, FailsStep
<1>4. CASE Verified(call[f].result, temp[f], headers) /\ Goes(f, "link")
  <2>1. Moved(call[f], "link").step = "link" /\ Moved(call[f], "link").result = call[f].result
    BY CallOf DEF Moved, Calls
  <2>2. FileOf(Moved(call[f], "link"), temp[f])
    BY <1>4, <2>1 DEF FileOf, Ended, Verified
  <2>3. temp[f] \in PartialBodies \cup {None} /\ temp' = [temp EXCEPT ![f] = temp[f]]
    BY <1>1, CallOf
  <2> QED BY <1>1, <1>2, <1>4, <2>2, <2>3, GoesStep DEF Steps
<1> QED BY <1>3, <1>4 DEF EndOfStream

LEMMA RequestStep ==
  ASSUME HostedInv, NEW f \in Fetchers, NEW body \in Bodies, NEW headers \in Headers,
         Request(f, body, headers)
  PROVE  HostedInv'
<1>1. /\ call[f].step = "request"
      /\ UNCHANGED <<query, kept, temp, dest, calls, ownerSteps>>
  BY DEF Request
<1>2. temp[f] = None /\ temp' = [temp EXCEPT ![f] = None]
  BY <1>1, CallOf DEF FileOf
<1>3. CASE Ends(f, "raised") BY <1>1, <1>2, <1>3, EndsStep DEF Ended
<1>4. CASE Goes(f, "write")
  <2>1. Moved(call[f], "write").step = "write" BY CallOf DEF Moved, Calls
  <2>2. FileOf(Moved(call[f], "write"), None) BY <2>1 DEF FileOf
  <2>3. call[f].step \notin Ended \cup {"killed"} BY <1>1 DEF Ended
  <2> QED BY <1>1, <1>2, <1>4, <2>2, <2>3, GoesStep DEF Steps
<1> QED BY <1>3, <1>4 DEF Request

LEMMA WriteStep ==
  ASSUME HostedInv, NEW f \in Fetchers, Write(f)
  PROVE  HostedInv'
<1> DEFINE object == call[f].result.object
           t == [object |-> object, bytes |-> Length[object]]
<1>1. /\ call[f].step = "write" /\ Goes(f, "link") /\ temp' = [temp EXCEPT ![f] = t]
      /\ UNCHANGED <<query, kept, dest, calls, ownerSteps>>
  BY DEF Write
<1>2. call[f].step \notin Ended \cup {"killed"} BY <1>1 DEF Ended
<1>3. object \in Objects BY <1>2, CallOf DEF HoldsKept
<1>4. t \in PartialBodies BY <1>3, ReuseAssumption DEF PartialBodies
<1>5. Moved(call[f], "link").step = "link" /\ Moved(call[f], "link").result = call[f].result
  BY CallOf DEF Moved, Calls
<1>6. FileOf(Moved(call[f], "link"), t) BY <1>5 DEF FileOf, Ended, IsComplete
<1> HIDE DEF t
<1> QED BY <1>1, <1>2, <1>4, <1>6, GoesStep DEF Steps

\* The file is linked, complete, where there was none.
LEMMA LinkStep ==
  ASSUME HostedInv, NEW f \in Fetchers, Link(f)
  PROVE  HostedInv'
<1>1. call[f].step = "link" /\ UNCHANGED <<query, kept, temp, calls, ownerSteps>>
  BY DEF Link
<1>2. call[f].step \notin Ended \cup {"killed"} BY <1>1 DEF Ended
<1>3. CASE Fails(f) /\ UNCHANGED dest BY <1>1, <1>2, <1>3, FailsStep
<1>4. CASE /\ dest = None /\ dest' = Placed(f)
           /\ call' = [call EXCEPT ![f].step = "unlink", ![f].placed = ownerSteps + 1]
  <2> DEFINE c == [call[f] EXCEPT !.step = "unlink", !.placed = ownerSteps + 1]
  <2>1. call[f] \in Calls /\ HoldsKept(call[f]) /\ FileOf(call[f], temp[f]) BY CallOf
  <2>2. call' = [call EXCEPT ![f] = c] BY <1>4 DEF HostedInv, TypeOK
  <2>3. ownerSteps \in 0..MaxOwnerSteps /\ calls' \in 0..MaxCalls
    BY <1>1 DEF HostedInv, TypeOK
  <2>4. /\ c \in Calls /\ c.step = "unlink" /\ c.request = call[f].request
        /\ c.result = call[f].result /\ c.placed = ownerSteps + 1
    <3>1. ownerSteps + 1 \in 0..(MaxOwnerSteps + 1) /\ "unlink" \in Steps
      BY <2>3, ReuseAssumption DEF Steps
    <3> QED BY <2>1, <3>1 DEF Calls
  <2>5. /\ call[f].request \in Requests /\ call[f].result # None
        /\ kept[call[f].request] = call[f].result
        /\ call[f].result.object \in Objects
    BY <1>2, <2>1 DEF HoldsKept
  <2>6. temp[f] \in PartialBodies \cup {None} /\ temp' = [temp EXCEPT ![f] = temp[f]]
    BY <1>1, CallOf
  <2>7. /\ dest' \in Files /\ dest'.by = f /\ dest'.request = call[f].request
        /\ dest'.body = temp[f]
    BY <1>4, <2>5, <2>6 DEF Placed, Files
  <2>8. dest' # None BY <2>7, NoneAssumption
  <2>9. IsSelected(dest')
    BY <1>1, <2>1, <2>5, <2>7 DEF IsSelected, FileOf
  <2> HIDE DEF c
  <2>10. HoldsKept(c) BY <2>4, <2>5 DEF HoldsKept
  <2>11. FileOf(c, temp[f]) BY <2>4 DEF FileOf, Ended
  <2>12. c.placed <= ownerSteps + 1 BY <2>3, <2>4
  <2> QED BY <1>1, <1>4, <2>2, <2>3, <2>4, <2>6, <2>7, <2>8, <2>9, <2>10, <2>11, <2>12,
             FetcherStep
<1> QED BY <1>3, <1>4 DEF Link

LEMMA UnlinkStep ==
  ASSUME HostedInv, NEW f \in Fetchers, Unlink(f)
  PROVE  HostedInv'
  BY EndsStep DEF Unlink, Ended

LEMMA InterruptStep ==
  ASSUME HostedInv, NEW f \in Fetchers, Interrupt(f)
  PROVE  HostedInv'
<1>1. /\ call[f].step \in {"stage", "stream", "request", "write", "link"}
      /\ UNCHANGED <<query, kept, temp, dest, calls, ownerSteps>>
  BY DEF Interrupt
<1>2. CASE temp[f] = None /\ Ends(f, "raised")
  <2>1. temp' = [temp EXCEPT ![f] = None] BY <1>1, <1>2, CallOf
  <2> QED BY <1>1, <1>2, <2>1, EndsStep DEF Ended
<1>3. CASE Fails(f)
  <2>1. call[f].step \notin Ended \cup {"killed"} BY <1>1 DEF Ended
  <2> QED BY <1>1, <1>3, <2>1, FailsStep
<1> QED BY <1>2, <1>3 DEF Interrupt

LEMMA KillStep ==
  ASSUME HostedInv, NEW f \in Fetchers, Kill(f)
  PROVE  HostedInv'
<1>1. /\ call[f].step \notin Ended \cup {"killed"} /\ Goes(f, "killed")
      /\ UNCHANGED <<query, kept, temp, dest, calls, ownerSteps>>
  BY DEF Kill
<1>2. Moved(call[f], "killed").step = "killed" BY CallOf DEF Moved, Calls
<1>3. FileOf(Moved(call[f], "killed"), temp[f]) BY <1>2 DEF FileOf, Ended
<1>4. temp[f] \in PartialBodies \cup {None} /\ temp' = [temp EXCEPT ![f] = temp[f]]
  BY <1>1, CallOf
<1> QED BY <1>1, <1>3, <1>4, GoesStep DEF Steps

\* A step of the owner takes the destination out of every call's hands.
LEMMA OwnerKeeps ==
  ASSUME HostedInv, OwnerStep
  PROVE  HostedInv'
<1>1. /\ ownerSteps < MaxOwnerSteps /\ ownerSteps' = ownerSteps + 1
      /\ UNCHANGED <<query, kept, call, temp, calls>>
  BY DEF OwnerStep
<1>2. ownerSteps \in 0..MaxOwnerSteps /\ MaxOwnerSteps \in Nat
  BY ReuseAssumption DEF HostedInv, TypeOK
<1>3. dest' = None \/ (dest' \in Files /\ dest'.by = Owner)
  BY DEF OwnerStep, Files
<1>4. TypeOK' BY <1>1, <1>2, <1>3 DEF HostedInv, TypeOK
<1>5. KeptIsValid' BY <1>1 DEF HostedInv, KeptIsValid, ValidResult
<1>6. ASSUME NEW f \in Fetchers
      PROVE  (HoldsKept(call[f]) /\ FileOf(call[f], temp[f]) /\ PlacedIsThere(f, call[f]))'
  <2>1. /\ HoldsKept(call[f]) /\ FileOf(call[f], temp[f]) /\ PlacedIsThere(f, call[f])
        /\ call[f].placed \in 0..(MaxOwnerSteps + 1)
    BY CallOf DEF Calls
  <2>2. call[f].placed <= ownerSteps' + 1 /\ call[f].placed # ownerSteps' + 1
    BY <1>1, <1>2, <2>1 DEF PlacedIsThere
  <2> QED BY <1>1, <2>1, <2>2 DEF HoldsKept, FileOf, PlacedIsThere
<1>7. IsSelected(dest)' BY <1>3, NoneAssumption DEF IsSelected
<1> QED BY <1>4, <1>5, <1>6, <1>7 DEF HostedInv, CallsFit

LEMMA NextHostedInv == HostedInv /\ [Next]_vars => HostedInv'
<1> SUFFICES ASSUME HostedInv, [Next]_vars PROVE HostedInv' OBVIOUS
<1>1. ASSUME NEW q \in Requests, NEW asked \in Queries[q], Ask(q, asked) PROVE HostedInv'
  BY <1>1, AskStep
<1>2. ASSUME NEW q \in Requests, NEW r \in Answers, Accept(q, r) PROVE HostedInv'
  BY <1>2, AcceptStep
<1>3. ASSUME NEW f \in Fetchers, FetchStep(f) PROVE HostedInv'
  BY <1>3, FetchBegins, StageStep, WriteStep, LinkStep, UnlinkStep, InterruptStep,
     KillStep, ReceiveStep, EndOfStreamStep, RequestStep DEF FetchStep
<1>4. CASE OwnerStep BY <1>4, OwnerKeeps
<1>5. CASE UNCHANGED vars
  BY <1>5 DEF vars, HostedInv, TypeOK, KeptIsValid, ValidResult, CallsFit, HoldsKept,
              FileOf, PlacedIsThere, IsSelected
<1> QED BY <1>1, <1>2, <1>3, <1>4, <1>5 DEF Next

LEMMA AlwaysHostedInv == Spec => []HostedInv
  BY InitHostedInv, NextHostedInv, PTL DEF Spec

-----------------------------------------------------------------------------
(* What holds of every run.                                                 *)

\* The queries, the calls and the files keep their types.
THEOREM HostedReuseTypes == Spec => []TypeOK
<1>1. HostedInv => TypeOK BY DEF HostedInv
<1> QED BY <1>1, AlwaysHostedInv, PTL

\* The receiver can run whatever version of itself its range allows, for every
\* way of writing the two ranges (version_range_covers in
\* validate_service_query_result).
THEOREM AcceptedAlwaysFits == Spec => []AcceptedFits
<1>1. HostedInv => AcceptedFits
  <2> SUFFICES ASSUME HostedInv, NEW q \in Requests, kept[q] # None,
                      kept[q].treatment # "abstention",
                      NEW t \in Required(query[q]), NEW v \in Probes,
                      Admits(t.range, v)
               PROVE  Admits(kept[q].supports.range, v)
    BY DEF AcceptedFits
  <2>1. /\ kept[q] \in Answers /\ query[q] \in Queries[q]
        /\ ValidResult(kept[q], q)
    BY DEF HostedInv, TypeOK, KeptIsValid
  <2>2. Covers(kept[q].supports.range, t.range)
    BY <2>1 DEF ValidResult, Compatible
  <2>3. t \in query[q].targets BY DEF Required
  <2>4. /\ kept[q].supports.range \in RangeTexts /\ t.range \in RangeTexts
        /\ v \in Versions
    BY <2>1, <2>3, RangesAssumption
  <2> QED BY <2>2, <2>4, CoversAdmits
<1> QED BY <1>1, AlwaysHostedInv, PTL

\* A staged file is the complete object its request selects.
THEOREM StagedIsAlwaysSelected == Spec => []StagedIsSelected
<1>1. HostedInv => StagedIsSelected BY DEF HostedInv, IsSelected, StagedIsSelected
<1> QED BY <1>1, AlwaysHostedInv, PTL

\* A fetch that ended left no temporary file, and what it reports as staged is
\* there until the owner changes it.
THEOREM EndedIsAlwaysSettled == Spec => []EndedIsSettled
<1>1. HostedInv => EndedIsSettled
  BY CallOf DEF EndedIsSettled, FileOf, PlacedIsThere
<1> QED BY <1>1, AlwaysHostedInv, PTL

\* A fetch replaces nothing.
THEOREM DestinationAlwaysStays == Spec => DestinationStays
<1>1. HostedInv /\ [Next]_vars =>
        [dest # None /\ ownerSteps' = ownerSteps => dest' = dest]_vars
  <2> SUFFICES ASSUME HostedInv, Next, dest # None, ownerSteps' = ownerSteps
               PROVE  dest' = dest
    OBVIOUS
  <2>1. ownerSteps \in Nat BY ReuseAssumption DEF HostedInv, TypeOK
  <2>2. ~ OwnerStep BY <2>1 DEF OwnerStep
  <2>3. ASSUME NEW f \in Fetchers, FetchStep(f) PROVE dest' = dest
    BY <2>3 DEF FetchStep, FetchSelected, Continue, Begins, Stage, Write, Link, Unlink,
                Interrupt, Kill, Receive, EndOfStream, Request
  <2> QED BY <2>2, <2>3 DEF Next, Ask, Accept
<1> QED BY <1>1, AlwaysHostedInv, PTL DEF Spec, DestinationStays
================================================================================
