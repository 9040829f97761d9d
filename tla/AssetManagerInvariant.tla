----------------------- MODULE AssetManagerInvariant ------------------------
(***************************************************************************)
(* The inductive invariant of AssetManager, and what its operations leave  *)
(* behind: the sum of the sizes of the stored assets, the walks of the     *)
(* sorted queries, and the outcomes of a removal, a store and a purge.     *)
(***************************************************************************)
EXTENDS AssetManager, FiniteSetTheorems, NaturalsInduction, WellFoundedInduction, TLAPS

(* Induction, over a set of numbers in the place of a predicate.           *)

Less == {p \in Nat \X Nat : p[1] < p[2]}

\* The natural numbers are well-founded ...
LEMMA LessWellFounded == IsWellFoundedOn(Less, Nat)
  BY NatLessThanWellFounded, Zenon DEF OpToRel, Less

\* ... so a set of them that is not empty has a least element.
LEMMA LeastNumber == ASSUME NEW S \in SUBSET Nat, S # {} PROVE \E n \in S : \A m \in S : n <= m
<1>1. PICK n \in S : \A m \in S : ~(<<m, n>> \in Less)
  BY WFMin, LessWellFounded, Zenon
<1>2. \A m \in S : ~(m < n)
  BY <1>1, Zenon DEF Less
<1> QED BY <1>2

\* A set of numbers that has 0, and n + 1 with every n, has them all.
LEMMA Induction == ASSUME NEW S \in SUBSET Nat, 0 \in S, \A n \in S : n + 1 \in S PROVE S = Nat
<1> SUFFICES ASSUME Nat \ S # {} PROVE FALSE
  BY Zenon
<1>1. PICK n \in Nat \ S : \A m \in Nat \ S : n <= m
  BY LeastNumber, Zenon
<1>2. n # 0
  OBVIOUS
<1>3. n - 1 \in S
  BY <1>1, <1>2
<1> QED BY <1>3

-----------------------------------------------------------------------------
(* What the assets weigh *)

Any(S) == CHOOSE x \in S : TRUE
Weighs(rows, x) == PkgSize[rows[x].value]

\* sum is the recursive function that SizeOf() evaluates.
Sums(rows, sum) ==
  sum = [S \in SUBSET DOMAIN rows |->
           IF S = {} THEN 0 ELSE Weighs(rows, Any(S)) + sum[S \ {Any(S)}]]

\* The rows of a store: every one describes a package.
RowType == [value : Packages, count : Nat, time : Nat]
Rows == UNION {[D -> RowType] : D \in SUBSET Ids}

\* Rows have finitely many keys, each with a package of some size.
LEMMA RowsFinite ==
  ASSUME NEW rows \in Rows
  PROVE  /\ DOMAIN rows \subseteq Ids /\ rows \in [DOMAIN rows -> RowType]
         /\ \A x \in DOMAIN rows : Weighs(rows, x) \in Nat /\ Weighs(rows, x) > 0
         /\ \A S \in SUBSET DOMAIN rows : IsFiniteSet(S) /\ Cardinality(S) \in Nat
<1>1. PICK D \in SUBSET Ids : rows \in [D -> RowType]
  BY Zenon DEF Rows
<1>2. DOMAIN rows = D
  BY <1>1, Zenon
<1>3. \A x \in D : Weighs(rows, x) \in Nat /\ Weighs(rows, x) > 0
  <2> SUFFICES ASSUME NEW x \in D PROVE Weighs(rows, x) \in Nat \ {0}
    OBVIOUS
  <2>1. rows[x].value \in 1 .. Len(PkgSize)
    BY <1>1, Zenon DEF RowType, Packages
  <2>2. PkgSize \in Seq(Nat \ {0})
    BY AssetAssumption, Zenon
  <2> QED BY <2>1, <2>2 DEF Weighs
<1>4. \A S \in SUBSET D : IsFiniteSet(S) /\ Cardinality(S) \in Nat
  BY AssetAssumption, FS_Subset, FS_CardinalityType, Zenon
<1> QED BY <1>1, <1>2, <1>3, <1>4, Zenon

\* An element taken from a set leaves one less.
LEMMA OneLess ==
  ASSUME NEW S, IsFiniteSet(S), S # {}
  PROVE  Any(S) \in S /\ \A x \in S : Cardinality(S \ {x}) = Cardinality(S) - 1
  BY FS_RemoveElement, Zenon DEF Any

\* There is such a function: one that is right up to n elements becomes right up
\* to n + 1.
LEMMA SumExists == ASSUME NEW rows \in Rows PROVE \E sum : Sums(rows, sum)
<1> DEFINE D == DOMAIN rows
           Next_(sum, S) == IF S = {} THEN 0 ELSE Weighs(rows, Any(S)) + sum[S \ {Any(S)}]
           Good(n) == \E sum : /\ sum = [S \in SUBSET D |-> sum[S]]
                               /\ \A S \in SUBSET D : Cardinality(S) <= n => sum[S] = Next_(sum, S)
<1>1. \A S \in SUBSET D : IsFiniteSet(S) /\ Cardinality(S) \in Nat
  BY RowsFinite, Zenon
<1>2. Good(0)
  <2>1. \A S \in SUBSET D : Cardinality(S) <= 0 => S = {}
    BY <1>1, FS_EmptySet
  <2> DEFINE sum == [S \in SUBSET D |-> 0]
  <2>2. \A S \in SUBSET D : Cardinality(S) <= 0 => sum[S] = Next_(sum, S)
    BY <2>1, Zenon
  <2>3. sum = [S \in SUBSET D |-> sum[S]]
    OBVIOUS
  <2> QED BY <2>2, <2>3, Zenon
<1>3. ASSUME NEW n \in Nat, Good(n) PROVE Good(n + 1)
  <2>1. PICK sum : /\ sum = [S \in SUBSET D |-> sum[S]]
                   /\ \A S \in SUBSET D : Cardinality(S) <= n => sum[S] = Next_(sum, S)
    BY <1>3, Zenon
  <2> DEFINE more == [S \in SUBSET D |-> IF Cardinality(S) = n + 1 THEN Next_(sum, S) ELSE sum[S]]
  <2>2. ASSUME NEW S \in SUBSET D, Cardinality(S) <= n + 1 PROVE more[S] = Next_(more, S)
    <3>1. CASE S = {}
      <4>1. Cardinality(S) = 0
        BY <3>1, FS_EmptySet, Zenon
      <4>2. Cardinality(S) <= n /\ Cardinality(S) # n + 1
        BY <4>1
      <4>3. more[S] = sum[S]
        BY <4>2, Zenon
      <4>4. sum[S] = Next_(sum, S)
        BY <2>1, <4>2, Zenon
      <4> QED BY <3>1, <4>3, <4>4, Zenon
    <3>2. CASE S # {}
      <4>1. /\ S \ {Any(S)} \in SUBSET D
            /\ Cardinality(S \ {Any(S)}) = Cardinality(S) - 1 /\ Cardinality(S) \in Nat
        BY <1>1, <3>2, OneLess, Zenon
      <4>2. more[S \ {Any(S)}] = sum[S \ {Any(S)}]
        BY <2>2, <4>1
      <4>3. Next_(more, S) = Next_(sum, S)
        BY <3>2, <4>2, Zenon
      <4>4. CASE Cardinality(S) = n + 1
        BY <4>3, <4>4, Zenon
      <4>5. CASE Cardinality(S) # n + 1
        <5>1. Cardinality(S) <= n
          BY <2>2, <4>1, <4>5
        <5> QED BY <2>1, <4>3, <4>5, <5>1, Zenon
      <4> QED BY <4>4, <4>5, Zenon
    <3> QED BY <3>1, <3>2, Zenon
  <2>3. more = [S \in SUBSET D |-> more[S]]
    OBVIOUS
  <2> HIDE DEF more
  <2> QED BY <2>2, <2>3, Zenon
<1>4. \A n \in Nat : Good(n)
  <2> HIDE DEF Good
  <2> DEFINE good == {n \in Nat : Good(n)}
  <2>1. good \in SUBSET Nat /\ 0 \in good /\ \A n \in good : n + 1 \in good
    BY <1>2, <1>3
  <2>2. good = Nat
    <3> HIDE DEF good
    <3> QED BY <2>1, Induction, Zenon
  <2> QED BY <2>2, Zenon
<1>5. Good(Cardinality(D))
  <2> HIDE DEF Good
  <2> QED BY <1>1, <1>4, Zenon
<1>6. PICK sum : /\ sum = [S \in SUBSET D |-> sum[S]]
                 /\ \A S \in SUBSET D : Cardinality(S) <= Cardinality(D) => sum[S] = Next_(sum, S)
  BY <1>5, Zenon
<1>7. \A S \in SUBSET D : Cardinality(S) <= Cardinality(D)
  BY <1>1, FS_Subset, Zenon
<1>8. sum = [S \in SUBSET D |-> Next_(sum, S)]
  BY <1>6, <1>7, Zenon
<1> QED BY <1>8, Zenon DEF Sums

\* Any element may be taken out of a sum, not only the one that is evaluated first.
LEMMA SumParts ==
  ASSUME NEW rows \in Rows, NEW sum, Sums(rows, sum)
  PROVE  \A S \in SUBSET DOMAIN rows :
           sum[S] \in Nat /\ \A x \in S : sum[S] = Weighs(rows, x) + sum[S \ {x}]
<1> DEFINE D == DOMAIN rows
           Parts(S) == sum[S] \in Nat /\ \A x \in S : sum[S] = Weighs(rows, x) + sum[S \ {x}]
           Good(n) == \A S \in SUBSET D : Cardinality(S) <= n => Parts(S)
<1>1. /\ \A S \in SUBSET D : IsFiniteSet(S) /\ Cardinality(S) \in Nat
      /\ \A x \in D : Weighs(rows, x) \in Nat
  BY RowsFinite, Zenon
<1>2. \A S \in SUBSET D : sum[S] = IF S = {} THEN 0 ELSE Weighs(rows, Any(S)) + sum[S \ {Any(S)}]
  BY Zenon DEF Sums
<1>3. Good(0)
  <2>1. \A S \in SUBSET D : Cardinality(S) <= 0 => S = {}
    BY <1>1, FS_EmptySet
  <2>2. sum[{}] = 0
    BY <1>2, Zenon
  <2>3. Parts({})
    BY <2>2
  <2> QED BY <2>1, <2>3, Zenon
<1>4. ASSUME NEW n \in Nat, Good(n) PROVE Good(n + 1)
  <2> SUFFICES ASSUME NEW S \in SUBSET D, Cardinality(S) <= n + 1, ~(Cardinality(S) <= n)
               PROVE  Parts(S)
    BY <1>4, Zenon
  <2>1. Cardinality(S) = n + 1 /\ S # {}
    BY <1>1, FS_EmptySet
  <2>2. PICK a \in S : a = Any(S)
    BY <1>1, <2>1, OneLess, Zenon
  <2>3. \A x \in S : S \ {x} \in SUBSET D /\ Cardinality(S \ {x}) <= n
    BY <1>1, <2>1, OneLess
  <2>4. \A x \in S : Parts(S \ {x})
    <3> HIDE DEF Parts
    <3> QED BY <1>4, <2>3, Zenon
  <2>5. sum[S] = Weighs(rows, a) + sum[S \ {a}]
    BY <1>2, <2>1, <2>2, Zenon
  <2>6. sum[S] \in Nat
    BY <1>1, <2>4, <2>5
  <2>7. ASSUME NEW x \in S PROVE sum[S] = Weighs(rows, x) + sum[S \ {x}]
    <3>1. CASE x = a
      BY <2>5, <3>1, Zenon
    <3>2. CASE x # a
      <4> DEFINE rest == (S \ {x}) \ {a}
      <4>1. sum[S \ {a}] = Weighs(rows, x) + sum[(S \ {a}) \ {x}]
        BY <2>4, <3>2, Zenon
      <4>2. sum[S \ {x}] = Weighs(rows, a) + sum[rest]
        BY <2>4, <3>2, Zenon
      <4>3. (S \ {a}) \ {x} = rest
        OBVIOUS
      <4>4. rest \in SUBSET D /\ Cardinality(rest) <= n
        <5>1. S \ {x} \in SUBSET D /\ S \ {x} # {} /\ a \in S \ {x}
          BY <3>2, Zenon
        <5>2. Cardinality(rest) = Cardinality(S \ {x}) - 1
          BY <1>1, <5>1, OneLess, Zenon
        <5>3. Cardinality(S \ {x}) \in Nat /\ Cardinality(S \ {x}) <= n
          BY <1>1, <2>3, <5>1, Zenon
        <5> QED BY <5>2, <5>3
      <4>5. sum[rest] \in Nat
        BY <1>4, <4>4, Zenon
      <4>6. Weighs(rows, a) \in Nat /\ Weighs(rows, x) \in Nat
        BY <1>1, Zenon
      <4> HIDE DEF rest
      <4>7. sum[S \ {a}] = Weighs(rows, x) + sum[rest]
        BY <4>1, <4>3, Zenon
      <4>8. sum[S] = Weighs(rows, a) + (Weighs(rows, x) + sum[rest])
        BY <2>5, <4>7, Zenon
      <4>9. Weighs(rows, a) + (Weighs(rows, x) + sum[rest]) = Weighs(rows, x) + (Weighs(rows, a) + sum[rest])
        BY <4>5, <4>6
      <4> QED BY <4>2, <4>8, <4>9, Zenon
    <3> QED BY <3>1, <3>2, Zenon
  <2> QED BY <2>6, <2>7, Zenon
<1>5. \A n \in Nat : Good(n)
  <2> HIDE DEF Good
  <2> DEFINE good == {n \in Nat : Good(n)}
  <2>1. good \in SUBSET Nat /\ 0 \in good /\ \A n \in good : n + 1 \in good
    BY <1>3, <1>4
  <2>2. good = Nat
    <3> HIDE DEF good
    <3> QED BY <2>1, Induction, Zenon
  <2> QED BY <2>2, Zenon
<1>6. ASSUME NEW S \in SUBSET D PROVE Parts(S)
  <2>1. Good(Cardinality(S))
    <3> HIDE DEF Good
    <3> QED BY <1>1, <1>5, Zenon
  <2>2. Cardinality(S) <= Cardinality(S)
    BY <1>1
  <2> HIDE DEF Parts
  <2> QED BY <2>1, <2>2, Zenon
<1> QED BY <1>6, Zenon

\* The sums of two sets of rows agree where the values do.
LEMMA SumsAgree ==
  ASSUME NEW rows \in Rows, NEW sum, Sums(rows, sum),
         NEW other \in Rows, NEW osum, Sums(other, osum),
         NEW D \in SUBSET (DOMAIN rows \cap DOMAIN other),
         \A x \in D : rows[x].value = other[x].value
  PROVE  sum[D] = osum[D]
<1> DEFINE Good(n) == \A S \in SUBSET D : Cardinality(S) <= n => sum[S] = osum[S]
<1>1. \A S \in SUBSET D : IsFiniteSet(S) /\ Cardinality(S) \in Nat
  BY RowsFinite, Zenon
<1>2. /\ \A S \in SUBSET D : sum[S] = IF S = {} THEN 0 ELSE Weighs(rows, Any(S)) + sum[S \ {Any(S)}]
      /\ \A S \in SUBSET D : osum[S] = IF S = {} THEN 0 ELSE Weighs(other, Any(S)) + osum[S \ {Any(S)}]
  BY Zenon DEF Sums
<1>3. Good(0)
  <2>1. \A S \in SUBSET D : Cardinality(S) <= 0 => S = {}
    BY <1>1, FS_EmptySet
  <2> QED BY <1>2, <2>1, Zenon
<1>4. ASSUME NEW n \in Nat, Good(n) PROVE Good(n + 1)
  <2> SUFFICES ASSUME NEW S \in SUBSET D, Cardinality(S) <= n + 1, S # {}
               PROVE  sum[S] = osum[S]
    BY <1>2, Zenon
  <2>1. PICK a \in S : a = Any(S)
    BY <1>1, OneLess, Zenon
  <2>2. S \ {a} \in SUBSET D /\ Cardinality(S \ {a}) <= n
    BY <1>1, OneLess
  <2>3. Weighs(rows, a) = Weighs(other, a)
    BY Zenon DEF Weighs
  <2>4. sum[S \ {a}] = osum[S \ {a}]
    BY <1>4, <2>2, Zenon
  <2> QED BY <1>2, <2>1, <2>3, <2>4, Zenon
<1>5. \A n \in Nat : Good(n)
  <2> HIDE DEF Good
  <2> DEFINE good == {n \in Nat : Good(n)}
  <2>1. good \in SUBSET Nat /\ 0 \in good /\ \A n \in good : n + 1 \in good
    BY <1>3, <1>4
  <2>2. good = Nat
    <3> HIDE DEF good
    <3> QED BY <2>1, Induction, Zenon
  <2> QED BY <2>2, Zenon
<1>6. Good(Cardinality(D)) /\ Cardinality(D) <= Cardinality(D)
  <2> HIDE DEF Good
  <2> QED BY <1>1, <1>5
<1> QED BY <1>6, Zenon

\* SizeOf() is the value of that function for all keys.
LEMMA SizeIsSum ==
  ASSUME NEW rows \in Rows
  PROVE  \E sum : Sums(rows, sum) /\ SizeOf(rows) = sum[DOMAIN rows]
<1> DEFINE F == CHOOSE sum : Sums(rows, sum)
<1>1. Sums(rows, F)
  <2>1. \E sum : Sums(rows, sum)
    BY SumExists, Zenon
  <2> QED BY <2>1, Zenon
<1>2. SizeOf(rows) = F[DOMAIN rows]
  BY Zenon DEF SizeOf, MapThenSumSet, MapThenFoldSet, Sums, Weighs, Any
<1> HIDE DEF F
<1> QED BY <1>1, <1>2, Zenon

\* What no rows weigh, and that rows weigh a natural number.
LEMMA SizeNat == SizeOf(Empty) = 0 /\ \A rows \in Rows : SizeOf(rows) \in Nat
<1>1. ASSUME NEW rows \in Rows PROVE SizeOf(rows) \in Nat
  <2>1. PICK sum : Sums(rows, sum) /\ SizeOf(rows) = sum[DOMAIN rows]
    BY SizeIsSum, Zenon
  <2> QED BY <2>1, SumParts
<1>2. Empty \in Rows /\ DOMAIN Empty = {}
  <2>1. Empty \in [{} -> RowType] /\ {} \in SUBSET Ids
    BY Zenon DEF Empty
  <2> QED BY <2>1, Zenon DEF Rows
<1>3. PICK sum : Sums(Empty, sum) /\ SizeOf(Empty) = sum[DOMAIN Empty]
  BY <1>2, SizeIsSum, Zenon
<1>4. sum[{}] = 0
  BY <1>2, <1>3, Zenon DEF Sums
<1> QED BY <1>1, <1>2, <1>3, <1>4, Zenon

\* Rows with the same values weigh the same: get() changes only counts and times.
LEMMA SizeSame ==
  ASSUME NEW rows \in Rows, NEW other \in Rows, DOMAIN rows = DOMAIN other,
         \A x \in DOMAIN rows : rows[x].value = other[x].value
  PROVE  SizeOf(rows) = SizeOf(other)
<1>1. PICK sum : Sums(rows, sum) /\ SizeOf(rows) = sum[DOMAIN rows]
  BY SizeIsSum, Zenon
<1>2. PICK osum : Sums(other, osum) /\ SizeOf(other) = osum[DOMAIN other]
  BY SizeIsSum, Zenon
<1>3. sum[DOMAIN rows] = osum[DOMAIN rows]
  BY <1>1, <1>2, SumsAgree
<1> QED BY <1>1, <1>2, <1>3, Zenon

\* Rows with one more weigh its package more.
LEMMA SizeMore ==
  ASSUME NEW rows \in Rows, NEW other \in Rows, NEW x \in DOMAIN other, x \notin DOMAIN rows,
         DOMAIN other = DOMAIN rows \cup {x},
         \A y \in DOMAIN rows : rows[y].value = other[y].value
  PROVE  SizeOf(other) = SizeOf(rows) + PkgSize[other[x].value]
<1>1. PICK sum : Sums(rows, sum) /\ SizeOf(rows) = sum[DOMAIN rows]
  BY SizeIsSum, Zenon
<1>2. PICK osum : Sums(other, osum) /\ SizeOf(other) = osum[DOMAIN other]
  BY SizeIsSum, Zenon
<1>3. DOMAIN other \ {x} = DOMAIN rows
  BY Zenon
<1>4. osum[DOMAIN other] = Weighs(other, x) + osum[DOMAIN other \ {x}]
  BY <1>2, SumParts
<1>5. DOMAIN rows \in SUBSET (DOMAIN rows \cap DOMAIN other)
  OBVIOUS
<1>6. sum[DOMAIN rows] = osum[DOMAIN rows]
  BY <1>1, <1>2, <1>5, SumsAgree
<1>7. SizeOf(other) = Weighs(other, x) + SizeOf(rows)
  BY <1>1, <1>2, <1>3, <1>4, <1>6, Zenon
<1>8. SizeOf(rows) \in Nat /\ Weighs(other, x) \in Nat
  BY SizeNat, RowsFinite, Zenon
<1> QED BY <1>7, <1>8 DEF Weighs

-----------------------------------------------------------------------------
(* The sorted queries *)

\* A store with the keys and the values of rows.
Like(s, rows) ==
  /\ s = [rows |-> s.rows, clock |-> s.clock] /\ s.clock \in Nat
  /\ s.rows \in [DOMAIN rows -> RowType]
  /\ \A k \in DOMAIN rows : s.rows[k].value = rows[k].value

\* get() changes the count and the time of a key, at most.
LEMMA GetLike ==
  ASSUME NEW rows, NEW s, Like(s, rows), NEW k
  PROVE  Like(get(s, k), rows)
<1> DEFINE D == DOMAIN rows
           row == [s.rows[k] EXCEPT !.count = @ + 1, !.time = s.clock]
<1>1. get(s, k).rows = [s.rows EXCEPT ![k] = row] /\ get(s, k).clock = s.clock + 1
  BY Zenon DEF get
<1>2. ASSUME k \in D PROVE row \in RowType /\ row.value = s.rows[k].value
  <2>1. PICK r \in RowType : r = s.rows[k]
    BY <1>2, Zenon DEF Like
  <2>2. PICK c \in Nat : c = s.clock
    BY Zenon DEF Like
  <2>3. row = [r EXCEPT !.count = @ + 1, !.time = c]
    BY <2>1, <2>2, Zenon
  <2>4. [r EXCEPT !.count = @ + 1, !.time = c] = [value |-> r.value, count |-> r.count + 1, time |-> c]
    <3>1. r = [value |-> r.value, count |-> r.count, time |-> r.time]
      BY Zenon DEF RowType
    <3>2. [r EXCEPT !.count = @ + 1] = [value |-> r.value, count |-> r.count + 1, time |-> r.time]
      BY <3>1
    <3>3. PICK q : q = [value |-> r.value, count |-> r.count + 1, time |-> r.time]
      BY Zenon
    <3>4. [q EXCEPT !.time = c] = [value |-> r.value, count |-> r.count + 1, time |-> c]
      BY <3>3
    <3> QED BY <3>2, <3>3, <3>4, Zenon
  <2>5. r.value \in Packages /\ r.count + 1 \in Nat
    BY DEF RowType
  <2> HIDE DEF row
  <2> QED BY <2>1, <2>3, <2>4, <2>5, Zenon DEF RowType
<1>3. get(s, k).rows \in [D -> RowType]
  <2> HIDE DEF row
  <2> QED BY <1>1, <1>2, Zenon DEF Like
<1>4. \A x \in D : get(s, k).rows[x].value = s.rows[x].value
  <2> HIDE DEF row
  <2> QED BY <1>1, <1>2, Zenon DEF Like
<1>5. get(s, k) = [rows |-> get(s, k).rows, clock |-> get(s, k).clock]
  BY Zenon DEF get
<1> QED BY <1>1, <1>3, <1>4, <1>5 DEF Like

\* The cursor of a query by access count.
CountWalk(w, rows) ==
  /\ w = [store |-> w.store, cursor |-> w.cursor, keys |-> w.keys, need |-> w.need]
  /\ Like(w.store, rows)

\* A row of the query leaves the keys and the values as they are ...
LEMMA NextByCountKeeps ==
  ASSUME NEW rows, NEW w, CountWalk(w, rows), NEW rank, NEW skip, NEW weight
  PROVE  CountWalk(NextByCount(w, rank, skip, weight), rows)
<1> DEFINE after == NextByCount(w, rank, skip, weight)
<1>1. \/ after = w
      \/ \E c : after = [w EXCEPT !.cursor = c]
      \/ \E k, c, ks, n : after = [store |-> get(w.store, k), cursor |-> c, keys |-> ks, need |-> n]
  BY Zenon DEF NextByCount
<1>2. CASE after = w
  BY <1>2, Zenon
<1>3. ASSUME NEW c, after = [w EXCEPT !.cursor = c] PROVE CountWalk(after, rows)
  <2>1. w = [store |-> w.store, cursor |-> w.cursor, keys |-> w.keys, need |-> w.need]
    BY Zenon DEF CountWalk
  <2>2. after = [store |-> w.store, cursor |-> c, keys |-> w.keys, need |-> w.need]
    BY <1>3, <2>1, Zenon
  <2> HIDE DEF after
  <2> QED BY <2>2, Zenon DEF CountWalk
<1>4. ASSUME NEW k, NEW c, NEW ks, NEW n,
             after = [store |-> get(w.store, k), cursor |-> c, keys |-> ks, need |-> n]
      PROVE  CountWalk(after, rows)
  <2>1. Like(get(w.store, k), rows)
    BY GetLike, Zenon DEF CountWalk
  <2> HIDE DEF after
  <2> QED BY <1>4, <2>1, Zenon DEF CountWalk
<1> HIDE DEF after
<1>5. CountWalk(after, rows)
  BY <1>1, <1>2, <1>3, <1>4, Zenon
<1> QED BY <1>5, Zenon DEF after

\* ... and so does the whole.
LEMMA CollectByCountKeeps ==
  ASSUME NEW rows, NEW s, Like(s, rows), NEW rank, NEW skip, NEW weight, NEW need \in Nat,
         Cardinality(DOMAIN s.rows) \in Nat
  PROVE  Like(CollectByCount(s, rank, skip, weight, need).store, rows)
<1> DEFINE most == need + Cardinality(DOMAIN s.rows)
           first == [store |-> s, cursor |-> <<0, 0>>, keys |-> <<>>, need |-> need]
           Step(w) == NextByCount(w, rank, skip, weight)
           Walks(walk) == walk = [n \in 0 .. most |-> IF n = 0 THEN first ELSE Step(walk[n - 1])]
           Good(n) == \E walk : /\ walk = [m \in 0 .. most |-> walk[m]] /\ walk[0] = first
                                /\ \A m \in 1 .. most : m <= n => walk[m] = Step(walk[m - 1])
<1>1. most \in Nat
  OBVIOUS
<1> HIDE DEF most, first, Step
<1>2. Good(0)
  <2> DEFINE walk == [m \in 0 .. most |-> first]
  <2>1. walk = [m \in 0 .. most |-> walk[m]] /\ walk[0] = first
    BY <1>1
  <2>2. \A m \in 1 .. most : m <= 0 => walk[m] = Step(walk[m - 1])
    OBVIOUS
  <2> HIDE DEF walk
  <2> QED BY <2>1, <2>2, Zenon
<1>3. ASSUME NEW n \in Nat, Good(n) PROVE Good(n + 1)
  <2>1. PICK walk : /\ walk = [m \in 0 .. most |-> walk[m]] /\ walk[0] = first
                    /\ \A m \in 1 .. most : m <= n => walk[m] = Step(walk[m - 1])
    BY <1>3, Zenon
  <2> DEFINE more == [m \in 0 .. most |-> IF m = n + 1 THEN Step(walk[n]) ELSE walk[m]]
  <2>2. more = [m \in 0 .. most |-> more[m]] /\ more[0] = first
    BY <1>1, <2>1
  <2>3. ASSUME NEW m \in 1 .. most, m <= n + 1 PROVE more[m] = Step(more[m - 1])
    <3>1. m - 1 \in 0 .. most /\ more[m - 1] = walk[m - 1]
      BY <1>1, <2>3
    <3>2. CASE m = n + 1
      <4>1. more[m] = Step(walk[n]) /\ m - 1 = n
        BY <3>2
      <4> QED BY <3>1, <4>1, Zenon
    <3>3. CASE m # n + 1
      <4>1. more[m] = walk[m] /\ m <= n
        BY <2>3, <3>3
      <4>2. walk[m] = Step(walk[m - 1])
        BY <2>1, <4>1, Zenon
      <4> QED BY <3>1, <4>1, <4>2, Zenon
    <3> QED BY <3>2, <3>3, Zenon
  <2> HIDE DEF more
  <2> QED BY <2>2, <2>3, Zenon
<1>4. \A n \in Nat : Good(n)
  <2> HIDE DEF Good
  <2> DEFINE good == {n \in Nat : Good(n)}
  <2>1. good \in SUBSET Nat /\ 0 \in good /\ \A n \in good : n + 1 \in good
    BY <1>2, <1>3
  <2>2. good = Nat
    <3> HIDE DEF good
    <3> QED BY <2>1, Induction, Zenon
  <2> QED BY <2>2, Zenon
<1>5. \E walk : Walks(walk)
  <2>1. Good(most)
    <3> HIDE DEF Good
    <3> QED BY <1>1, <1>4, Zenon
  <2>2. PICK walk : /\ walk = [m \in 0 .. most |-> walk[m]] /\ walk[0] = first
                    /\ \A m \in 1 .. most : m <= most => walk[m] = Step(walk[m - 1])
    BY <2>1, Zenon
  <2>3. \A m \in 0 .. most : walk[m] = IF m = 0 THEN first ELSE Step(walk[m - 1])
    <3> SUFFICES ASSUME NEW m \in 0 .. most, m # 0 PROVE walk[m] = Step(walk[m - 1])
      BY <2>2, Zenon
    <3>1. m \in 1 .. most /\ m <= most
      BY <1>1
    <3> QED BY <2>2, <3>1, Zenon
  <2>4. Walks(walk)
    BY <2>2, <2>3, Zenon
  <2> QED BY <2>4, Zenon
<1> DEFINE W == CHOOSE walk : Walks(walk)
<1>6. Walks(W)
  BY <1>5, Zenon
<1>7. CollectByCount(s, rank, skip, weight, need) = W[most]
  BY Zenon DEF CollectByCount, most, first, Step
<1> HIDE DEF W
<1>8. CountWalk(W[0], rows)
  <2>1. W[0] = first
    BY <1>1, <1>6
  <2> QED BY <2>1 DEF CountWalk, first
<1>9. ASSUME NEW n \in 1 .. most, CountWalk(W[n - 1], rows) PROVE CountWalk(W[n], rows)
  <2>1. W[n] = Step(W[n - 1])
    BY <1>1, <1>6
  <2> QED BY <1>9, <2>1, NextByCountKeeps, Zenon DEF Step
<1>10. CountWalk(W[most], rows)
  <2> HIDE DEF Walks
  <2> DEFINE good == {n \in Nat : n <= most => CountWalk(W[n], rows)}
  <2>1. 0 \in good
    BY <1>8, Zenon
  <2>2. ASSUME NEW n \in good PROVE n + 1 \in good
    <3>1. n + 1 \in Nat /\ (n + 1) - 1 = n
      OBVIOUS
    <3>2. n + 1 <= most => n + 1 \in 1 .. most /\ CountWalk(W[n], rows)
      BY <1>1, <2>2
    <3>3. n + 1 <= most => CountWalk(W[n + 1], rows)
      BY <1>9, <3>1, <3>2, Zenon
    <3> QED BY <3>1, <3>3, Zenon
  <2>3. good = Nat
    <3>1. good \in SUBSET Nat
      OBVIOUS
    <3> HIDE DEF good
    <3> QED BY <2>1, <2>2, <3>1, Induction, Zenon
  <2>4. most \in good
    BY <1>1, <2>3, Zenon
  <2> QED BY <1>1, <2>4
<1> QED BY <1>7, <1>10, Zenon DEF CountWalk

\* The cursor of a query by access time.
TimeWalk(w, rows) ==
  /\ w = [store |-> w.store, cursor |-> w.cursor, keys |-> w.keys]
  /\ Like(w.store, rows)

\* A row of the query leaves the keys and the values as they are ...
LEMMA NextByTimeKeeps ==
  ASSUME NEW rows, NEW w, TimeWalk(w, rows), NEW rank
  PROVE  TimeWalk(NextByTime(w, rank), rows)
<1> DEFINE after == NextByTime(w, rank)
<1>1. \/ after = w
      \/ \E k, c, ks : after = [store |-> get(w.store, k), cursor |-> c, keys |-> ks]
  BY Zenon DEF NextByTime
<1>2. CASE after = w
  BY <1>2, Zenon
<1>3. ASSUME NEW k, NEW c, NEW ks,
             after = [store |-> get(w.store, k), cursor |-> c, keys |-> ks]
      PROVE  TimeWalk(after, rows)
  <2>1. Like(get(w.store, k), rows)
    BY GetLike, Zenon DEF TimeWalk
  <2> HIDE DEF after
  <2> QED BY <1>3, <2>1, Zenon DEF TimeWalk
<1> HIDE DEF after
<1>4. TimeWalk(after, rows)
  BY <1>1, <1>2, <1>3, Zenon
<1> QED BY <1>4, Zenon DEF after

\* ... and so does the whole.
LEMMA CollectByTimeKeeps ==
  ASSUME NEW rows, NEW s, Like(s, rows), NEW rank, NEW max \in Nat
  PROVE  Like(CollectByTime(s, rank, max).store, rows)
<1> DEFINE first == [store |-> s, cursor |-> <<>>, keys |-> <<>>]
           Step(w) == NextByTime(w, rank)
           Walks(walk) == walk = [n \in 0 .. max |-> IF n = 0 THEN first ELSE Step(walk[n - 1])]
           Good(n) == \E walk : /\ walk = [m \in 0 .. max |-> walk[m]] /\ walk[0] = first
                                /\ \A m \in 1 .. max : m <= n => walk[m] = Step(walk[m - 1])
<1>1. max \in Nat
  OBVIOUS
<1> HIDE DEF first, Step
<1>2. Good(0)
  <2> DEFINE walk == [m \in 0 .. max |-> first]
  <2>1. walk = [m \in 0 .. max |-> walk[m]] /\ walk[0] = first
    BY <1>1
  <2>2. \A m \in 1 .. max : m <= 0 => walk[m] = Step(walk[m - 1])
    OBVIOUS
  <2> HIDE DEF walk
  <2> QED BY <2>1, <2>2, Zenon
<1>3. ASSUME NEW n \in Nat, Good(n) PROVE Good(n + 1)
  <2>1. PICK walk : /\ walk = [m \in 0 .. max |-> walk[m]] /\ walk[0] = first
                    /\ \A m \in 1 .. max : m <= n => walk[m] = Step(walk[m - 1])
    BY <1>3, Zenon
  <2> DEFINE more == [m \in 0 .. max |-> IF m = n + 1 THEN Step(walk[n]) ELSE walk[m]]
  <2>2. more = [m \in 0 .. max |-> more[m]] /\ more[0] = first
    BY <1>1, <2>1
  <2>3. ASSUME NEW m \in 1 .. max, m <= n + 1 PROVE more[m] = Step(more[m - 1])
    <3>1. m - 1 \in 0 .. max /\ more[m - 1] = walk[m - 1]
      BY <1>1, <2>3
    <3>2. CASE m = n + 1
      <4>1. more[m] = Step(walk[n]) /\ m - 1 = n
        BY <3>2
      <4> QED BY <3>1, <4>1, Zenon
    <3>3. CASE m # n + 1
      <4>1. more[m] = walk[m] /\ m <= n
        BY <2>3, <3>3
      <4>2. walk[m] = Step(walk[m - 1])
        BY <2>1, <4>1, Zenon
      <4> QED BY <3>1, <4>1, <4>2, Zenon
    <3> QED BY <3>2, <3>3, Zenon
  <2> HIDE DEF more
  <2> QED BY <2>2, <2>3, Zenon
<1>4. \A n \in Nat : Good(n)
  <2> HIDE DEF Good
  <2> DEFINE good == {n \in Nat : Good(n)}
  <2>1. good \in SUBSET Nat /\ 0 \in good /\ \A n \in good : n + 1 \in good
    BY <1>2, <1>3
  <2>2. good = Nat
    <3> HIDE DEF good
    <3> QED BY <2>1, Induction, Zenon
  <2> QED BY <2>2, Zenon
<1>5. \E walk : Walks(walk)
  <2>1. Good(max)
    <3> HIDE DEF Good
    <3> QED BY <1>1, <1>4, Zenon
  <2>2. PICK walk : /\ walk = [m \in 0 .. max |-> walk[m]] /\ walk[0] = first
                    /\ \A m \in 1 .. max : m <= max => walk[m] = Step(walk[m - 1])
    BY <2>1, Zenon
  <2>3. \A m \in 0 .. max : walk[m] = IF m = 0 THEN first ELSE Step(walk[m - 1])
    <3> SUFFICES ASSUME NEW m \in 0 .. max, m # 0 PROVE walk[m] = Step(walk[m - 1])
      BY <2>2, Zenon
    <3>1. m \in 1 .. max /\ m <= max
      BY <1>1
    <3> QED BY <2>2, <3>1, Zenon
  <2>4. Walks(walk)
    BY <2>2, <2>3, Zenon
  <2> QED BY <2>4, Zenon
<1> DEFINE W == CHOOSE walk : Walks(walk)
<1>6. Walks(W)
  BY <1>5, Zenon
<1>7. CollectByTime(s, rank, max) = W[max]
  BY Zenon DEF CollectByTime, first, Step
<1> HIDE DEF W
<1>8. TimeWalk(W[0], rows)
  <2>1. W[0] = first
    BY <1>1, <1>6
  <2> QED BY <2>1 DEF TimeWalk, first
<1>9. ASSUME NEW n \in 1 .. max, TimeWalk(W[n - 1], rows) PROVE TimeWalk(W[n], rows)
  <2>1. W[n] = Step(W[n - 1])
    BY <1>1, <1>6
  <2> QED BY <1>9, <2>1, NextByTimeKeeps, Zenon DEF Step
<1>10. TimeWalk(W[max], rows)
  <2> HIDE DEF Walks
  <2> DEFINE good == {n \in Nat : n <= max => TimeWalk(W[n], rows)}
  <2>1. 0 \in good
    BY <1>8, Zenon
  <2>2. ASSUME NEW n \in good PROVE n + 1 \in good
    <3>1. n + 1 \in Nat /\ (n + 1) - 1 = n
      OBVIOUS
    <3>2. n + 1 <= max => n + 1 \in 1 .. max /\ TimeWalk(W[n], rows)
      BY <1>1, <2>2
    <3>3. n + 1 <= max => TimeWalk(W[n + 1], rows)
      BY <1>9, <3>1, <3>2, Zenon
    <3> QED BY <3>1, <3>3, Zenon
  <2>3. good = Nat
    <3>1. good \in SUBSET Nat
      OBVIOUS
    <3> HIDE DEF good
    <3> QED BY <2>1, <2>2, <3>1, Induction, Zenon
  <2>4. max \in good
    BY <1>1, <2>3, Zenon
  <2> QED BY <1>1, <2>4
<1> QED BY <1>7, <1>10, Zenon DEF TimeWalk

-----------------------------------------------------------------------------
(* The invariant *)

CallType == [at : {"idle", "written", "waiting", "fetched", "stored"}, id : Ids \cup {NoOne}, pkg : Nat]

\* A block of the queue; one that stores was queued by a caller, for an identifier.
IsBlock(b) ==
  /\ b = [op |-> b.op, id |-> b.id, for |-> b.for, size |-> b.size,
          chosen |-> b.chosen, victims |-> b.victims]
  /\ b.size \in Nat
  /\ b.op = "store" => b.for \in Callers /\ b.id \in Ids

\* A sequence of blocks.
Blocks(q) == \E S : q \in Seq(S) /\ \A b \in S : IsBlock(b)

\* Every variable that decides about the assets has its type.
Types ==
  /\ table \in Rows /\ call \in [Callers -> CallType] /\ Blocks(queue)
  /\ total \in Nat /\ estimate \in Nat /\ clock \in Nat
  /\ written \in Nat /\ written <= Len(PkgSize)

\* While the manager does not exist, nothing is queued and nobody waits.
Down == ~up => queue = <<>> /\ \A c \in Callers : call[c].at = "idle"

\* The package that a caller is about to store was written, and is neither stored
\* nor about to be stored by another caller.
Fresh ==
  \A c \in Callers :
    /\ call[c].pkg <= written
    /\ call[c].pkg # 0 =>
         /\ \A i \in DOMAIN table : table[i].value # call[c].pkg
         /\ \A d \in Callers \ {c} : call[d].pkg # call[c].pkg

\* What is stored was written.
Written == \A i \in DOMAIN table : table[i].value <= written

IInv == Types /\ Down /\ Fresh /\ Written

-----------------------------------------------------------------------------
(* What a block leaves behind *)

\* An outcome loses nothing valid but of the identifiers S, and makes nothing valid.
Shrunk(r, S) ==
  LET rows == r.store.rows
  IN  /\ rows \in Rows /\ r.store.clock \in Nat /\ r.total \in Nat /\ r.estimate \in Nat
      /\ DOMAIN rows \subseteq DOMAIN table
      /\ \A j \in DOMAIN rows : rows[j].value = table[j].value
      /\ \A j \in DOMAIN rows \cap DOMAIN r.files : j \in DOMAIN files /\ r.files[j] = files[j]
      /\ \A j \in (DOMAIN table \cap DOMAIN files) \ S : j \in DOMAIN rows \cap DOMAIN r.files

\* Both sizes cover what is stored.
Sized(rows, t, e) == SizeOf(rows) <= t /\ SizeOf(rows) <= e

\* The store as it is: it has the type of one, and a look at a key changes no value.
LEMMA StoreNow ==
  ASSUME Types
  PROVE  Like(Store, table) /\ table \in Rows /\ Cardinality(DOMAIN table) \in Nat
<1>1. table \in Rows /\ clock \in Nat
  BY Zenon DEF Types
<1>2. table \in [DOMAIN table -> RowType] /\ Cardinality(DOMAIN table) \in Nat
  BY <1>1, RowsFinite, Zenon
<1> QED BY <1>1, <1>2, Zenon DEF Like, Store

\* Rows that are like the table weigh as much.
LEMMA LikeWeighs ==
  ASSUME Types, NEW s, Like(s, table)
  PROVE  /\ s.rows \in Rows /\ DOMAIN s.rows = DOMAIN table /\ s.clock \in Nat
         /\ \A j \in DOMAIN table : s.rows[j].value = table[j].value
         /\ SizeOf(s.rows) = SizeOf(table)
<1>1. table \in Rows /\ DOMAIN table \subseteq Ids
  BY RowsFinite, Zenon DEF Types
<1>2. s.rows \in [DOMAIN table -> RowType] /\ s.clock \in Nat
  BY Zenon DEF Like
<1>3. s.rows \in Rows
  BY <1>1, <1>2, Zenon DEF Rows
<1>4. DOMAIN s.rows = DOMAIN table /\ \A j \in DOMAIN table : s.rows[j].value = table[j].value
  BY <1>2, Zenon DEF Like
<1>5. SizeOf(s.rows) = SizeOf(table)
  BY <1>1, <1>3, <1>4, SizeSame, Zenon
<1> QED BY <1>2, <1>3, <1>4, <1>5, Zenon

\* What a rollback leaves, field by field.
LEMMA UndoneFields ==
  ASSUME NEW s, NEW fs
  PROVE  Undone(s, fs) = [ok |-> FALSE, store |-> s, total |-> total, files |-> fs, estimate |-> estimate]
<1>1. PICK u : u = Unchanged
  OBVIOUS
<1>2. u = [ok |-> FALSE, store |-> Store, total |-> total, files |-> files, estimate |-> estimate]
  BY <1>1, Zenon DEF Unchanged
<1>3. PICK v : v = [u EXCEPT !.store = s]
  BY Zenon
<1>4. v = [ok |-> FALSE, store |-> s, total |-> total, files |-> files, estimate |-> estimate]
  BY <1>2, <1>3, Zenon
<1>5. [v EXCEPT !.files = fs] = [ok |-> FALSE, store |-> s, total |-> total, files |-> fs, estimate |-> estimate]
  <2>1. PICK x : x = [v EXCEPT !.files = fs]
    BY Zenon
  <2>2. x = [ok |-> FALSE, store |-> s, total |-> total, files |-> fs, estimate |-> estimate]
    BY <1>4, <2>1, ZenonT(60)
  <2> QED BY <2>1, <2>2, Zenon
<1>6. Undone(s, fs) = [v EXCEPT !.files = fs]
  BY <1>1, <1>3, Zenon DEF Undone
<1> QED BY <1>5, <1>6, Zenon

\* A rollback keeps the values, and loses at most the files that were moved.
LEMMA UndoneShrinks ==
  ASSUME Types, NEW s, Like(s, table), NEW fs, NEW S,
         \A j \in DOMAIN table \cap DOMAIN fs : j \in DOMAIN files /\ fs[j] = files[j],
         \A j \in (DOMAIN table \cap DOMAIN files) \ S : j \in DOMAIN fs
  PROVE  /\ Shrunk(Undone(s, fs), S) /\ ~Undone(s, fs).ok
         /\ SizeOf(Undone(s, fs).store.rows) = SizeOf(table)
         /\ Undone(s, fs).total = total /\ Undone(s, fs).estimate = estimate
<1>1. Undone(s, fs) = [ok |-> FALSE, store |-> s, total |-> total, files |-> fs, estimate |-> estimate]
  BY UndoneFields, Zenon
<1>2. PICK r : r = Undone(s, fs)
  OBVIOUS
<1>3. /\ r.ok = FALSE /\ r.store = s /\ r.total = total /\ r.files = fs /\ r.estimate = estimate
  BY <1>1, <1>2
<1>4. /\ s.rows \in Rows /\ DOMAIN s.rows = DOMAIN table /\ s.clock \in Nat
      /\ \A j \in DOMAIN table : s.rows[j].value = table[j].value
      /\ SizeOf(s.rows) = SizeOf(table)
  BY LikeWeighs, Zenon
<1>5. total \in Nat /\ estimate \in Nat
  BY Zenon DEF Types
<1>6. Shrunk(r, S)
  BY <1>3, <1>4, <1>5, Zenon DEF Shrunk
<1> QED BY <1>2, <1>3, <1>4, <1>6, Zenon

\* The block did nothing.
LEMMA UnchangedShrinks ==
  ASSUME Types, NEW S
  PROVE  /\ Shrunk(Unchanged, S) /\ ~Unchanged.ok
         /\ SizeOf(Unchanged.store.rows) = SizeOf(table)
         /\ Unchanged.total = total /\ Unchanged.estimate = estimate
<1>1. Unchanged = Undone(Store, files)
  BY UndoneFields, Zenon DEF Unchanged
<1>2. Like(Store, table)
  BY StoreNow, Zenon
<1>3. /\ \A j \in DOMAIN table \cap DOMAIN files : j \in DOMAIN files /\ files[j] = files[j]
      /\ \A j \in (DOMAIN table \cap DOMAIN files) \ S : j \in DOMAIN files
  OBVIOUS
<1> QED BY <1>1, <1>2, <1>3, UndoneShrinks

\* A removal that ends well takes the row and the files of an asset that is not in
\* use; one that does not end well leaves the row.
LEMMA RemoveOutcome ==
  ASSUME Types, NEW i, NEW F, NEW r \in RemoveAsset(i, F)
  PROVE  /\ Shrunk(r, {i} \ Alive)
         /\ ~r.ok => SizeOf(r.store.rows) = SizeOf(table)
         /\ Sized(table, total, estimate) => Sized(r.store.rows, r.total, r.estimate)
<1> DEFINE s == get(Store, i)
           w == PkgSize[table[i].value]
           size == IF estimate < w THEN estimate ELSE w
           done == [ok |-> TRUE, store |-> remove(s, i), total |-> estimate - size,
                    files |-> ToTrash({i}), estimate |-> estimate - size]
           Claim(x) == /\ Shrunk(x, {i} \ Alive)
                       /\ ~x.ok => SizeOf(x.store.rows) = SizeOf(table)
                       /\ Sized(table, total, estimate) => Sized(x.store.rows, x.total, x.estimate)
<1>1. Claim(Unchanged)
  BY UnchangedShrinks, Zenon DEF Sized
<1>2. Claim([Unchanged EXCEPT !.ok = TRUE])
  <2>1. PICK u : u = Unchanged
    OBVIOUS
  <2>2. u = [ok |-> FALSE, store |-> Store, total |-> total, files |-> files, estimate |-> estimate]
    BY <2>1, Zenon DEF Unchanged
  <2>3. PICK v : v = [u EXCEPT !.ok = TRUE]
    BY Zenon
  <2>4. v = [ok |-> TRUE, store |-> u.store, total |-> u.total, files |-> u.files, estimate |-> u.estimate]
    BY <2>2, <2>3, ZenonT(60)
  <2>5. Claim(v)
    <3>1. v.ok = TRUE /\ v.store = u.store /\ v.total = u.total /\ v.files = u.files /\ v.estimate = u.estimate
      BY <2>4, SMTT(60)
    <3> QED BY <1>1, <2>1, <3>1 DEF Shrunk
  <2> QED BY <2>1, <2>3, <2>5, Zenon
<1>3. ASSUME i \in DOMAIN table, ~is_asset_alive(i), NEW x \in Transaction(F, done, Undone(s, files), Undone(s, files), Undone(s, done.files))
      PROVE  Claim(x)
  <2>1. Like(s, table)
    BY StoreNow, GetLike, SMTT(60)
  <2>2. \/ x = done \/ x = Undone(s, files) \/ x = Undone(s, ToTrash({i}))
    BY <1>3, SMTT(60) DEF Transaction
  <2>3. i \in {i} \ Alive
    BY <1>3, SMTT(60) DEF Alive
  <2> HIDE DEF s
  <2>4. CASE x = Undone(s, files)
    BY <2>1, <2>4, UndoneShrinks, SMTT(60) DEF Sized
  <2>5. CASE x = Undone(s, ToTrash({i}))
    <3>1. /\ \A j \in DOMAIN table \cap DOMAIN ToTrash({i}) : j \in DOMAIN files /\ ToTrash({i})[j] = files[j]
          /\ \A j \in (DOMAIN table \cap DOMAIN files) \ ({i} \ Alive) : j \in DOMAIN ToTrash({i})
      BY <2>3, ZenonT(60) DEF ToTrash, Without, Restrict
    <3> QED BY <2>1, <2>5, <3>1, UndoneShrinks, SMTT(60) DEF Sized
  <2>6. CASE x = done
    <3>1. /\ x.ok = TRUE /\ x.store = remove(s, i) /\ x.total = estimate - size
          /\ x.files = ToTrash({i}) /\ x.estimate = estimate - size
      BY <2>6, Zenon
    <3>2. /\ s.rows \in Rows /\ DOMAIN s.rows = DOMAIN table /\ s.clock \in Nat
          /\ \A j \in DOMAIN table : s.rows[j].value = table[j].value
          /\ SizeOf(s.rows) = SizeOf(table)
      BY <2>1, LikeWeighs, Zenon
    <3>3. x.store.clock = s.clock /\ x.store.rows = Without(s.rows, {i})
      BY <2>1, <3>1, SMTT(60) DEF remove, Like
    <3>4. /\ DOMAIN x.store.rows = DOMAIN table \ {i}
          /\ \A j \in DOMAIN table \ {i} : x.store.rows[j] = s.rows[j]
      BY <3>2, <3>3, SMTT(60) DEF Without, Restrict
    <3>5. x.store.rows \in Rows
      <4>1. s.rows \in [DOMAIN table -> RowType] /\ DOMAIN table \subseteq Ids
        BY <3>2, RowsFinite, SMTT(60)
      <4>2. x.store.rows \in [DOMAIN table \ {i} -> RowType]
        BY <3>2, <3>3, <4>1, ZenonT(60) DEF Without, Restrict
      <4> QED BY <4>1, <4>2, Zenon DEF Rows
    <3>6. /\ \A j \in DOMAIN x.store.rows \cap DOMAIN x.files : j \in DOMAIN files /\ x.files[j] = files[j]
          /\ \A j \in (DOMAIN table \cap DOMAIN files) \ ({i} \ Alive) : j \in DOMAIN x.store.rows \cap DOMAIN x.files
      BY <2>3, <3>1, <3>4, ZenonT(60) DEF ToTrash, Without, Restrict
    <3>7. w \in Nat /\ estimate \in Nat
      <4>1. table \in Rows /\ estimate \in Nat
        BY ZenonT(60) DEF Types
      <4> QED BY <1>3, <4>1, RowsFinite, SMTT(60) DEF Weighs
    <3>8. x.total \in Nat /\ x.estimate \in Nat
      BY <3>1, <3>7, SMTT(60)
    <3>9. SizeOf(s.rows) = SizeOf(x.store.rows) + w
      <4>1. /\ i \in DOMAIN s.rows /\ i \notin DOMAIN x.store.rows
            /\ DOMAIN s.rows = DOMAIN x.store.rows \cup {i}
            /\ \A y \in DOMAIN x.store.rows : x.store.rows[y].value = s.rows[y].value
        BY <1>3, <3>2, <3>4, ZenonT(60)
      <4>2. SizeOf(s.rows) = SizeOf(x.store.rows) + PkgSize[s.rows[i].value]
        BY <3>2, <3>5, <4>1, SizeMore, Zenon
      <4> QED BY <1>3, <3>2, <4>2, SMTT(60)
    <3>10. SizeOf(x.store.rows) \in Nat
      BY <3>5, SizeNat, Zenon
    <3>11. Sized(table, total, estimate) => Sized(x.store.rows, x.total, x.estimate)
      <4> HIDE DEF w
      <4> SUFFICES ASSUME SizeOf(table) <= estimate
                   PROVE  SizeOf(x.store.rows) <= x.total /\ SizeOf(x.store.rows) <= x.estimate
        BY Zenon DEF Sized
      <4>1. SizeOf(x.store.rows) + w <= estimate
        BY <3>2, <3>9, Zenon
      <4>2. size = w
        BY <3>7, <3>10, <4>1, SMTT(60)
      <4> HIDE DEF size
      <4> QED BY <3>1, <3>7, <3>10, <4>1, <4>2
    <3>12. Shrunk(x, {i} \ Alive)
      BY <3>2, <3>3, <3>4, <3>5, <3>6, <3>8, Zenon DEF Shrunk
    <3> QED BY <3>1, <3>11, <3>12, Zenon
  <2> QED BY <2>2, <2>4, <2>5, <2>6, SMTT(60)
<1>4. \/ r = Unchanged \/ r = [Unchanged EXCEPT !.ok = TRUE]
      \/ /\ i \in DOMAIN table /\ ~is_asset_alive(i)
         /\ r \in Transaction(F, done, Undone(s, files), Undone(s, files), Undone(s, done.files))
  BY Zenon DEF RemoveAsset
<1> HIDE DEF Claim, done, s
<1>5. Claim(r)
  BY <1>1, <1>2, <1>3, <1>4, Zenon
<1> QED BY <1>5, Zenon DEF Claim

\* An outcome makes identifier i, which had no row, valid with package p.
Grown(r, i, p) ==
  LET rows == r.store.rows
  IN  /\ rows \in Rows /\ r.store.clock \in Nat /\ r.total \in Nat /\ r.estimate \in Nat
      /\ p # 0 /\ i \notin DOMAIN table /\ DOMAIN rows = DOMAIN table \cup {i}
      /\ \A j \in DOMAIN table : rows[j].value = table[j].value
      /\ rows[i].value = p /\ r.files = With(files, i, p)

\* A store that ends well adds a row and its files; one that does not, at most
\* files without a row.
LEMMA StoreOutcome ==
  ASSUME Types, NEW i \in Ids, NEW p \in Nat, p <= written, NEW F, NEW r \in StoreAsset(i, p, F)
  PROVE  /\ \/ Shrunk(r, {}) /\ ~r.ok /\ SizeOf(r.store.rows) = SizeOf(table)
            \/ Grown(r, i, p) /\ r.ok
         /\ Sized(table, total, estimate) => Sized(r.store.rows, r.total, r.estimate)
<1> DEFINE s == put(Store, i, p)
           b == [rows |-> table, clock |-> s.clock]
           size == estimate + PkgSize[p]
           done == [ok |-> TRUE, store |-> s, total |-> size, files |-> With(files, i, p),
                    estimate |-> size]
           Claim(x) == /\ \/ Shrunk(x, {}) /\ ~x.ok /\ SizeOf(x.store.rows) = SizeOf(table)
                          \/ Grown(x, i, p) /\ x.ok
                       /\ Sized(table, total, estimate) => Sized(x.store.rows, x.total, x.estimate)
<1>1. Claim(Unchanged)
  BY UnchangedShrinks, Zenon DEF Sized
<1>2. s.clock = clock + 1 /\ clock \in Nat /\ Like(Store, table) /\ table \in Rows
  BY StoreNow, Zenon DEF put, Store, Types
<1>3. Like(b, table)
  BY <1>2 DEF Like, Store
<1>4. [Unchanged EXCEPT !.store.clock = @ + 1] = Undone(b, files)
  <2>1. PICK u : u = Unchanged
    OBVIOUS
  <2>2. u = [ok |-> FALSE, store |-> [rows |-> table, clock |-> clock], total |-> total, files |-> files,
             estimate |-> estimate]
    BY <2>1, Zenon DEF Unchanged, Store
  <2>3. PICK v : v = [u EXCEPT !.store.clock = @ + 1]
    BY Zenon
  <2>4. PICK t : t = [u.store EXCEPT !.clock = @ + 1]
    BY Zenon
  <2>5. t = [rows |-> table, clock |-> clock + 1]
    BY <2>2, <2>4, Zenon
  <2>6. v = [u EXCEPT !.store = t]
    BY <2>2, <2>3, <2>4, Zenon
  <2>7. v = [ok |-> FALSE, store |-> t, total |-> total, files |-> files, estimate |-> estimate]
    BY <2>2, <2>6, Zenon
  <2>8. t = b
    BY <1>2, <2>5, Zenon
  <2>9. v = Undone(b, files)
    BY <2>7, <2>8, UndoneFields, ZenonT(60)
  <2> QED BY <2>1, <2>3, <2>9, Zenon
<1> HIDE DEF b
<1>5. ASSUME NEW fs, i \notin DOMAIN table, \A j \in DOMAIN files \cup DOMAIN fs : j = i \/ (j \in DOMAIN files /\ j \in DOMAIN fs /\ fs[j] = files[j])
      PROVE  Claim(Undone(b, fs))
  <2>1. /\ \A j \in DOMAIN table \cap DOMAIN fs : j \in DOMAIN files /\ fs[j] = files[j]
        /\ \A j \in (DOMAIN table \cap DOMAIN files) \ {} : j \in DOMAIN fs
    BY <1>5, SMTT(60)
  <2> QED BY <1>3, <2>1, UndoneShrinks, Zenon DEF Sized
<1>6. Claim(Undone(b, files))
  <2>1. /\ \A j \in DOMAIN table \cap DOMAIN files : j \in DOMAIN files /\ files[j] = files[j]
        /\ \A j \in (DOMAIN table \cap DOMAIN files) \ {} : j \in DOMAIN files
    OBVIOUS
  <2> QED BY <1>3, <2>1, UndoneShrinks DEF Sized
<1>7. ASSUME p # 0, i \notin DOMAIN table PROVE Claim(done)
  <2>1. PICK x : x = done
    BY Zenon
  <2>2. /\ x.ok = TRUE /\ x.store = s /\ x.total = size /\ x.files = With(files, i, p) /\ x.estimate = size
    BY <2>1, Zenon
  <2>3. p \in Packages /\ PkgSize[p] \in Nat
    <3>1. written \in Nat /\ written <= Len(PkgSize) /\ PkgSize \in Seq(Nat \ {0})
      BY AssetAssumption, Zenon DEF Types
    <3>2. p \in 1 .. Len(PkgSize)
      BY <1>7, <3>1
    <3> QED BY <3>1, <3>2 DEF Packages
  <2>4. PICK row : row = [value |-> p, count |-> 1, time |-> clock]
    BY Zenon
  <2>5. row \in RowType /\ row.value = p
    BY <1>2, <2>3, <2>4, Zenon DEF RowType
  <2>6. x.store.rows = With(table, i, row) /\ x.store.clock = clock + 1
    BY <2>2, <2>4 DEF put, Store
  <2>7. table \in [DOMAIN table -> RowType] /\ DOMAIN table \subseteq Ids
    BY <1>2, RowsFinite, Zenon
  <2>8. /\ x.store.rows \in [DOMAIN table \cup {i} -> RowType] /\ x.store.rows[i] = row
        /\ \A j \in DOMAIN table : x.store.rows[j] = table[j]
    BY <1>7, <2>5, <2>6, <2>7, Zenon DEF With
  <2>9. x.store.rows \in Rows
    BY <2>7, <2>8, Zenon DEF Rows
  <2>10. DOMAIN x.store.rows = DOMAIN table \cup {i} /\ x.store.rows[i].value = p
    BY <2>5, <2>8, Zenon
  <2>11. SizeOf(x.store.rows) = SizeOf(table) + PkgSize[p]
    BY <1>2, <1>7, <2>8, <2>9, <2>10, SizeMore
  <2>12. SizeOf(table) \in Nat /\ estimate \in Nat
    BY <1>2, SizeNat, Zenon DEF Types
  <2>13. Sized(table, total, estimate) => Sized(x.store.rows, x.total, x.estimate)
    <3> SUFFICES ASSUME SizeOf(table) <= estimate
                 PROVE  SizeOf(x.store.rows) <= size
      BY <2>2, Zenon DEF Sized
    <3> QED BY <2>3, <2>11, <2>12
  <2>14. x.total \in Nat /\ x.estimate \in Nat /\ x.store.clock \in Nat
    BY <1>2, <2>2, <2>3, <2>6, <2>12, SMTT(60)
  <2>15. Grown(x, i, p)
    BY <1>7, <2>2, <2>8, <2>9, <2>10, <2>14 DEF Grown
  <2> QED BY <2>1, <2>2, <2>13, <2>15, Zenon
<1>8. \/ r = Unchanged \/ r = [Unchanged EXCEPT !.store.clock = @ + 1]
      \/ /\ p # 0 /\ i \notin DOMAIN table
         /\ r \in Transaction(F, done, Undone(b, files), Undone(b, ToTrash({i})), Undone(b, done.files))
  BY Zenon DEF StoreAsset, b
<1>9. ASSUME p # 0, i \notin DOMAIN table,
             r \in Transaction(F, done, Undone(b, files), Undone(b, ToTrash({i})), Undone(b, done.files))
      PROVE  Claim(r)
  <2>1. \/ r = done \/ r = Undone(b, files) \/ r = Undone(b, ToTrash({i})) \/ r = Undone(b, With(files, i, p))
    BY <1>9, Zenon DEF Transaction
  <2>2. Claim(Undone(b, ToTrash({i})))
    <3>1. \A j \in DOMAIN files \cup DOMAIN ToTrash({i}) :
            j = i \/ (j \in DOMAIN files /\ j \in DOMAIN ToTrash({i}) /\ ToTrash({i})[j] = files[j])
      BY SMTT(60) DEF ToTrash, Without, Restrict
    <3> HIDE DEF Claim
    <3> QED BY <1>5, <1>9, <3>1, Zenon
  <2>3. Claim(Undone(b, With(files, i, p)))
    <3>1. \A j \in DOMAIN files \cup DOMAIN With(files, i, p) :
            j = i \/ (j \in DOMAIN files /\ j \in DOMAIN With(files, i, p) /\ With(files, i, p)[j] = files[j])
      BY Zenon DEF With
    <3> HIDE DEF Claim
    <3> QED BY <1>5, <1>9, <3>1, Zenon
  <2> HIDE DEF Claim, done
  <2> QED BY <1>6, <1>7, <1>9, <2>1, <2>2, <2>3, SMTT(60)
<1> HIDE DEF Claim, done
<1>10. Claim(r)
  BY <1>1, <1>4, <1>6, <1>8, <1>9, Zenon
<1> QED BY <1>10, Zenon DEF Claim

\* A purge that ends well leaves nothing; one that does not leaves the rows.  Only
\* one whose commit fails forgets the estimate.
LEMMA PurgeOutcome ==
  ASSUME Types, NEW F, NEW r \in PurgeAssets(F)
  PROVE  /\ Shrunk(r, DOMAIN files)
         /\ ~r.ok => SizeOf(r.store.rows) = SizeOf(table)
         /\ "commit" \notin F /\ Sized(table, total, estimate) => Sized(r.store.rows, r.total, r.estimate)
<1> DEFINE gone == ToTrash(DOMAIN files)
           done == [ok |-> TRUE, store |-> purge(Store), total |-> 0, files |-> gone, estimate |-> 0]
           lost == Undone(init(table), gone)
           Claim(x) == /\ Shrunk(x, DOMAIN files)
                       /\ ~x.ok => SizeOf(x.store.rows) = SizeOf(table)
                       /\ Sized(table, total, estimate) => Sized(x.store.rows, x.total, x.estimate)
<1>1. Claim(Unchanged)
  BY UnchangedShrinks, Zenon DEF Sized
<1>2. Like(init(table), table)
  BY StoreNow, RowsFinite, Zenon DEF Like, init
<1>3. Claim(Undone(init(table), files))
  <2>1. /\ \A j \in DOMAIN table \cap DOMAIN files : j \in DOMAIN files /\ files[j] = files[j]
        /\ \A j \in (DOMAIN table \cap DOMAIN files) \ DOMAIN files : j \in DOMAIN files
    OBVIOUS
  <2> QED BY <1>2, <2>1, UndoneShrinks DEF Sized
<1>4. DOMAIN gone = {}
  BY Zenon DEF ToTrash, Without, Restrict
<1> HIDE DEF gone
<1>5. Claim(done)
  <2>1. PICK x : x = done
    BY Zenon
  <2>2. x.ok = TRUE /\ x.store = purge(Store) /\ x.total = 0 /\ x.files = gone /\ x.estimate = 0
    BY <2>1, Zenon
  <2>3. x.store.rows = Empty /\ x.store.clock = 1
    BY <2>2 DEF purge, init
  <2>4. Empty \in Rows /\ DOMAIN Empty = {}
    <3>1. Empty \in [{} -> RowType] /\ {} \in SUBSET Ids
      BY Zenon DEF Empty
    <3> QED BY <3>1, Zenon DEF Rows
  <2>5. Shrunk(x, DOMAIN files)
    BY <1>4, <2>2, <2>3, <2>4 DEF Shrunk
  <2>6. Sized(x.store.rows, x.total, x.estimate)
    BY <2>2, <2>3, SizeNat DEF Sized
  <2> QED BY <2>1, <2>2, <2>5, <2>6, Zenon
<1>6. /\ Shrunk([lost EXCEPT !.estimate = 0], DOMAIN files)
      /\ SizeOf([lost EXCEPT !.estimate = 0].store.rows) = SizeOf(table)
  <2>1. PICK u : u = lost
    OBVIOUS
  <2>2. u = [ok |-> FALSE, store |-> init(table), total |-> total, files |-> gone, estimate |-> estimate]
    BY <2>1, UndoneFields, Zenon
  <2>3. PICK x : x = [u EXCEPT !.estimate = 0]
    BY Zenon
  <2>4. x.ok = FALSE /\ x.store = init(table) /\ x.total = total /\ x.files = gone /\ x.estimate = 0
    BY <2>2, <2>3, Zenon
  <2>5. /\ x.store.rows \in Rows /\ DOMAIN x.store.rows = DOMAIN table /\ x.store.clock \in Nat
        /\ \A j \in DOMAIN table : x.store.rows[j].value = table[j].value
        /\ SizeOf(x.store.rows) = SizeOf(table)
    BY <1>2, <2>4, LikeWeighs, Zenon
  <2>6. x.total \in Nat /\ x.estimate \in Nat
    BY <2>4 DEF Types
  <2>7. Shrunk(x, DOMAIN files)
    BY <1>4, <2>4, <2>5, <2>6, Zenon DEF Shrunk
  <2> QED BY <2>1, <2>3, <2>5, <2>7, Zenon
<1>7. \/ r = done \/ r = Unchanged \/ r = Undone(init(table), files)
      \/ r = [lost EXCEPT !.estimate = 0] /\ "commit" \in F
  BY Zenon DEF PurgeAssets, Transaction, gone
<1> HIDE DEF done, lost
<1> QED BY <1>1, <1>3, <1>5, <1>6, <1>7, ZenonT(60)

-----------------------------------------------------------------------------
(* The queue *)

\* Sequences of blocks are closed under what is done to the queue.
LEMMA FirstBlock ==
  ASSUME NEW q, Blocks(q), q # <<>>
  PROVE  IsBlock(Head(q)) /\ Blocks(Tail(q))
<1>1. PICK S : q \in Seq(S) /\ \A b \in S : IsBlock(b)
  BY Zenon DEF Blocks
<1>2. Head(q) \in S /\ Tail(q) \in Seq(S)
  BY <1>1
<1> QED BY <1>1, <1>2, Zenon DEF Blocks

LEMMA JoinedBlocks ==
  ASSUME NEW q, Blocks(q), NEW t, Blocks(t)
  PROVE  Blocks(q \o t)
<1>1. PICK S : q \in Seq(S) /\ \A b \in S : IsBlock(b)
  BY Zenon DEF Blocks
<1>2. PICK T : t \in Seq(T) /\ \A b \in T : IsBlock(b)
  BY Zenon DEF Blocks
<1>3. q \in Seq(S \cup T) /\ t \in Seq(S \cup T)
  BY <1>1, <1>2
<1>4. q \o t \in Seq(S \cup T) /\ \A b \in S \cup T : IsBlock(b)
  BY <1>1, <1>2, <1>3
<1> QED BY <1>4, Zenon DEF Blocks

LEMMA OneBlock == ASSUME NEW b, IsBlock(b) PROVE Blocks(<<b>>) /\ Blocks(<<>>)
<1>1. PICK S : S = {b}
  BY Zenon
<1>2. <<b>> \in Seq(S) /\ <<>> \in Seq(S) /\ \A x \in S : IsBlock(x)
  BY <1>1
<1> QED BY <1>2, Zenon DEF Blocks

LEMMA AppendedBlock ==
  ASSUME NEW q, Blocks(q), NEW b, IsBlock(b)
  PROVE  Blocks(Append(q, b))
<1>1. PICK S : q \in Seq(S) /\ \A x \in S : IsBlock(x)
  BY Zenon DEF Blocks
<1>2. q \in Seq(S \cup {b})
  BY <1>1
<1>3. Append(q, b) \in Seq(S \cup {b}) /\ \A x \in S \cup {b} : IsBlock(x)
  BY <1>1, <1>2
<1> QED BY <1>3, Zenon DEF Blocks

\* What callers, the cleanup and triggerCompaction queue are blocks.
LEMMA NewBlock ==
  ASSUME NEW op, NEW id, NEW for, op = "store" => for \in Callers /\ id \in Ids
  PROVE  /\ IsBlock(Block(op, id, for))
         /\ \A n \in Nat : IsBlock([Block(op, id, for) EXCEPT !.size = n])
<1>1. PICK b : b = Block(op, id, for)
  OBVIOUS
<1>2. b = [op |-> op, id |-> id, for |-> for, size |-> 0, chosen |-> FALSE, victims |-> <<>>]
  BY <1>1, Zenon DEF Block
<1>3. IsBlock(b)
  BY <1>2, Zenon DEF IsBlock
<1>4. ASSUME NEW n \in Nat PROVE IsBlock([b EXCEPT !.size = n])
  <2>1. PICK x : x = [b EXCEPT !.size = n]
    BY Zenon
  <2>2. x = [op |-> op, id |-> id, for |-> for, size |-> n, chosen |-> FALSE, victims |-> <<>>]
    BY <1>2, <2>1, ZenonT(60)
  <2>3. IsBlock(x)
    BY <2>2, Zenon DEF IsBlock
  <2> QED BY <2>1, <2>3, Zenon
<1> QED BY <1>1, <1>3, <1>4, Zenon

LEMMA TriggerBlocks == ASSUME NEW e PROVE Blocks(Trigger(e))
<1>1. IsBlock([Block("compact", NoOne, NoOne) EXCEPT !.size = MaxAssets])
  BY NewBlock, AssetAssumption, Zenon
<1>2. Trigger(e) = <<>> \/ Trigger(e) = <<[Block("compact", NoOne, NoOne) EXCEPT !.size = MaxAssets]>>
  BY Zenon DEF Trigger
<1> QED BY <1>1, <1>2, OneBlock, Zenon

\* The first block after get_assets_to_remove(), and after a removal.
LEMMA ChangedBlock ==
  ASSUME NEW b, IsBlock(b), NEW v, b.op = "compact"
  PROVE  IsBlock([b EXCEPT !.chosen = TRUE, !.victims = v]) /\ IsBlock([b EXCEPT !.victims = v])
<1>1. b = [op |-> b.op, id |-> b.id, for |-> b.for, size |-> b.size, chosen |-> b.chosen, victims |-> b.victims]
  BY Zenon DEF IsBlock
<1>2. PICK x : x = [b EXCEPT !.chosen = TRUE]
  BY Zenon
<1>3. x = [op |-> b.op, id |-> b.id, for |-> b.for, size |-> b.size, chosen |-> TRUE, victims |-> b.victims]
  BY <1>1, <1>2, Zenon
<1>4. PICK y : y = [x EXCEPT !.victims = v]
  BY Zenon
<1>5. y = [op |-> b.op, id |-> b.id, for |-> b.for, size |-> b.size, chosen |-> TRUE, victims |-> v]
  BY <1>3, <1>4, Zenon
<1>6. PICK z : z = [b EXCEPT !.victims = v]
  BY Zenon
<1>7. z = [op |-> b.op, id |-> b.id, for |-> b.for, size |-> b.size, chosen |-> b.chosen, victims |-> v]
  BY <1>1, <1>6, Zenon
<1>8. b.size \in Nat /\ b.op # "store"
  BY Zenon DEF IsBlock
<1>9. IsBlock(y)
  BY <1>5, <1>8, Zenon DEF IsBlock
<1>10. IsBlock(z)
  BY <1>7, <1>8, Zenon DEF IsBlock
<1>11. y = [b EXCEPT !.chosen = TRUE, !.victims = v]
  BY <1>2, <1>4, Zenon
<1> QED BY <1>6, <1>9, <1>10, <1>11, Zenon

\* A sequence whose first element changes.
LEMMA FirstChanges ==
  ASSUME NEW q, Blocks(q), q # <<>>, NEW b, IsBlock(b)
  PROVE  Blocks([q EXCEPT ![1] = b])
<1>1. PICK S : q \in Seq(S) /\ \A x \in S : IsBlock(x)
  BY Zenon DEF Blocks
<1>2. q \in Seq(S \cup {b}) /\ 1 \in DOMAIN q
  BY <1>1
<1>3. [q EXCEPT ![1] = b] \in Seq(S \cup {b}) /\ \A x \in S \cup {b} : IsBlock(x)
  BY <1>1, <1>2
<1> QED BY <1>3, Zenon DEF Blocks
=============================================================================
