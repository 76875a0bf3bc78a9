-------------------------- MODULE Selection_proofs --------------------------
(****************************************************************************)
(* Facts about Selected, SetToSeq and Min, for lists and sets of any size:  *)
(* no recursive definition is unfolded, the entries selected are counted.   *)
(****************************************************************************)
EXTENDS Selection, SequenceTheorems, FiniteSetTheorems, WellFoundedInduction, TLAPS

-----------------------------------------------------------------------------
(* The entries of a list that are in a set *)

\* The k-th place of a set of places is the one with k places up to it.
Rank(at, k) == Cardinality({l \in at : l <= k})

\* The places of a finite set are numbered in their order.
LEMMA Ranked ==
    ASSUME NEW n \in Nat, NEW at \in SUBSET (1..n)
    PROVE  /\ IsFiniteSet(at) /\ Cardinality(at) \in Nat
           /\ \A k \in at : Rank(at, k) \in 1..Cardinality(at)
           /\ \A k, l \in at : Rank(at, k) = Rank(at, l) => k = l
           /\ \A j \in 1..Cardinality(at) : \E k \in at : Rank(at, k) = j
  <1>1. IsFiniteSet(at) /\ Cardinality(at) \in Nat
    <2>1. IsFiniteSet(1..n)
      BY FS_Interval
    <2> QED
      BY <2>1, FS_Subset, FS_CardinalityType
  <1>2. ASSUME NEW k \in at
        PROVE  /\ IsFiniteSet({l \in at : l <= k}) /\ Rank(at, k) \in Nat
               /\ Rank(at, k) \in 1..Cardinality(at)
    <2>1. IsFiniteSet({l \in at : l <= k}) /\ Rank(at, k) <= Cardinality(at)
      BY <1>1, FS_Subset DEF Rank
    <2>2. Rank(at, k) \in Nat
      BY <2>1, FS_CardinalityType DEF Rank
    <2>3. k \in {l \in at : l <= k}
      OBVIOUS
    <2>4. Rank(at, k) # 0
      BY <2>1, <2>3, FS_EmptySet DEF Rank
    <2> QED
      BY <1>1, <2>1, <2>2, <2>4
  <1>3. ASSUME NEW k \in at, NEW l \in at, k < l
        PROVE  Rank(at, k) < Rank(at, l)
    <2> DEFINE Low == {i \in at : i <= k}
               High == {i \in at : i <= l}
    <2>1. Low \in SUBSET High /\ l \in High /\ l \notin Low
      <3>1. \A i \in at : i \in Nat
        OBVIOUS
      <3>2. \A i \in at : i <= k => i <= l
        BY <1>3, <3>1
      <3>3. l <= l /\ ~(l <= k)
        BY <1>3, <3>1
      <3> QED
        BY <3>2, <3>3
    <2>2. IsFiniteSet(High) /\ Cardinality(High) \in Nat /\ Cardinality(Low) \in Nat
      BY <1>2 DEF Rank
    <2> HIDE DEF Low, High
    <2>3. Cardinality(Low) <= Cardinality(High) /\ Cardinality(Low) # Cardinality(High)
      BY <2>1, <2>2, FS_Subset
    <2> QED
      BY <2>2, <2>3 DEF Low, High, Rank
  <1>4. \A k, l \in at : Rank(at, k) = Rank(at, l) => k = l
    <2> SUFFICES ASSUME NEW k \in at, NEW l \in at, Rank(at, k) = Rank(at, l), k # l
                 PROVE  FALSE
      OBVIOUS
    <2>1. k < l \/ l < k
      OBVIOUS
    <2>2. Rank(at, k) \in Nat /\ Rank(at, l) \in Nat
      BY <1>2
    <2>3. Rank(at, k) < Rank(at, l) \/ Rank(at, l) < Rank(at, k)
      BY <1>3, <2>1
    <2> QED
      BY <2>2, <2>3
  <1>5. \A j \in 1..Cardinality(at) : \E k \in at : Rank(at, k) = j
    <2> DEFINE f == [k \in at |-> Rank(at, k)]
               T == 1..Cardinality(at)
    <2>1. f \in Injection(at, T)
      BY <1>2, <1>4 DEF Injection, IsInjective
    <2>2. IsFiniteSet(T) /\ Cardinality(T) = Cardinality(at)
      BY <1>1, FS_Interval
    <2>3. f \in Surjection(at, T)
      BY <2>1, <2>2, FS_Injection
    <2> QED
      BY <2>3 DEF Surjection
  <1> QED
    BY <1>1, <1>2, <1>4, <1>5

Places(s, S) == {k \in DOMAIN s : s[k] \in S}
Place(s, S, j) == CHOOSE k \in Places(s, S) : Rank(Places(s, S), k) = j

\* The j-th entry selected is at the j-th place selected.
LEMMA SelectedPlaces ==
    ASSUME NEW U, NEW s \in Seq(U), NEW S
    PROVE  /\ IsFiniteSet(Places(s, S)) /\ Cardinality(Places(s, S)) \in Nat
           /\ \A j \in 1..Cardinality(Places(s, S)) :
                 /\ Place(s, S, j) \in Places(s, S) /\ Rank(Places(s, S), Place(s, S, j)) = j
                 /\ Selected(s, S)[j] = s[Place(s, S, j)]
           /\ \A k \in Places(s, S) :
                 \E j \in 1..Cardinality(Places(s, S)) : Place(s, S, j) = k
           /\ DOMAIN Selected(s, S) = 1..Cardinality(Places(s, S))
  <1> DEFINE at == Places(s, S)
  <1>1. Len(s) \in Nat /\ at \in SUBSET (1..Len(s))
    BY DEF Places
  <1>2. /\ IsFiniteSet(at) /\ Cardinality(at) \in Nat
        /\ \A k \in at : Rank(at, k) \in 1..Cardinality(at)
        /\ \A k, l \in at : Rank(at, k) = Rank(at, l) => k = l
        /\ \A j \in 1..Cardinality(at) : \E k \in at : Rank(at, k) = j
    BY <1>1, Ranked
  <1>3. Selected(s, S) = [j \in 1..Cardinality(at) |-> s[Place(s, S, j)]]
    BY DEF Selected, Place, Places, Rank
  <1> HIDE DEF at
  <1>4. ASSUME NEW j \in 1..Cardinality(at)
        PROVE  Place(s, S, j) \in at /\ Rank(at, Place(s, S, j)) = j
    BY <1>2 DEF Place, at
  <1>5. ASSUME NEW k \in at
        PROVE  \E j \in 1..Cardinality(at) : Place(s, S, j) = k
    <2>1. Rank(at, k) \in 1..Cardinality(at)
      BY <1>2
    <2>2. Place(s, S, Rank(at, k)) \in at /\ Rank(at, Place(s, S, Rank(at, k))) = Rank(at, k)
      BY <2>1, <1>4
    <2> QED
      BY <1>2, <2>1, <2>2
  <1> QED
    BY <1>2, <1>3, <1>4, <1>5 DEF at

\* What is selected: a list of those of the entries that are in S.
LEMMA SelectedSeq ==
    ASSUME NEW U, NEW s \in Seq(U), NEW S
    PROVE  /\ Selected(s, S) \in Seq(U)
           /\ Len(Selected(s, S)) = Cardinality(Places(s, S))
           /\ Range(Selected(s, S)) = Range(s) \cap S
  <1> DEFINE n == Cardinality(Places(s, S))
             sel == Selected(s, S)
  <1>1. /\ n \in Nat /\ DOMAIN sel = 1..n
        /\ \A j \in 1..n : Place(s, S, j) \in Places(s, S) /\ sel[j] = s[Place(s, S, j)]
        /\ \A k \in Places(s, S) : \E j \in 1..n : Place(s, S, j) = k
    BY SelectedPlaces
  <1>2. sel = [j \in 1..n |-> sel[j]]
    BY <1>1 DEF Selected, Places
  <1> HIDE DEF n, sel
  <1>3. \A j \in 1..n : sel[j] \in U /\ sel[j] \in Range(s) \cap S
    BY <1>1 DEF Places, Range
  <1>4. sel \in Seq(U) /\ Len(sel) = n
    BY <1>1, <1>2, <1>3, IsASeq
  <1>5. Range(sel) \subseteq Range(s) \cap S
    BY <1>1, <1>3 DEF Range
  <1>6. ASSUME NEW x \in Range(s) \cap S
        PROVE  x \in Range(sel)
    <2>1. PICK k \in DOMAIN s : s[k] = x
      BY DEF Range
    <2>2. k \in Places(s, S)
      BY <2>1 DEF Places
    <2>3. PICK j \in 1..n : Place(s, S, j) = k
      BY <1>1, <2>2
    <2> QED
      BY <1>1, <2>1, <2>3 DEF Range
  <1> QED
    BY <1>4, <1>5, <1>6 DEF n, sel

\* Entries put behind the others change what is selected only by making it longer.
LEMMA SelectedOfConcat ==
    ASSUME NEW U, NEW s \in Seq(U), NEW t \in Seq(U), NEW S
    PROVE  \/ Selected(s \o t, S) = Selected(s, S)
           \/ Len(Selected(s \o t, S)) > Len(Selected(s, S))
  <1>1. /\ s \o t \in Seq(U) /\ Len(s \o t) = Len(s) + Len(t)
        /\ \A k \in 1..Len(s) : (s \o t)[k] = s[k]
        /\ \A k \in 1..Len(t) : (s \o t)[k + Len(s)] = t[k]
    BY ConcatProperties
  <1>2. Places(s, S) \in SUBSET Places(s \o t, S)
    BY <1>1 DEF Places
  <1>3. CASE Places(s, S) = Places(s \o t, S)
    <2>1. \A k \in Places(s, S) : (s \o t)[k] = s[k]
      BY <1>1 DEF Places
    <2>2. \A j \in 1..Cardinality(Places(s, S)) :
             Place(s, S, j) \in Places(s, S) /\ Place(s \o t, S, j) = Place(s, S, j)
      BY <1>3, SelectedPlaces DEF Place
    <2>3. Selected(s, S) = [j \in 1..Cardinality(Places(s, S)) |-> s[Place(s, S, j)]]
      BY DEF Selected, Place, Places, Rank
    <2>4. Selected(s \o t, S) = [j \in 1..Cardinality(Places(s \o t, S)) |-> (s \o t)[Place(s \o t, S, j)]]
      BY DEF Selected, Place, Places, Rank
    <2> QED
      BY <1>3, <2>1, <2>2, <2>3, <2>4
  <1>4. CASE Places(s, S) # Places(s \o t, S)
    <2>1. IsFiniteSet(Places(s \o t, S)) /\ IsFiniteSet(Places(s, S))
      BY <1>1, SelectedPlaces
    <2>2. Cardinality(Places(s, S)) < Cardinality(Places(s \o t, S))
      BY <1>2, <1>4, <2>1, FS_Subset, FS_CardinalityType
    <2> QED
      BY <1>1, <2>2, SelectedSeq
  <1> QED
    BY <1>3, <1>4

\* What is left of a selection when entries are taken out before it.
LEMMA SelectedOfSelected ==
    ASSUME NEW U, NEW s \in Seq(U), NEW A, NEW B, NEW x \in Range(s), x \in B, x \notin A
    PROVE  Len(Selected(Selected(s, A), B)) < Len(Selected(s, B))
  <1> DEFINE sel == Selected(s, A)
             at  == Places(s, B)
             in  == Places(sel, B)
             f   == [j \in in |-> Place(s, A, j)]
  <1>1. /\ sel \in Seq(U)
        /\ DOMAIN sel = 1..Cardinality(Places(s, A))
        /\ \A j \in DOMAIN sel : /\ Place(s, A, j) \in Places(s, A)
                                 /\ Rank(Places(s, A), Place(s, A, j)) = j
                                 /\ sel[j] = s[Place(s, A, j)]
    BY SelectedSeq, SelectedPlaces
  <1>2. PICK k \in DOMAIN s : s[k] = x
    BY DEF Range
  <1>3. k \in at
    BY <1>2 DEF Places
  <1>4. /\ IsFiniteSet(at) /\ Cardinality(at) \in Nat
        /\ IsFiniteSet(at \ {k}) /\ Cardinality(at \ {k}) = Cardinality(at) - 1
    BY <1>3, SelectedPlaces, FS_RemoveElement
  <1>5. \A j \in in : j \in DOMAIN sel /\ sel[j] \in B
    BY DEF Places
  <1> HIDE DEF sel
  <1>6. f \in Injection(in, at \ {k})
    <2>1. ASSUME NEW j \in in
          PROVE  Place(s, A, j) \in at \ {k}
      <3>1. s[Place(s, A, j)] \in B /\ s[Place(s, A, j)] \in A /\ Place(s, A, j) \in DOMAIN s
        BY <1>1, <1>5 DEF Places
      <3> QED
        BY <1>2, <3>1 DEF Places
    <2>2. \A i, j \in in : Place(s, A, i) = Place(s, A, j) => i = j
      BY <1>1, <1>5
    <2> HIDE DEF in, at
    <2>3. f \in [in -> at \ {k}]
      BY <2>1
    <2>4. IsInjective(f)
      BY <2>2 DEF IsInjective
    <2> QED
      BY <2>3, <2>4 DEF Injection
  <1>7. Cardinality(in) <= Cardinality(at \ {k})
    BY <1>4, <1>6, FS_Injection
  <1>8. Len(Selected(sel, B)) = Cardinality(in) /\ Len(Selected(s, B)) = Cardinality(at)
    BY <1>1, SelectedSeq
  <1>9. Cardinality(in) \in Nat
    BY <1>1, SelectedPlaces
  <1> QED
    BY <1>4, <1>7, <1>8, <1>9 DEF sel

\* The images of a batch come in some order.
LEMMA BatchSeq ==
    ASSUME NEW S, IsFiniteSet(S)
    PROVE  SetToSeq(S) \in Seq(S)
  <1>1. Cardinality(S) \in Nat /\ ExistsBijection(1..Cardinality(S), S)
    BY FS_CardinalityType
  <1>2. \E f \in [1..Cardinality(S) -> S] : IsInjective(f)
    BY <1>1 DEF ExistsBijection, Bijection, Injection
  <1>3. SetToSeq(S) \in [1..Cardinality(S) -> S]
    BY <1>2 DEF SetToSeq
  <1> QED
    BY <1>1, <1>3

\* The least entry of a set of places, and the last.
LEMMA LeastPlace ==
    ASSUME NEW S \in SUBSET Nat, S # {}
    PROVE  Min(S) \in S /\ \A y \in S : Min(S) <= y
  <1> DEFINE R == OpToRel(<, Nat)
  <1>1. IsWellFoundedOn(R, Nat)
    BY NatLessThanWellFounded
  <1>2. \A x, y \in Nat : y < x => <<y, x>> \in R
    BY DEF OpToRel
  <1> HIDE DEF R
  <1>3. PICK x \in S : \A y \in S : ~ (<<y, x>> \in R)
    BY <1>1, WFMin
  <1>4. ASSUME NEW y \in S
        PROVE  x <= y
    <2>1. x \in Nat /\ y \in Nat /\ ~ (<<y, x>> \in R)
      BY <1>3
    <2>2. ~(y < x)
      BY <1>2, <2>1
    <2> QED
      BY <2>1, <2>2
  <1> QED
    BY <1>4 DEF Min

\* The largest of a set of places is one of them, and none is larger.
LEMMA LastPlace ==
    ASSUME NEW n \in Nat, NEW S \in SUBSET (1..n), S # {}
    PROVE  Max(S) \in S /\ \A y \in S : y <= Max(S)
  <1> DEFINE T == {k \in 0..n : n - k \in S}
  <1>1. T \in SUBSET Nat
    OBVIOUS
  <1>2. PICK x \in S : TRUE
    OBVIOUS
  <1>3. n - x \in T /\ \A y \in S : n - y \in T
    OBVIOUS
  <1>4. Min(T) \in T /\ \A k \in T : Min(T) <= k
    BY <1>1, <1>3, LeastPlace
  <1>5. PICK m \in T : \A k \in T : m <= k
    BY <1>4
  <1>6. n - m \in S /\ \A y \in S : n - m >= y
    BY <1>3, <1>5
  <1> QED
    BY <1>6 DEF Max

\* A list without repetition has none after a selection, nor when entries that were
\* not in it are put behind.
LEMMA SelectedDistinct ==
    ASSUME NEW U, NEW s \in Seq(U), NEW S,
           \A k, l \in DOMAIN s : s[k] = s[l] /\ s[k] \in S => k = l
    PROVE  IsInjective(Selected(s, S))
  <1> DEFINE sel == Selected(s, S)
             at  == Places(s, S)
  <1>1. /\ DOMAIN sel = 1..Cardinality(at)
        /\ \A j \in 1..Cardinality(at) : /\ Place(s, S, j) \in at /\ Rank(at, Place(s, S, j)) = j
                                         /\ sel[j] = s[Place(s, S, j)]
    BY SelectedPlaces
  <1> HIDE DEF sel
  <1>2. ASSUME NEW i \in DOMAIN sel, NEW j \in DOMAIN sel, sel[i] = sel[j]
        PROVE  i = j
    <2>1. Place(s, S, i) \in DOMAIN s /\ Place(s, S, j) \in DOMAIN s /\ s[Place(s, S, i)] \in S
      BY <1>1 DEF Places
    <2>2. Place(s, S, i) = Place(s, S, j)
      BY <1>1, <1>2, <2>1
    <2> QED
      BY <1>1, <2>2
  <1> QED
    BY <1>2 DEF IsInjective, sel

\* Two lists without repetitions and without a common entry, one after the other.
LEMMA ConcatDistinct ==
    ASSUME NEW U, NEW s \in Seq(U), NEW r \in Seq(U), IsInjective(s), IsInjective(r),
           Range(s) \cap Range(r) = {}
    PROVE  /\ s \o r \in Seq(U) /\ IsInjective(s \o r) /\ Range(s \o r) = Range(s) \cup Range(r)
  <1>1. /\ s \o r \in Seq(U) /\ Len(s \o r) = Len(s) + Len(r) /\ Len(s) \in Nat /\ Len(r) \in Nat
        /\ \A k \in 1..Len(s) : (s \o r)[k] = s[k]
        /\ \A k \in 1..Len(r) : (s \o r)[k + Len(s)] = r[k]
        /\ DOMAIN s = 1..Len(s) /\ DOMAIN r = 1..Len(r) /\ DOMAIN (s \o r) = 1..(Len(s) + Len(r))
    BY ConcatProperties
  <1> DEFINE c == s \o r
  <1>2. ASSUME NEW k \in DOMAIN c
        PROVE  \/ k \in DOMAIN s /\ c[k] = s[k]
               \/ k - Len(s) \in DOMAIN r /\ c[k] = r[k - Len(s)] /\ k > Len(s)
    <2>1. CASE k <= Len(s)
      BY <1>1, <2>1
    <2>2. CASE k > Len(s)
      <3>1. k - Len(s) \in 1..Len(r) /\ (k - Len(s)) + Len(s) = k
        BY <1>1, <2>2
      <3> QED
        BY <1>1, <2>2, <3>1
    <2> QED
      BY <1>1, <2>1, <2>2
  <1>3. \A k \in DOMAIN s : k \in DOMAIN c /\ c[k] = s[k]
    BY <1>1
  <1>4. \A k \in DOMAIN r : k + Len(s) \in DOMAIN c /\ c[k + Len(s)] = r[k]
    BY <1>1
  <1>5. \A k \in DOMAIN s, l \in DOMAIN r : s[k] # r[l]
    BY DEF Range
  <1>6. DOMAIN c \subseteq Nat /\ Len(s) \in Nat
    BY <1>1
  <1> HIDE DEF c
  <1>7. Range(c) = Range(s) \cup Range(r)
    BY <1>2, <1>3, <1>4 DEF Range
  <1>8. ASSUME NEW k \in DOMAIN c, NEW l \in DOMAIN c, c[k] = c[l]
        PROVE  k = l
    <2>1. CASE k \in DOMAIN s /\ c[k] = s[k]
      <3>1. l \in DOMAIN s /\ c[l] = s[l]
        BY <1>2, <1>5, <1>8, <2>1
      <3> QED
        BY <1>8, <2>1, <3>1 DEF IsInjective
    <2>2. CASE k - Len(s) \in DOMAIN r /\ c[k] = r[k - Len(s)]
      <3>1. l - Len(s) \in DOMAIN r /\ c[l] = r[l - Len(s)]
        BY <1>2, <1>5, <1>8, <2>2
      <3>2. k - Len(s) = l - Len(s)
        BY <1>8, <2>2, <3>1 DEF IsInjective
      <3> QED
        BY <1>6, <3>2
    <2> QED
      BY <1>2, <2>1, <2>2
  <1>9. IsInjective(c)
    BY <1>8 DEF IsInjective
  <1> QED
    BY <1>1, <1>7, <1>9 DEF c

\* A sequence without one of its entries.
LEMMA RemovedDistinct ==
    ASSUME NEW U, NEW s \in Seq(U), IsInjective(s), NEW n \in DOMAIN s
    PROVE  /\ RemoveAt(s, n) \in Seq(U) /\ IsInjective(RemoveAt(s, n))
           /\ Range(RemoveAt(s, n)) = Range(s) \ {s[n]}
  <1> DEFINE a == SubSeq(s, 1, n - 1)
             b == SubSeq(s, n + 1, Len(s))
  <1>1. Len(s) \in Nat /\ DOMAIN s = 1..Len(s) /\ n \in 1..Len(s) /\ \A k \in 1..Len(s) : s[k] \in U
    OBVIOUS
  <1>2. /\ a \in Seq(U) /\ DOMAIN a = 1..(n - 1) /\ \A k \in 1..(n - 1) : a[k] = s[k]
    BY <1>1
  <1>3. /\ b \in Seq(U) /\ DOMAIN b = 1..(Len(s) - n) /\ \A k \in 1..(Len(s) - n) : b[k] = s[k + n]
    BY <1>1
  <1> HIDE DEF a, b
  <1>4. (\A k \in DOMAIN a : k \in DOMAIN s /\ k < n) /\ (\A k \in DOMAIN b : k + n \in DOMAIN s /\ k + n > n)
    BY <1>1, <1>2, <1>3
  <1>5. IsInjective(a) /\ IsInjective(b)
    <2>1. IsInjective(a)
      BY <1>2, <1>4 DEF IsInjective
    <2>2. ASSUME NEW k \in DOMAIN b, NEW l \in DOMAIN b, b[k] = b[l] PROVE k = l
      <3>1. s[k + n] = s[l + n] /\ k + n \in DOMAIN s /\ l + n \in DOMAIN s /\ k \in Nat /\ l \in Nat /\ n \in Nat
        BY <1>1, <1>3, <1>4, <2>2
      <3>2. k + n = l + n
        BY <3>1 DEF IsInjective
      <3> QED
        BY <3>1, <3>2
    <2> QED
      BY <2>1, <2>2 DEF IsInjective
  <1>6. ASSUME NEW k \in DOMAIN a, NEW l \in DOMAIN b PROVE a[k] # b[l]
    <2>1. a[k] = s[k] /\ b[l] = s[l + n] /\ k \in DOMAIN s /\ l + n \in DOMAIN s /\ k # l + n
      BY <1>1, <1>2, <1>3, <1>4
    <2> QED
      BY <2>1 DEF IsInjective
  <1>7. Range(a) \cap Range(b) = {}
    BY <1>6 DEF Range
  <1>8. a \o b \in Seq(U) /\ IsInjective(a \o b) /\ Range(a \o b) = Range(a) \cup Range(b)
    BY <1>2, <1>3, <1>5, <1>7, ConcatDistinct
  <1>9. ASSUME NEW k \in DOMAIN s, k # n PROVE s[k] \in Range(a) \cup Range(b)
    <2>1. CASE k < n
      <3>1. k \in DOMAIN a /\ a[k] = s[k]
        BY <1>1, <1>2, <2>1
      <3> QED
        BY <3>1 DEF Range
    <2>2. CASE k > n
      <3>1. k - n \in DOMAIN b /\ b[k - n] = s[k]
        BY <1>1, <1>3, <2>2
      <3> QED
        BY <3>1 DEF Range
    <2> QED
      BY <1>1, <1>9, <2>1, <2>2
  <1>10. ASSUME NEW x \in Range(a) \cup Range(b) PROVE x \in Range(s) /\ x # s[n]
    <2>1. \E k \in DOMAIN s : k # n /\ x = s[k]
      <3>1. CASE x \in Range(a)
        BY <1>1, <1>2, <1>4, <3>1 DEF Range
      <3>2. CASE x \in Range(b)
        BY <1>1, <1>3, <1>4, <3>2 DEF Range
      <3> QED
        BY <1>10, <3>1, <3>2
    <2> QED
      BY <2>1 DEF Range, IsInjective
  <1>11. Range(s) \ {s[n]} = Range(a) \cup Range(b)
    <2>1. ASSUME NEW x \in Range(s), x # s[n] PROVE x \in Range(a) \cup Range(b)
      BY <1>9, <2>1 DEF Range
    <2> QED
      BY <1>10, <2>1
  <1> QED
    BY <1>8, <1>11 DEF RemoveAt, a, b

=============================================================================
