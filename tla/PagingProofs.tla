---------------------------- MODULE PagingProofs ----------------------------
(***************************************************************************)
(* What a page is, whatever order its statement returns the rows in that   *)
(* tie: the rows that have so many before them, and no more.  An order is  *)
(* a set of pairs here, as the lemmas are cited for several.               *)
(***************************************************************************)
EXTENDS Paging, FiniteSetTheorems, SequenceTheorems, WellFoundedInduction, TLAPS

-----------------------------------------------------------------------------
(* Numbers. *)

LEMMA LeastNumber ==
    ASSUME NEW T \in SUBSET Nat, T # {}
    PROVE  \E x \in T : \A y \in T : x <= y
<1> DEFINE B == OpToRel(<, Nat)
<1>1. IsWellFoundedOn(B, Nat)
  BY NatLessThanWellFounded
<1>2. T \subseteq Nat
  OBVIOUS
<1> HIDE DEF B
<1>3. PICK x \in T : \A y \in T : ~ (<<y, x>> \in B)
  BY <1>1, <1>2, WFMin
<1>4. \A y \in T : ~(y < x)
  BY <1>3 DEF OpToRel, B
<1> QED BY <1>4

LEMMA TimesNext ==
    ASSUME NEW k \in Nat, NEW p \in Nat
    PROVE  (k + 1) * p = k * p + p
OBVIOUS

LEMMA MorePages ==
    ASSUME NEW p \in Nat, NEW j \in Int, NEW k \in Int, j <= k
    PROVE  j * p <= k * p
OBVIOUS

\* As many pages as the rows call for are no more than any that hold them.
LEMMA PagesFit ==
    ASSUME NEW n \in Nat, NEW p \in Nat \ {0}, NEW k \in Nat, n <= k * p
    PROVE  (n + p - 1) \div p <= k
OBVIOUS

LEMMA PageNumber ==
    ASSUME NEW k \in Nat, NEW p \in Nat \ {0}
    PROVE  (k * p) \div p = k
OBVIOUS

LEMMA LastPage ==
    ASSUME NEW n \in Nat, NEW p \in Nat \ {0}, NEW j \in Nat, ~(j < (n + p - 1) \div p)
    PROVE  n <= j * p
OBVIOUS

-----------------------------------------------------------------------------
(* Sequences and pages. *)

LEMMA SeqOfSet ==
    ASSUME NEW R, IsFiniteSet(R), NEW s \in SetToSeqs(R)
    PROVE  /\ Cardinality(R) \in Nat
           /\ s \in Seq(R) /\ Len(s) = Cardinality(R)
           /\ IsInjective(s) /\ Range(s) = R
<1> DEFINE D == 1 .. Cardinality(R)
<1>1. Cardinality(R) \in Nat
  BY FS_CardinalityType
<1>2. s \in [D -> R] /\ \A i, j \in D : i # j => s[i] # s[j]
  BY DEF SetToSeqs
<1>3. s \in Injection(D, R)
  BY <1>2 DEF Injection, IsInjective
<1>4. IsFiniteSet(D) /\ Cardinality(D) = Cardinality(R)
  BY <1>1, FS_Interval
<1>5. s \in Surjection(D, R)
  BY <1>3, <1>4, FS_Injection
<1>6. s \in Seq(R) /\ Len(s) = Cardinality(R)
  BY <1>1, <1>2
<1> QED BY <1>1, <1>2, <1>3, <1>5, <1>6 DEF Injection, Surjection, Range

LEMMA PlaceOf ==
    ASSUME NEW R, IsFiniteSet(R), NEW s \in SetToSeqs(R), NEW n \in 1 .. Len(s)
    PROVE  Cardinality({s[m] : m \in 1 .. n - 1}) = n - 1
<1> DEFINE D == 1 .. n - 1  T == {s[m] : m \in D}  f == [m \in D |-> s[m]]
<1>1. Len(s) \in Nat /\ IsInjective(s) /\ DOMAIN s = 1 .. Len(s)
  BY SeqOfSet
<1>2. f \in Bijection(D, T)
  <2>1. f \in [D -> T] /\ IsInjective(f)
    BY <1>1 DEF IsInjective
  <2> QED BY <2>1 DEF Bijection, Injection, Surjection
<1>3. IsFiniteSet(D) /\ Cardinality(D) = n - 1
  BY FS_Interval
<1> HIDE DEF f, T
<1>4. Cardinality(T) = Cardinality(D)
  BY <1>2, <1>3, FS_Bijection DEF ExistsBijection
<1> QED BY <1>3, <1>4 DEF T

LEMMA SliceOf ==
    ASSUME NEW R, NEW s \in Seq(R), NEW first \in Nat, NEW skip \in Nat
    PROVE  /\ Slice(s, first, skip) \in Seq(R)
           /\ \A x : x \in Range(Slice(s, first, skip)) <=>
                      \E n \in 1 .. Len(s) : skip < n /\ n <= skip + first /\ x = s[n]
           /\ IsInjective(s) => IsInjective(Slice(s, first, skip))
<1> DEFINE last == IF skip + first < Len(s) THEN skip + first ELSE Len(s)
           page == SubSeq(s, skip + 1, last)
<1>1. /\ Len(s) \in Nat /\ last \in Nat /\ last <= Len(s) /\ last <= skip + first
      /\ DOMAIN s = 1 .. Len(s)
  OBVIOUS
<1>2. \A m \in skip + 1 .. last : s[m] \in R
  BY <1>1
<1>3. /\ page \in Seq(R) /\ Len(page) = IF skip + 1 <= last THEN last - skip ELSE 0
      /\ \A m \in 1 .. last - skip : page[m] = s[skip + m]
  <2>1. skip + 1 \in Int /\ last \in Int
    BY <1>1
  <2> HIDE DEF last
  <2> QED BY <1>1, <1>2, <2>1, SubSeqProperties
<1>4. DOMAIN page = 1 .. last - skip
  <2> HIDE DEF last, page
  <2> QED BY <1>1, <1>3
<1>5. IsInjective(s) => IsInjective(page)
  <2> SUFFICES ASSUME IsInjective(s), NEW m \in DOMAIN page, NEW n \in DOMAIN page, page[m] = page[n]
               PROVE  m = n
      BY DEF IsInjective
  <2> HIDE DEF last, page
  <2>1. /\ skip + m \in DOMAIN s /\ page[m] = s[skip + m]
        /\ skip + n \in DOMAIN s /\ page[n] = s[skip + n]
    BY <1>1, <1>3, <1>4
  <2>2. skip + m = skip + n
    BY <2>1 DEF IsInjective
  <2> QED BY <1>1, <1>4, <2>2
<1>6. \A x : x \in Range(page) <=> \E n \in 1 .. Len(s) : skip < n /\ n <= skip + first /\ x = s[n]
  <2>1. ASSUME NEW n \in 1 .. Len(s), skip < n, n <= skip + first
        PROVE  s[n] \in Range(page)
    <3>1. n - skip \in DOMAIN page
      BY <1>1, <1>4, <2>1
    <3>2. page[n - skip] = s[n]
      <4> HIDE DEF page, last
      <4> QED BY <1>1, <1>3, <1>4, <2>1, <3>1
    <3> QED BY <3>1, <3>2 DEF Range
  <2>2. ASSUME NEW m \in DOMAIN page
        PROVE  \E n \in 1 .. Len(s) : skip < n /\ n <= skip + first /\ page[m] = s[n]
    <3> HIDE DEF page, last
    <3>1. skip + m \in 1 .. Len(s) /\ skip < skip + m /\ skip + m <= skip + first /\ page[m] = s[skip + m]
      BY <1>1, <1>3, <1>4, <2>2
    <3> QED BY <3>1
  <2> HIDE DEF page, last
  <2> QED BY <2>1, <2>2 DEF Range
<1> QED BY <1>3, <1>5, <1>6 DEF Slice

LEMMA PagesJoined ==
    ASSUME NEW R, NEW s \in Seq(R), NEW t \in Seq(R)
    PROVE  /\ s \o t \in Seq(R) /\ Range(s \o t) = Range(s) \cup Range(t)
           /\ IsInjective(s) /\ IsInjective(t) /\ Range(s) \cap Range(t) = {} => IsInjective(s \o t)
<1>1. /\ s \o t \in Seq(R) /\ Len(s \o t) = Len(s) + Len(t) /\ Len(s) \in Nat /\ Len(t) \in Nat
      /\ \A n \in 1 .. Len(s) + Len(t) : (s \o t)[n] = IF n <= Len(s) THEN s[n] ELSE t[n - Len(s)]
  OBVIOUS
<1>2. DOMAIN s = 1 .. Len(s) /\ DOMAIN t = 1 .. Len(t) /\ DOMAIN (s \o t) = 1 .. Len(s) + Len(t)
  BY <1>1
<1>3. Range(s \o t) = Range(s) \cup Range(t)
  <2>1. ASSUME NEW n \in 1 .. Len(s) PROVE s[n] \in Range(s \o t)
    BY <1>1, <1>2 DEF Range
  <2>2. ASSUME NEW n \in 1 .. Len(t) PROVE t[n] \in Range(s \o t)
    <3>1. Len(s) + n \in DOMAIN (s \o t) /\ (s \o t)[Len(s) + n] = t[n]
      BY <1>1, <1>2
    <3> QED BY <3>1 DEF Range
  <2> QED BY <1>1, <1>2, <2>1, <2>2 DEF Range
<1>4. ASSUME IsInjective(s), IsInjective(t), Range(s) \cap Range(t) = {}
      PROVE  IsInjective(s \o t)
  <2>1. ASSUME NEW m \in 1 .. Len(s), NEW n \in 1 .. Len(t) PROVE s[m] # t[n]
    BY <1>2, <1>4 DEF Range
  <2> QED BY <1>1, <1>2, <1>4, <2>1 DEF IsInjective
<1> QED BY <1>1, <1>3, <1>4

\* B puts any two rows of R one way or the other, perhaps both.
InOrderBy(B, R) ==
  /\ \A x, y \in R : x # y => <<x, y>> \in B \/ <<y, x>> \in B
  /\ \A x \in R : <<x, x>> \notin B
\* How many rows of R come before x.
Place(B, R, x) == Cardinality({y \in R : <<y, x>> \in B})

LEMMA PlaceType ==
    ASSUME NEW R, IsFiniteSet(R), NEW B, NEW x
    PROVE  /\ IsFiniteSet({y \in R : <<y, x>> \in B})
           /\ Place(B, R, x) \in Nat
           /\ InOrderBy(B, R) /\ x \in R => Place(B, R, x) < Cardinality(R)
<1> DEFINE P == {y \in R : <<y, x>> \in B}
<1>1. IsFiniteSet(P) /\ Cardinality(P) <= Cardinality(R) /\ (Cardinality(R) = Cardinality(P) => P = R)
  BY FS_Subset
<1>2. Cardinality(P) \in Nat /\ Cardinality(R) \in Nat
  BY <1>1, FS_CardinalityType
<1>3. InOrderBy(B, R) /\ x \in R => P # R
  BY DEF InOrderBy
<1> QED BY <1>1, <1>2, <1>3 DEF Place

LEMMA FewerBefore ==
    ASSUME NEW R, IsFiniteSet(R), NEW T \in SUBSET R, NEW B, NEW x
    PROVE  Place(B, T, x) <= Place(B, R, x)
<1>1. {y \in T : <<y, x>> \in B} \subseteq {y \in R : <<y, x>> \in B}
  OBVIOUS
<1>2. IsFiniteSet({y \in R : <<y, x>> \in B})
  BY FS_Subset
<1> QED BY <1>1, <1>2, FS_Subset DEF Place

\* A page is the rows with these places, whichever order the statement returns them in.
LEMMA PageIsPlaces ==
    ASSUME NEW R, IsFiniteSet(R), NEW B, InOrderBy(B, R),
           NEW s \in SetToSeqs(R), \A m, n \in DOMAIN s : m < n => <<s[n], s[m]>> \notin B,
           NEW first \in Nat, NEW skip \in Nat
    PROVE  /\ Slice(s, first, skip) \in Seq(R)
           /\ IsInjective(Slice(s, first, skip))
           /\ \A x : x \in Range(Slice(s, first, skip)) <=>
                      x \in R /\ skip <= Place(B, R, x) /\ Place(B, R, x) < skip + first
<1>1. s \in Seq(R) /\ IsInjective(s) /\ Range(s) = R /\ DOMAIN s = 1 .. Len(s) /\ Len(s) \in Nat
  BY SeqOfSet
<1>2. ASSUME NEW n \in 1 .. Len(s)
      PROVE  Place(B, R, s[n]) = n - 1
  <2>1. {y \in R : <<y, s[n]>> \in B} = {s[m] : m \in 1 .. n - 1}
    <3>1. ASSUME NEW m \in 1 .. n - 1 PROVE s[m] \in R /\ <<s[m], s[n]>> \in B
      <4>1. m \in DOMAIN s /\ n \in DOMAIN s /\ m < n /\ m # n
        BY <1>1
      <4>2. s[m] \in R /\ s[n] \in R /\ s[m] # s[n]
        BY <1>1, <4>1 DEF IsInjective
      <4> QED BY <4>1, <4>2 DEF InOrderBy
    <3>2. ASSUME NEW y \in R, <<y, s[n]>> \in B PROVE \E m \in 1 .. n - 1 : y = s[m]
      <4>1. PICK m \in DOMAIN s : y = s[m]
        BY <1>1 DEF Range
      <4>2. ~(n < m) /\ n # m
        BY <1>1, <3>2, <4>1 DEF InOrderBy
      <4> QED BY <1>1, <4>1, <4>2
    <3> QED BY <3>1, <3>2
  <2> QED BY <2>1, PlaceOf DEF Place
<1>3. /\ Slice(s, first, skip) \in Seq(R) /\ IsInjective(Slice(s, first, skip))
      /\ \A x : x \in Range(Slice(s, first, skip)) <=>
                 \E n \in 1 .. Len(s) : skip < n /\ n <= skip + first /\ x = s[n]
  BY <1>1, SliceOf
<1>4. ASSUME NEW x \in R, skip <= Place(B, R, x), Place(B, R, x) < skip + first
      PROVE  \E n \in 1 .. Len(s) : x = s[n] /\ skip < n /\ n <= skip + first
  <2>1. PICK n \in 1 .. Len(s) : x = s[n]
    BY <1>1 DEF Range
  <2> QED BY <1>2, <1>4, <2>1
<1>5. ASSUME NEW n \in 1 .. Len(s), skip < n, n <= skip + first
      PROVE  s[n] \in R /\ skip <= Place(B, R, s[n]) /\ Place(B, R, s[n]) < skip + first
  BY <1>1, <1>2, <1>5
<1> QED BY <1>3, <1>4, <1>5

LEMMA SamePlaces ==
    ASSUME NEW U, NEW B, NEW C, NEW x,
           \A y \in U : <<y, x>> \in B <=> <<y, x>> \in C
    PROVE  Place(B, U, x) = Place(C, U, x)
<1>1. {y \in U : <<y, x>> \in B} = {y \in U : <<y, x>> \in C}
  OBVIOUS
<1> QED BY <1>1 DEF Place

LEMMA PlaceBelow ==
    ASSUME NEW R, IsFiniteSet(R), NEW B, NEW x \in R, <<x, x>> \notin B
    PROVE  Place(B, R, x) \in Nat /\ Place(B, R, x) < Cardinality(R)
<1> DEFINE P == {y \in R : <<y, x>> \in B}
<1>1. P \subseteq R /\ P # R
  OBVIOUS
<1>2. Cardinality(P) <= Cardinality(R) /\ Cardinality(P) # Cardinality(R)
  BY <1>1, FS_Subset
<1>3. Cardinality(R) \in Nat /\ Cardinality(P) \in Nat
  BY <1>1, FS_Subset, FS_CardinalityType
<1> QED BY <1>2, <1>3 DEF Place

-----------------------------------------------------------------------------
(* Where no two rows tie: a page of a union whose parts are cut before.    *)

RankedBy(B, R) ==
  /\ InOrderBy(B, R)
  /\ \A x, y, z \in R : <<x, y>> \in B /\ <<y, z>> \in B => <<x, z>> \in B

LEMMA PlacesGrow ==
    ASSUME NEW R, IsFiniteSet(R), NEW B, RankedBy(B, R), NEW x \in R, NEW y \in R, <<x, y>> \in B
    PROVE  Place(B, R, x) < Place(B, R, y)
<1> DEFINE P == {z \in R : <<z, x>> \in B}  Q == {z \in R : <<z, y>> \in B}
<1>1. P \subseteq Q /\ x \in Q /\ x \notin P
  BY DEF RankedBy, InOrderBy
<1>2. IsFiniteSet(Q) /\ IsFiniteSet(P)
  BY PlaceType
<1>3. Cardinality(P) <= Cardinality(Q) /\ Cardinality(P) # Cardinality(Q)
  BY <1>1, <1>2, FS_Subset
<1>4. Cardinality(Q) \in Nat /\ Cardinality(P) \in Nat
  BY <1>2, FS_CardinalityType
<1> QED BY <1>3, <1>4 DEF Place

\* Each place up to the number of rows is that of one of them.
LEMMA PlacesFilled ==
    ASSUME NEW R, IsFiniteSet(R), NEW B, RankedBy(B, R), NEW m \in Nat, m <= Cardinality(R)
    PROVE  Cardinality({y \in R : Place(B, R, y) < m}) = m
<1> DEFINE n == Cardinality(R)
           p == [y \in R |-> Place(B, R, y)]
           First == {y \in R : Place(B, R, y) < m}
           q == [y \in First |-> Place(B, R, y)]
<1>1. n \in Nat
  BY FS_CardinalityType
<1>2. \A y \in R : Place(B, R, y) \in 0 .. n - 1
  <2>1. \A y \in R : Place(B, R, y) \in Nat /\ Place(B, R, y) < n
    BY PlaceType DEF RankedBy
  <2> HIDE DEF n
  <2> QED BY <1>1, <2>1
<1>3. \A x, y \in R : Place(B, R, x) = Place(B, R, y) => x = y
  <2> SUFFICES ASSUME NEW x \in R, NEW y \in R, Place(B, R, x) = Place(B, R, y), x # y PROVE FALSE
      OBVIOUS
  <2>1. <<x, y>> \in B \/ <<y, x>> \in B
    BY DEF RankedBy, InOrderBy
  <2>2. Place(B, R, x) < Place(B, R, y) \/ Place(B, R, y) < Place(B, R, x)
    BY <2>1, PlacesGrow
  <2> QED BY <1>1, <1>2, <2>2
<1> HIDE DEF n
<1>4. p \in Injection(R, 0 .. n - 1)
  BY <1>2, <1>3 DEF Injection, IsInjective
<1>5. IsFiniteSet(0 .. n - 1) /\ Cardinality(0 .. n - 1) = n
  BY <1>1, FS_Interval
<1>6. p \in Surjection(R, 0 .. n - 1)
  BY <1>4, <1>5, FS_Injection DEF n
<1>7. \A k \in 0 .. n - 1 : \E y \in R : Place(B, R, y) = k
  BY <1>6 DEF Surjection
<1>8. q \in Bijection(First, 0 .. m - 1)
  <2>1. q \in [First -> 0 .. m - 1]
    BY <1>1, <1>2
  <2>2. \A x, y \in First : q[x] = q[y] => x = y
    BY <1>3
  <2>3. \A k \in 0 .. m - 1 : \E y \in First : q[y] = k
    <3> SUFFICES ASSUME NEW k \in 0 .. m - 1 PROVE \E y \in First : q[y] = k
        OBVIOUS
    <3>1. k \in 0 .. n - 1 /\ k < m
      BY <1>1 DEF n
    <3>2. PICK y \in R : Place(B, R, y) = k
      BY <1>7, <3>1
    <3>3. y \in First
      BY <3>1, <3>2
    <3> QED BY <3>2, <3>3
  <2> HIDE DEF q, First
  <2> QED BY <2>1, <2>2, <2>3 DEF Bijection, Injection, Surjection, IsInjective
<1>9. IsFiniteSet(First)
  BY FS_Subset
<1>10. IsFiniteSet(0 .. m - 1) /\ Cardinality(0 .. m - 1) = m
  BY FS_Interval
<1>11. ExistsBijection(First, 0 .. m - 1)
  BY <1>8 DEF ExistsBijection
<1> HIDE DEF First, q
<1>12. Cardinality(First) = m
  BY <1>9, <1>10, <1>11, FS_Bijection
<1> QED BY <1>12 DEF First

\* A part that keeps the first rows keeps their places, and puts no other among them.
LEMMA PartKeepsPlaces ==
    ASSUME NEW R, IsFiniteSet(R), NEW B, RankedBy(B, R), NEW m \in Nat,
           NEW T \in SUBSET R, \A y \in R : Place(B, R, y) < m => y \in T,
           NEW x \in R
    PROVE  /\ Place(B, R, x) < m => x \in T /\ Place(B, T, x) = Place(B, R, x)
           /\ x \in T /\ Place(B, T, x) < m => Place(B, R, x) < m
<1>0. IsFiniteSet(T) /\ \A y \in R : Place(B, R, y) \in Nat
  BY PlaceType, FS_Subset
<1>1. ASSUME Place(B, R, x) < m PROVE Place(B, T, x) = Place(B, R, x)
  <2>1. ASSUME NEW y \in R, <<y, x>> \in B PROVE y \in T
    <3>1. Place(B, R, y) < Place(B, R, x)
      BY <2>1, PlacesGrow
    <3> QED BY <1>0, <1>1, <3>1
  <2>2. {y \in R : <<y, x>> \in B} = {y \in T : <<y, x>> \in B}
    BY <2>1
  <2> QED BY <2>2 DEF Place
<1>2. ASSUME ~(Place(B, R, x) < m) PROVE ~(Place(B, T, x) < m)
  <2> DEFINE First == {y \in R : Place(B, R, y) < m}  Q == {y \in T : <<y, x>> \in B}
  <2>1. ASSUME NEW y \in First PROVE y \in Q
    <3>1. y # x /\ ~(<<x, y>> \in B)
      <4>1. <<x, y>> \in B => Place(B, R, x) < Place(B, R, y)
        BY PlacesGrow
      <4> QED BY <1>0, <1>2, <4>1
    <3>2. <<y, x>> \in B
      BY <3>1 DEF RankedBy, InOrderBy
    <3> QED BY <3>2
  <2>2. First \subseteq Q
    BY <2>1
  <2>3. m <= Cardinality(R)
    <3>1. Place(B, R, x) < Cardinality(R) /\ Place(B, R, x) \in Nat /\ Cardinality(R) \in Nat
      BY PlaceType, FS_CardinalityType DEF RankedBy
    <3> QED BY <1>2, <3>1
  <2>4. Cardinality(First) = m
    BY <2>3, PlacesFilled
  <2>5. IsFiniteSet(Q) /\ Cardinality(Q) \in Nat
    BY <1>0, FS_Subset, FS_CardinalityType
  <2>6. Cardinality(First) <= Cardinality(Q)
    BY <2>2, <2>5, FS_Subset
  <2> QED BY <2>4, <2>5, <2>6 DEF Place
<1> QED BY <1>1, <1>2
-----------------------------------------------------------------------------
(* Where no two rows have the same turn, there is one page to hold.        *)

LEMMA PagesAre ==
    ASSUME NEW R, IsFiniteSet(R), NEW turn \in [R -> Int], \A x, y \in R : turn[x] = turn[y] => x = y
    PROVE  /\ \A x \in R : /\ Cardinality({q \in R : turn[q] < turn[x]}) \in Nat
                          /\ Cardinality({q \in R : turn[q] < turn[x]}) < Cardinality(R)
           /\ \A first, skip \in Nat : \A P \in PagesOf(R, first, skip, turn) :
                P = {x \in R : /\ skip <= Cardinality({q \in R : turn[q] < turn[x]})
                              /\ Cardinality({q \in R : turn[q] < turn[x]}) < skip + first}
<1> DEFINE Pl(x) == Cardinality({q \in R : turn[q] < turn[x]})
           Tied(r) == {q \in R : turn[q] = turn[r]}
<1>1. \A x \in R : Pl(x) \in Nat /\ Pl(x) < Cardinality(R)
  <2> SUFFICES ASSUME NEW x \in R PROVE Pl(x) \in Nat /\ Pl(x) < Cardinality(R)
      OBVIOUS
  <2> DEFINE B == {p \in R \X R : turn[p[1]] < turn[p[2]]}
  <2>1. <<x, x>> \notin B
    OBVIOUS
  <2>2. {y \in R : <<y, x>> \in B} = {q \in R : turn[q] < turn[x]}
    OBVIOUS
  <2> HIDE DEF B
  <2> QED BY <2>1, <2>2, PlaceBelow DEF Place
<1>2. \A r \in R : Tied(r) = {r}
  OBVIOUS
<1>3. ASSUME NEW first \in Nat, NEW skip \in Nat, NEW P \in PagesOf(R, first, skip, turn), NEW r \in R
      PROVE  r \in P <=> skip <= Pl(r) /\ Pl(r) < skip + first
  <2> DEFINE Taken == (Pl(r) .. Pl(r) + Cardinality(Tied(r)) - 1) \cap (skip .. skip + first - 1)
  <2>1. Cardinality(P \cap Tied(r)) = Cardinality(Taken)
    BY DEF PagesOf
  <2> HIDE DEF Pl, Tied
  <2>2. Cardinality(Tied(r)) = 1
    BY <1>2, FS_Singleton
  <2>3. Taken = IF skip <= Pl(r) /\ Pl(r) < skip + first THEN {Pl(r)} ELSE {}
    <3>1. Pl(r) \in Int /\ Pl(r) + 1 - 1 = Pl(r)
      BY <1>1
    <3>2. Pl(r) .. Pl(r) + Cardinality(Tied(r)) - 1 = {Pl(r)}
      BY <2>2, <3>1
    <3> QED BY <3>1, <3>2
  <2>4. P \cap Tied(r) = IF r \in P THEN {r} ELSE {}
    BY <1>2
  <2>5. Cardinality({r}) = 1 /\ Cardinality({Pl(r)}) = 1 /\ Cardinality({}) = 0
    BY FS_Singleton, FS_EmptySet
  <2> HIDE DEF Taken
  <2> QED BY <2>1, <2>3, <2>4, <2>5
<1>4. ASSUME NEW first \in Nat, NEW skip \in Nat, NEW P \in PagesOf(R, first, skip, turn)
      PROVE  P = {x \in R : skip <= Pl(x) /\ Pl(x) < skip + first}
  <2>1. P \subseteq R
    BY DEF PagesOf
  <2> HIDE DEF Pl
  <2> QED BY <1>3, <2>1
<1> QED BY <1>1, <1>4

LEMMA PagesApart ==
    ASSUME NEW R, IsFiniteSet(R), NEW turn \in [R -> Int], \A x, y \in R : turn[x] = turn[y] => x = y
    PROVE  \E place \in [R -> Nat] :
             /\ \A x \in R : place[x] < Cardinality(R)
             /\ \A first, skip \in Nat : \A P \in PagesOf(R, first, skip, turn) :
                  P = {x \in R : skip <= place[x] /\ place[x] < skip + first}
<1> DEFINE Pl(x) == Cardinality({q \in R : turn[q] < turn[x]})
           place == [x \in R |-> Pl(x)]
<1>1. /\ \A x \in R : Pl(x) \in Nat /\ Pl(x) < Cardinality(R)
      /\ \A first, skip \in Nat : \A P \in PagesOf(R, first, skip, turn) :
           P = {x \in R : skip <= Pl(x) /\ Pl(x) < skip + first}
  BY PagesAre
<1> HIDE DEF Pl
<1>2. place \in [R -> Nat] /\ \A x \in R : place[x] = Pl(x)
  BY <1>1
<1> HIDE DEF place
<1> QED BY <1>1, <1>2

\* Two answers for a page differ in rows of one turn only.
LEMMA PagesShare ==
    ASSUME NEW R, IsFiniteSet(R), NEW turn, NEW first, NEW skip,
           NEW P \in PagesOf(R, first, skip, turn), NEW Q \in PagesOf(R, first, skip, turn), NEW x \in P
    PROVE  \E y \in Q : turn[y] = turn[x]
<1> DEFINE T == {q \in R : turn[q] = turn[x]}
<1>1. x \in R /\ P \subseteq R /\ Q \subseteq R
  BY DEF PagesOf
<1>2. Cardinality(P \cap T) = Cardinality(Q \cap T)
  BY <1>1 DEF PagesOf
<1>3. x \in P \cap T /\ IsFiniteSet(P \cap T)
  BY <1>1, FS_Subset
<1>4. Q \cap T # {}
  BY <1>2, <1>3, FS_EmptySet
<1> QED BY <1>4
\* Pages of one row are each row once, and a page that is long enough is all of them.
LEMMA PagesOfOne ==
    ASSUME NEW R, IsFiniteSet(R), NEW turn \in [R -> Int], \A x, y \in R : turn[x] = turn[y] => x = y,
           NEW c \in Nat, Cardinality(R) <= c
    PROVE  /\ \A first \in Nat : c <= first => \A P \in PagesOf(R, first, 0, turn) : P = R
           /\ \A x \in R : \E n \in 0 .. c - 1 : \A m \in 0 .. c - 1 :
                \A P \in PagesOf(R, 1, m, turn) : x \in P <=> m = n
<1>1. PICK place \in [R -> Nat] :
        /\ \A x \in R : place[x] < Cardinality(R)
        /\ \A first, skip \in Nat : \A P \in PagesOf(R, first, skip, turn) :
             P = {x \in R : skip <= place[x] /\ place[x] < skip + first}
  BY PagesApart
<1>2. Cardinality(R) \in Nat
  BY FS_CardinalityType
<1>3. \A x \in R : place[x] \in 0 .. c - 1
  BY <1>1, <1>2
<1>4. ASSUME NEW first \in Nat, c <= first, NEW P \in PagesOf(R, first, 0, turn) PROVE P = R
  <2>1. P = {x \in R : 0 <= place[x] /\ place[x] < 0 + first}
    BY <1>1, <1>4
  <2>2. \A x \in R : 0 <= place[x] /\ place[x] < 0 + first
    BY <1>3, <1>4
  <2> QED BY <2>1, <2>2
<1>5. ASSUME NEW x \in R, NEW m \in 0 .. c - 1, NEW P \in PagesOf(R, 1, m, turn)
      PROVE  x \in P <=> m = place[x]
  <2>1. P = {y \in R : m <= place[y] /\ place[y] < m + 1}
    BY <1>1, <1>5
  <2>2. m <= place[x] /\ place[x] < m + 1 <=> m = place[x]
    BY <1>3
  <2> QED BY <2>1, <2>2
<1> QED BY <1>3, <1>4, <1>5
=============================================================================
