-------------------------- MODULE Catalogue_proofs --------------------------
(***************************************************************************)
(* Theorems about Catalogue, for all payloads, batch sizes, error rates,   *)
(* filters and any number of imports, however they end.                    *)
(***************************************************************************)
EXTENDS Catalogue, SequenceTheorems, WellFoundedInduction, TLAPS

-----------------------------------------------------------------------------
(* Induction over the positions of a sequence, with the set of those for   *)
(* which a statement holds.                                                *)

LEMMA LessIsWellFounded == IsWellFoundedOn({r \in Nat \X Nat : r[1] < r[2]}, Nat)
BY NatLessThanWellFounded DEF OpToRel

LEMMA Induction ==
  ASSUME NEW N \in Nat, NEW S,
         0 \in S, \A n \in 1 .. N : n - 1 \in S => n \in S
  PROVE  \A n \in 0 .. N : n \in S
<1> DEFINE less == {r \in Nat \X Nat : r[1] < r[2]}
           rest == {n \in 0 .. N : n \notin S}
<1>1. \A x, y \in Nat : <<x, y>> \in less <=> x < y
  OBVIOUS
<1>2. ASSUME rest # {} PROVE FALSE
  <2>1. rest \subseteq Nat
    OBVIOUS
  <2>2. IsWellFoundedOn(less, Nat)
    BY LessIsWellFounded
  <2> HIDE DEF less
  <2>3. PICK n \in rest : \A m \in rest : ~(<<m, n>> \in less)
    BY <1>2, <2>1, <2>2, WFMin
  <2>4. n \in 1 .. N
    BY <2>3
  <2>5. n - 1 \in S
    <3>1. n - 1 \in 0 .. N /\ n \in Nat /\ n - 1 \in Nat /\ n - 1 < n
      BY <2>4
    <3>2. <<n - 1, n>> \in less
      BY <1>1, <3>1
    <3> QED
      BY <2>3, <3>1, <3>2
  <2> QED
    BY <2>3, <2>4, <2>5
<1> QED
  BY <1>2

-----------------------------------------------------------------------------
(* The loops of the adapters and of merge_records over a list              *)

NextFound(t, x, skipped) == IF x \in skipped \cup ToSet(t) THEN t ELSE Append(t, x)

(* What the loop has found after each of the first m elements.             *)
IsFound(f, s, skipped, m) ==
  f = [n \in 0 .. m |-> IF n = 0 THEN <<>> ELSE NextFound(f[n - 1], s[n], skipped)]

LEMMA FoundExists ==
  ASSUME NEW s, NEW skipped, NEW N \in Nat
  PROVE  \E f : IsFound(f, s, skipped, N)
<1> DEFINE S == {m \in 0 .. N : \E f : IsFound(f, s, skipped, m)}
<1>1. 0 \in S
  <2>1. IsFound([n \in 0 .. 0 |-> <<>>], s, skipped, 0)
    BY DEF IsFound
  <2> QED
    BY <2>1
<1>2. ASSUME NEW m \in 1 .. N, m - 1 \in S PROVE m \in S
  <2>1. PICK f : IsFound(f, s, skipped, m - 1)
    BY <1>2
  <2> DEFINE g == [n \in 0 .. m |-> IF n = m THEN NextFound(f[m - 1], s[m], skipped) ELSE f[n]]
  <2>2. \A n \in 0 .. m - 1 : g[n] = f[n]
    OBVIOUS
  <2>3. \A n \in 0 .. m : g[n] = IF n = 0 THEN <<>> ELSE NextFound(g[n - 1], s[n], skipped)
    <3>1. ASSUME NEW n \in 0 .. m - 1
          PROVE  g[n] = IF n = 0 THEN <<>> ELSE NextFound(g[n - 1], s[n], skipped)
      <4>1. f[n] = IF n = 0 THEN <<>> ELSE NextFound(f[n - 1], s[n], skipped)
        BY <2>1, Zenon DEF IsFound
      <4>2. n # 0 => n - 1 \in 0 .. m - 1
        OBVIOUS
      <4> HIDE DEF g
      <4> QED
        BY <2>2, <4>1, <4>2
    <3>2. g[m] = NextFound(g[m - 1], s[m], skipped) /\ m # 0
      BY <2>2
    <3>3. \A n \in 0 .. m : n \in 0 .. m - 1 \/ n = m
      OBVIOUS
    <3> HIDE DEF g
    <3> QED
      BY <3>1, <3>2, <3>3
  <2>4. IsFound(g, s, skipped, m)
    <3> DEFINE h == [n \in 0 .. m |-> IF n = 0 THEN <<>> ELSE NextFound(g[n - 1], s[n], skipped)]
    <3>1. DOMAIN g = 0 .. m /\ g = [n \in 0 .. m |-> g[n]]
      OBVIOUS
    <3> HIDE DEF g
    <3>2. [n \in 0 .. m |-> g[n]] = h
      BY <2>3
    <3> QED
      BY <3>1, <3>2, Zenon DEF IsFound
  <2>5. m \in 0 .. N
    OBVIOUS
  <2> HIDE DEF g
  <2> QED
    BY <2>4, <2>5
<1> HIDE DEF S
<1>3. N \in S
  BY <1>1, <1>2, Induction
<1> QED
  BY <1>3 DEF S

LEMMA DistinctIs ==
  ASSUME NEW s, NEW skipped, Len(s) \in Nat
  PROVE  \E f : IsFound(f, s, skipped, Len(s)) /\ Distinct(s, skipped) = f[Len(s)]
<1> DEFINE f == CHOOSE f : IsFound(f, s, skipped, Len(s))
<1>1. IsFound(f, s, skipped, Len(s))
  BY FoundExists, Zenon
<1>2. Distinct(s, skipped) = f[Len(s)]
  BY DEF Distinct, IsFound, NextFound
<1> HIDE DEF f
<1> QED
  BY <1>1, <1>2

Once(t) == \A j, k \in DOMAIN t : t[j] = t[k] => j = k

Joined(t, x, skipped, T, u) ==
  /\ u \in Seq(T) /\ Once(u)
  /\ ToSet(u) = ToSet(t) \cup ({x} \ skipped)
  /\ t # <<>> => u # <<>> /\ u[1] = t[1]
  /\ t = <<>> /\ x \notin skipped => u # <<>> /\ u[1] = x

LEMMA NextFoundFacts ==
  ASSUME NEW T, NEW t \in Seq(T), NEW x \in T, NEW skipped, Once(t)
  PROVE  Joined(t, x, skipped, T, NextFound(t, x, skipped))
<1>1. CASE x \in skipped \cup ToSet(t)
  <2>1. NextFound(t, x, skipped) = t
    BY <1>1 DEF NextFound
  <2>2. t = <<>> => ToSet(t) = {}
    BY DEF ToSet
  <2> QED
    BY <1>1, <2>1, <2>2 DEF Joined
<1>2. CASE x \notin skipped \cup ToSet(t)
  <2> DEFINE u == Append(t, x)
  <2>1. NextFound(t, x, skipped) = u
    BY <1>2 DEF NextFound
  <2>2. u \in Seq(T) /\ Len(u) = Len(t) + 1 /\ u[Len(t) + 1] = x /\ Len(t) \in Nat
    OBVIOUS
  <2>3. DOMAIN u = 1 .. Len(t) + 1 /\ DOMAIN t = 1 .. Len(t)
    OBVIOUS
  <2>4. \A k \in 1 .. Len(t) : u[k] = t[k]
    OBVIOUS
  <2>5. u # <<>>
    BY <2>2
  <2> HIDE DEF u
  <2>6. ToSet(u) = ToSet(t) \cup {x}
    BY <2>2, <2>3, <2>4 DEF ToSet
  <2>7. Once(u)
    <3>1. \A k \in 1 .. Len(t) : t[k] # x
      BY <1>2, <2>3 DEF ToSet
    <3> QED
      BY <2>2, <2>3, <2>4, <3>1 DEF Once
  <2>8. t # <<>> => u[1] = t[1]
    BY <2>2, <2>4
  <2>9. t = <<>> => u[1] = x
    BY <2>2
  <2> QED
    BY <1>2, <2>1, <2>2, <2>5, <2>6, <2>7, <2>8, <2>9 DEF Joined
<1> QED
  BY <1>1, <1>2


(* What is true of u after the first n elements of s.                      *)
Gathered(s, skipped, T, n, u) ==
  /\ u \in Seq(T) /\ Once(u) /\ ToSet(u) = {s[k] : k \in 1 .. n} \ skipped
  /\ n = 0 => u = <<>>
  /\ n # 0 /\ s[1] \notin skipped => u # <<>> /\ u[1] = s[1]

LEMMA GatheredNext ==
  ASSUME NEW T, NEW s \in Seq(T), NEW skipped, NEW n \in 1 .. Len(s), NEW t,
         Gathered(s, skipped, T, n - 1, t)
  PROVE  Gathered(s, skipped, T, n, NextFound(t, s[n], skipped))
<1> DEFINE u == NextFound(t, s[n], skipped)
<1>1. {s[k] : k \in 1 .. n} = {s[k] : k \in 1 .. n - 1} \cup {s[n]}
  OBVIOUS
<1>2. t \in Seq(T) /\ Once(t) /\ s[n] \in T
  BY DEF Gathered
<1>3. Joined(t, s[n], skipped, T, u)
  BY <1>2, NextFoundFacts
<1> HIDE DEF u
<1>4. ToSet(u) = {s[k] : k \in 1 .. n} \ skipped
  BY <1>1, <1>3 DEF Gathered, Joined
<1>5. s[1] \notin skipped => u # <<>> /\ u[1] = s[1]
  <2>1. CASE n = 1
    <3>1. t = <<>>
      BY <2>1 DEF Gathered
    <3> QED
      BY <1>3, <2>1, <3>1 DEF Joined
  <2>2. CASE n # 1
    <3>1. s[1] \notin skipped => t # <<>> /\ t[1] = s[1]
      BY <2>2 DEF Gathered
    <3> QED
      BY <1>3, <3>1 DEF Joined
  <2> QED
    BY <2>1, <2>2
<1>6. n # 0
  OBVIOUS
<1>7. Gathered(s, skipped, T, n, u)
  BY <1>3, <1>4, <1>5, <1>6 DEF Gathered, Joined
<1> QED
  BY <1>7 DEF u

LEMMA DistinctFacts ==
  ASSUME NEW T, NEW s \in Seq(T), NEW skipped
  PROVE  LET u == Distinct(s, skipped) IN
         /\ u \in Seq(T) /\ Once(u) /\ ToSet(u) = ToSet(s) \ skipped
         /\ s # <<>> /\ s[1] \notin skipped => u # <<>> /\ u[1] = s[1]
<1>1. PICK f : IsFound(f, s, skipped, Len(s)) /\ Distinct(s, skipped) = f[Len(s)]
  BY DistinctIs
<1> DEFINE S == {n \in 0 .. Len(s) : Gathered(s, skipped, T, n, f[n])}
<1>2. 0 \in S
  <2>1. f[0] = <<>>
    BY <1>1 DEF IsFound
  <2>2. <<>> \in Seq(T) /\ Once(<<>>) /\ ToSet(<<>>) = {} /\ {s[k] : k \in 1 .. 0} = {}
    BY DEF Once, ToSet
  <2>3. Gathered(s, skipped, T, 0, f[0])
    BY <2>1, <2>2 DEF Gathered
  <2>4. 0 \in 0 .. Len(s)
    OBVIOUS
  <2> QED
    BY <2>3, <2>4
<1>3. ASSUME NEW n \in 1 .. Len(s), n - 1 \in S PROVE n \in S
  <2>1. f[n] = NextFound(f[n - 1], s[n], skipped)
    BY <1>1 DEF IsFound
  <2>2. Gathered(s, skipped, T, n, f[n])
    BY <1>3, <2>1, GatheredNext
  <2> QED
    BY <2>2
<1>4. Len(s) \in Nat /\ Len(s) \in 0 .. Len(s) /\ (s # <<>> => Len(s) # 0)
  OBVIOUS
<1>5. \A n \in 0 .. Len(s) : n \in S
  <2> HIDE DEF S
  <2> QED
    BY <1>2, <1>3, <1>4, Induction
<1>6. Gathered(s, skipped, T, Len(s), f[Len(s)])
  BY <1>4, <1>5
<1>7. ToSet(s) = {s[k] : k \in 1 .. Len(s)}
  BY DEF ToSet
<1> QED
  BY <1>1, <1>4, <1>6, <1>7 DEF Gathered

-----------------------------------------------------------------------------
(* The records of a line                                                   *)

LEMMA CheckDigit == ASSUME NEW n \in Nat PROVE Check(n) \in 0 .. 9 /\ (n + Check(n)) % 10 = 0
BY DEF Check

LEMMA WeightedSum ==
  ASSUME NEW c, \A k \in 1 .. 12 : c[k] \in 0 .. 9
  PROVE  Sum12(c) \in Nat
<1>1. /\ c[1] \in Nat /\ c[2] \in Nat /\ c[3] \in Nat /\ c[4] \in Nat /\ c[5] \in Nat
      /\ c[6] \in Nat /\ c[7] \in Nat /\ c[8] \in Nat /\ c[9] \in Nat /\ c[10] \in Nat
      /\ c[11] \in Nat /\ c[12] \in Nat
  <2>1. \A k \in 1 .. 12 : c[k] \in Nat
    OBVIOUS
  <2> QED
    BY <2>1
<1> QED
  BY <1>1 DEF Sum12

(* (A length that is a number, as Len(c) = 12, is no fact to give to SMT.)  *)
LEMMA AppendTo ==
  ASSUME NEW D, NEW c \in Seq(D), NEW N \in Nat, Len(c) = N, NEW d \in D,
         NEW i, i = Append(c, d)
  PROVE  /\ i \in Seq(D) /\ Len(i) = N + 1 /\ DOMAIN i = 1 .. N + 1 /\ i[N + 1] = d
         /\ \A k \in 1 .. N : i[k] = c[k]
OBVIOUS

LEMMA DigitsOf ==
  ASSUME NEW D, NEW i \in Seq(D)
  PROVE  \A k \in 1 .. Len(i) : i[k] \in D
OBVIOUS

(* Twelve digits and their check digit.                                    *)
LEMMA AppendDigit ==
  ASSUME NEW c, NEW d, (Sum12(c) + d) % 10 = 0,
         NEW i, Len(i) = 13, DOMAIN i = 1 .. 13, \A k \in 1 .. 13 : i[k] \in 0 .. 9,
         i[13] = d, \A k \in 1 .. 12 : i[k] = c[k]
  PROVE  Valid13(i)
<1>1. Sum12(i) = Sum12(c)
  BY DEF Sum12
<1> QED
  BY <1>1 DEF Valid13

LEMMA CoreFacts ==
  ASSUME NEW s, \A k \in 1 .. 9 : s[k] \in 0 .. 9
  PROVE  /\ Core(s) \in Seq(0 .. 9) /\ Len(Core(s)) = 12
         /\ \A k \in 1 .. 12 : Core(s)[k] \in 0 .. 9
         /\ \A k \in 1 .. 9 : Core(s)[k + 3] = s[k]
<1> DEFINE D == 0 .. 9
<1>1. /\ s[1] \in D /\ s[2] \in D /\ s[3] \in D /\ s[4] \in D /\ s[5] \in D
      /\ s[6] \in D /\ s[7] \in D /\ s[8] \in D /\ s[9] \in D /\ 9 \in D /\ 7 \in D /\ 8 \in D
  OBVIOUS
<1> HIDE DEF D
<1>2. Core(s) \in Seq(D) /\ Len(Core(s)) = 12
  BY <1>1 DEF Core
<1>3. \A k \in 1 .. 9 : Core(s)[k + 3] = s[k]
  <2>1. /\ Core(s)[4] = s[1] /\ Core(s)[5] = s[2] /\ Core(s)[6] = s[3] /\ Core(s)[7] = s[4]
        /\ Core(s)[8] = s[5] /\ Core(s)[9] = s[6] /\ Core(s)[10] = s[7] /\ Core(s)[11] = s[8]
        /\ Core(s)[12] = s[9]
    BY DEF Core
  <2> QED
    BY <2>1
<1>4. \A k \in 1 .. 12 : Core(s)[k] \in D
  BY <1>2, DigitsOf
<1> QED
  BY <1>2, <1>3, <1>4 DEF D

LEMMA Isbn10Facts ==
  ASSUME NEW s \in Seq(0 .. 11), Valid10(s), ~IsbnRaises(s)
  PROVE  /\ Isbn10To13(s) \in Seq(0 .. 9) /\ Valid13(Isbn10To13(s))
         /\ Len(s) = 10 /\ \A k \in 1 .. 9 : s[k] = Isbn10To13(s)[k + 3]
<1>1. Len(s) = 10 /\ \A k \in 1 .. 9 : s[k] \in 0 .. 9
  <2>1. Len(s) = 10 /\ \A k \in 1 .. 10 : s[k] \in 0 .. 9 \/ s[k] = X
    BY DEF Valid10
  <2>2. \A k \in 1 .. 9 : s[k] # X
    BY DEF IsbnRaises
  <2> QED
    BY <2>1, <2>2
<1> DEFINE c == Core(s)
           d == Check(Sum12(c))
           i == Append(c, d)
           D == 0 .. 9
           N == 12
<1>2. c \in Seq(D) /\ Len(c) = N /\ \A k \in 1 .. N : c[k] \in 0 .. 9
  BY <1>1, CoreFacts
<1>3. \A k \in 1 .. 9 : c[k + 3] = s[k]
  BY <1>1, CoreFacts
<1>4. d \in D /\ (Sum12(c) + d) % 10 = 0
  <2>1. Sum12(c) \in Nat
    BY <1>2, WeightedSum
  <2> QED
    BY <2>1, CheckDigit, Zenon
<1>5. Isbn10To13(s) = i
  BY DEF Isbn10To13
<1>6. N \in Nat /\ N + 1 = 13 /\ N = 12
  OBVIOUS
<1> HIDE DEF c, d, i, D, N
<1>7. /\ i \in Seq(D) /\ Len(i) = N + 1 /\ DOMAIN i = 1 .. N + 1 /\ i[N + 1] = d
      /\ \A k \in 1 .. N : i[k] = c[k]
  <2>1. N \in Nat
    BY <1>6
  <2> QED
    BY <1>2, <1>4, <2>1, AppendTo DEF i
<1>8. \A k \in 1 .. Len(i) : i[k] \in D
  BY <1>7, DigitsOf
<1>9. /\ Len(i) = 13 /\ DOMAIN i = 1 .. 13 /\ i[13] = d /\ \A k \in 1 .. 12 : i[k] = c[k]
      /\ \A k \in 1 .. 13 : i[k] \in D
  BY <1>6, <1>7, <1>8, Zenon
<1>10. Valid13(i)
  BY <1>4, <1>9, AppendDigit DEF D
<1>11. \A k \in 1 .. 9 : s[k] = i[k + 3]
  <2>1. \A k \in 1 .. 9 : k + 3 \in 1 .. 12
    OBVIOUS
  <2> QED
    BY <1>3, <1>9, <2>1
<1> QED
  BY <1>1, <1>5, <1>7, <1>10, <1>11 DEF D

LEMMA Wider ==
  ASSUME NEW S, NEW T, NEW t \in Seq(S), ToSet(t) \subseteq T
  PROVE  t \in Seq(T)
<1>1. \A k \in 1 .. Len(t) : t[k] \in T
  BY DEF ToSet
<1> QED
  BY <1>1

LEMMA WiderType ==
  ASSUME NEW S, NEW T, S \subseteq T, NEW t \in Seq(S)
  PROVE  t \in Seq(T)
OBVIOUS

(* A sound ISBN-13 with the digits of the string s.                        *)
SpelledBy(s, i) ==
  /\ i \in Seq(0 .. 10) /\ Valid13(i)
  /\ s = i \/ (Len(s) = 10 /\ \A j \in 1 .. 9 : s[j] = i[j + 3])

LEMMA Isbn13Facts ==
  ASSUME NEW s \in Seq(0 .. 11), ~IsbnRaises(s)
  PROVE  Isbn13(s) = <<>> \/ SpelledBy(s, Isbn13(s))
<1>1. CASE Valid13(s)
  <2>1. \A k \in 1 .. Len(s) : s[k] \in 0 .. 10
    BY <1>1 DEF Valid13
  <2> DEFINE D == 0 .. 10
             E == 0 .. 11
  <2>2. s \in Seq(E) /\ \A k \in 1 .. Len(s) : s[k] \in D
    BY <2>1
  <2> HIDE DEF D, E
  <2>3. s \in Seq(D)
    BY <2>2
  <2>4. Isbn13(s) = s
    BY <1>1 DEF Isbn13
  <2> QED
    BY <1>1, <2>3, <2>4 DEF SpelledBy, D
<1>2. CASE ~Valid13(s) /\ Valid10(s)
  <2> DEFINE i == Isbn10To13(s)
  <2>1. i \in Seq(0 .. 9) /\ Valid13(i) /\ Len(s) = 10 /\ \A k \in 1 .. 9 : s[k] = i[k + 3]
    BY <1>2, Isbn10Facts
  <2>2. Isbn13(s) = i
    BY <1>2 DEF Isbn13
  <2> HIDE DEF i
  <2>3. i \in Seq(0 .. 10)
    <3>1. 0 .. 9 \subseteq 0 .. 10
      OBVIOUS
    <3> QED
      BY <2>1, <3>1, WiderType
  <2> QED
    BY <2>1, <2>2, <2>3 DEF SpelledBy
<1>3. CASE ~Valid13(s) /\ ~Valid10(s)
  BY <1>3 DEF Isbn13
<1> QED
  BY <1>1, <1>2, <1>3

(* The ISBNs a record may have from the line w.                            *)
GoodIsbns(w) == {i \in Seq(0 .. 10) : Valid13(i) /\ Spells(w, i)}

LEMMA IsbnListFacts ==
  ASSUME NEW w, w.isbns \in Seq(Seq(0 .. 11)), \A k \in DOMAIN w.isbns : ~IsbnRaises(w.isbns[k])
  PROVE  IsbnList(w.isbns) \in Seq(GoodIsbns(w)) /\ Once(IsbnList(w.isbns))
<1> DEFINE ss == w.isbns
           G == GoodIsbns(w)
           T == G \cup {<<>>}
           t == [k \in 1 .. Len(ss) |-> Isbn13(ss[k])]
           u == Distinct(t, {<<>>})
<1>1. ASSUME NEW k \in 1 .. Len(ss) PROVE Isbn13(ss[k]) \in T
  <2>1. ss[k] \in Seq(0 .. 11) /\ ~IsbnRaises(ss[k]) /\ k \in DOMAIN w.isbns
    BY SMT
  <2>2. Isbn13(ss[k]) = <<>> \/ SpelledBy(ss[k], Isbn13(ss[k]))
    BY <2>1, Isbn13Facts
  <2>3. SpelledBy(ss[k], Isbn13(ss[k])) => Isbn13(ss[k]) \in G
    BY <2>1 DEF SpelledBy, GoodIsbns, Spells
  <2> QED
    BY <2>2, <2>3
<1>2. t \in Seq(T)
  <2>1. Len(ss) \in Nat
    OBVIOUS
  <2> HIDE DEF T
  <2> QED
    BY <1>1, <2>1
<1>3. u \in Seq(T) /\ Once(u) /\ ToSet(u) = ToSet(t) \ {<<>>}
  <2> HIDE DEF T, t
  <2> QED
    BY <1>2, DistinctFacts
<1>4. ToSet(t) \subseteq T
  <2> HIDE DEF T, t
  <2> QED
    BY <1>2 DEF ToSet
<1>5. ToSet(u) \subseteq G
  BY <1>3, <1>4
<1>6. u \in Seq(G)
  <2> HIDE DEF T, G, u
  <2> QED
    BY <1>3, <1>5, Wider
<1>7. u = IsbnList(w.isbns)
  BY DEF IsbnList
<1> HIDE DEF u
<1> QED
  BY <1>3, <1>6, <1>7

(* The records a line may be imported as.                                  *)
Sourced(w) ==
  {r \in Record :
     /\ r.book \in About(w) /\ Kept(w)
     /\ r.isbn \in Seq(GoodIsbns(w)) /\ Once(r.isbn)}

LEMMA BareRecord ==
  ASSUME NEW w, IsRaw(w), NEW b \in Books
  PROVE  Bare(w, b) \in Record /\ Bare(w, b).book = b /\ Bare(w, b).isbn = <<>>
<1>1. w.authors \in SUBSET Nat /\ w.ts \in Nat /\ w.title \in Nat
  BY DEF IsRaw
<1>2. <<>> \in Seq(Seq(0 .. 10))
  OBVIOUS
<1> QED
  BY <1>1, <1>2 DEF Bare, Record

LEMMA WithIsbns ==
  ASSUME NEW w, NEW i \in Seq(GoodIsbns(w)), NEW r \in Record
  PROVE  [r EXCEPT !.isbn = i] \in Record
<1>1. i \in Seq(Seq(0 .. 10))
  <2>1. GoodIsbns(w) \subseteq Seq(0 .. 10)
    BY DEF GoodIsbns
  <2> QED
    BY <2>1, WiderType
<1> QED
  BY <1>1 DEF Record

LEMMA NoIsbns == ASSUME NEW S PROVE <<>> \in Seq(S) /\ Once(<<>>)
BY DEF Once

LEMMA OneRecord == ASSUME NEW S, NEW r \in S PROVE <<r>> \in Seq(S)
OBVIOUS

LEMMA RawFacts ==
  ASSUME NEW w, IsRaw(w)
  PROVE  /\ w.coll \in Collections /\ w.title \in Nat /\ w.path \in Nat /\ w.series \in Nat
         /\ w.removed \in BOOLEAN /\ w.isbns \in Seq(Seq(0 .. 11))
         /\ w.files \in Seq(Ids \cup {None})
         /\ ~Nameless(w) /\ w.coll # "ia2" =>
              /\ w.id \in Ids /\ w.id \in Books /\ w.id \in About(w)
              /\ Synthetic(w) \in Books /\ Synthetic(w) \in About(w)
<1>1. ASSUME ~Nameless(w), w.coll # "ia2" PROVE w.id \in Ids
  BY <1>1 DEF IsRaw, Nameless
<1>2. w.coll \in Collections
  BY DEF IsRaw
<1>3. ASSUME w.id \in Ids PROVE w.id \in Books /\ Synthetic(w) \in Books
  BY <1>2, <1>3 DEF Books, Synthetic
<1>4. ASSUME w.coll # "ia2" PROVE w.id \in About(w) /\ Synthetic(w) \in About(w)
  BY <1>4 DEF About
<1> QED
  BY <1>1, <1>2, <1>3, <1>4 DEF IsRaw

LEMMA Zlib3Facts ==
  ASSUME NEW w, IsRaw(w), ~Nameless(w), w.coll = "zlib3",
         \A k \in DOMAIN w.isbns : ~IsbnRaises(w.isbns[k])
  PROVE  Zlib3(w) \in Seq(Sourced(w))
<1> DEFINE i == IsbnList(w.isbns)
           x == [Bare(w, w.id) EXCEPT !.isbn = i]
           r == [Bare(w, w.id) EXCEPT !.isbn = i, !.series = w.series, !.deleted = w.removed]
<1>1. /\ w.id \in Books /\ w.id \in About(w) /\ w.series \in Nat
      /\ w.removed \in BOOLEAN /\ w.isbns \in Seq(Seq(0 .. 11))
  BY RawFacts, Zenon
<1>2. i \in Seq(GoodIsbns(w)) /\ Once(i)
  BY <1>1, IsbnListFacts
<1>3. Kept(w)
  BY DEF Kept
<1>4. Zlib3(w) = <<r>>
  BY DEF Zlib3
<1>5. r \in Record /\ r.book = w.id /\ r.isbn = i
  <2>1. Bare(w, w.id) \in Record /\ Bare(w, w.id).book = w.id
    BY <1>1, BareRecord
  <2> HIDE DEF i
  <2>2. x \in Record
    BY <1>2, <2>1, WithIsbns
  <2> QED
    BY <1>1, <2>1, <2>2 DEF Record
<1>6. r \in Sourced(w)
  <2> HIDE DEF i, r
  <2> QED
    BY <1>1, <1>2, <1>3, <1>5 DEF Sourced
<1> HIDE DEF r
<1> QED
  BY <1>4, <1>6, OneRecord

LEMMA Ia2Facts ==
  ASSUME NEW w, IsRaw(w), w.coll = "ia2",
         ~NotTexts(w) => \A k \in DOMAIN w.isbns : ~IsbnRaises(w.isbns[k])
  PROVE  Ia2(w) \in Seq(Sourced(w))
<1>1. CASE NotTexts(w)
  BY <1>1 DEF Ia2
<1>2. CASE ~NotTexts(w)
  <2> DEFINE i == IsbnList(w.isbns)
             m == Md5s(w)
             r(b) == [Bare(w, b) EXCEPT !.isbn = i, !.series = w.series]
  <2>1. /\ w.series \in Nat /\ w.isbns \in Seq(Seq(0 .. 11))
        /\ w.files \in Seq(Ids \cup {None})
    BY RawFacts, Zenon
  <2>2. i \in Seq(GoodIsbns(w)) /\ Once(i)
    BY <1>2, <2>1, IsbnListFacts
  <2>3. Kept(w)
    BY <1>2 DEF Kept, NotTexts
  <2>4. m \in Seq(Ids \cup {None}) /\ ToSet(m) = ToSet(w.files) \ {None}
    BY <2>1, DistinctFacts DEF Md5s
  <2>5. Ia2(w) = [k \in DOMAIN m |-> r(m[k])]
    BY <1>2 DEF Ia2, FileRecord
  <2>6. ASSUME NEW b \in ToSet(m) PROVE r(b) \in Sourced(w)
    <3>1. b \in Ids
      <4>1. ToSet(w.files) \subseteq Ids \cup {None}
        <5> HIDE DEF m
        <5> QED
          BY <2>1 DEF ToSet
      <4> HIDE DEF m
      <4> QED
        BY <2>4, <2>6, <4>1
    <3>2. b \in Books /\ b \in About(w)
      <4> HIDE DEF m
      <4> QED
        BY <2>4, <2>6, <3>1 DEF Books, About
    <3>3. r(b) \in Record /\ r(b).book = b /\ r(b).isbn = i
      <4>1. Bare(w, b) \in Record /\ Bare(w, b).book = b
        BY <3>2, BareRecord
      <4> DEFINE x == [Bare(w, b) EXCEPT !.isbn = i]
      <4> HIDE DEF i, m
      <4>2. x \in Record
        BY <2>2, <4>1, WithIsbns
      <4> QED
        BY <2>1, <4>1, <4>2 DEF Record
    <3> HIDE DEF i, m, r
    <3> QED
      BY <2>2, <2>3, <3>2, <3>3 DEF Sourced
  <2> HIDE DEF m, r
  <2>7. Len(m) \in Nat /\ DOMAIN m = 1 .. Len(m) /\ \A k \in 1 .. Len(m) : m[k] \in ToSet(m)
    BY <2>4 DEF ToSet
  <2> QED
    BY <2>5, <2>6, <2>7
<1> QED
  BY <1>1, <1>2

LEMMA UploadFacts ==
  ASSUME NEW w, IsRaw(w), ~Nameless(w), w.coll = "upload"
  PROVE  Upload(w, Blocked) \in Seq(Sourced(w))
<1>1. CASE Unwanted(w, Blocked)
  BY <1>1 DEF Upload
<1>2. CASE ~Unwanted(w, Blocked)
  <2> DEFINE r == [Bare(w, w.id) EXCEPT !.title = IF @ = 0 THEN w.path ELSE @,
                                        !.deleted = w.removed]
  <2>1. /\ w.id \in Books /\ w.id \in About(w) /\ w.title \in Nat /\ w.path \in Nat
        /\ w.removed \in BOOLEAN
    BY RawFacts, Zenon
  <2>2. Kept(w)
    BY <1>2 DEF Kept, Unwanted
  <2>3. Upload(w, Blocked) = <<r>>
    BY <1>2 DEF Upload
  <2>4. r \in Record /\ r.book = w.id /\ r.isbn = <<>>
    <3>1. Bare(w, w.id) \in Record /\ Bare(w, w.id).book = w.id /\ Bare(w, w.id).isbn = <<>>
      BY <2>1, BareRecord
    <3> QED
      BY <2>1, <3>1 DEF Record
  <2> HIDE DEF r
  <2>5. r \in Sourced(w)
    BY <2>1, <2>2, <2>4, NoIsbns DEF Sourced
  <2> QED
    BY <2>3, <2>5, OneRecord
<1> QED
  BY <1>1, <1>2

(* Goodreads and Google Books.                                             *)
LEMMA EnrichmentFacts ==
  ASSUME NEW w, IsRaw(w), ~Nameless(w), w.coll # "ia2", Kept(w),
         \A k \in DOMAIN w.isbns : ~IsbnRaises(w.isbns[k])
  PROVE  <<[Bare(w, Synthetic(w)) EXCEPT !.isbn = IsbnList(w.isbns)]>> \in Seq(Sourced(w))
<1> DEFINE i == IsbnList(w.isbns)
           r == [Bare(w, Synthetic(w)) EXCEPT !.isbn = i]
<1>1. Synthetic(w) \in Books /\ Synthetic(w) \in About(w) /\ w.isbns \in Seq(Seq(0 .. 11))
  BY RawFacts, Zenon
<1>2. i \in Seq(GoodIsbns(w)) /\ Once(i)
  BY <1>1, IsbnListFacts
<1>3. r \in Record /\ r.book = Synthetic(w) /\ r.isbn = i
  <2>1. Bare(w, Synthetic(w)) \in Record /\ Bare(w, Synthetic(w)).book = Synthetic(w)
    BY <1>1, BareRecord
  <2> HIDE DEF i
  <2>2. r \in Record
    BY <1>2, <2>1, WithIsbns
  <2> QED
    BY <2>1, <2>2 DEF Record
<1>4. r \in Sourced(w)
  <2> HIDE DEF i, r
  <2> QED
    BY <1>1, <1>2, <1>3 DEF Sourced
<1>5. <<r>> \in Seq(Sourced(w))
  <2> HIDE DEF r
  <2> QED
    BY <1>4, OneRecord
<1> QED
  BY <1>5

LEMMA LibbyFacts ==
  ASSUME NEW w, IsRaw(w), ~Nameless(w), w.coll = "libby"
  PROVE  Libby(w) \in Seq(Sourced(w))
<1> DEFINE r == Bare(w, Synthetic(w))
<1>1. CASE w.kind \in LibbyTypes \cup {None}
  <2>1. Synthetic(w) \in Books /\ Synthetic(w) \in About(w)
    BY RawFacts, Zenon
  <2>2. Kept(w)
    BY <1>1 DEF Kept
  <2>3. r \in Sourced(w)
    BY <2>1, <2>2, BareRecord, NoIsbns DEF Sourced
  <2>4. Libby(w) = <<r>>
    BY <1>1 DEF Libby
  <2> HIDE DEF r
  <2> QED
    BY <2>3, <2>4, OneRecord
<1>2. CASE w.kind \notin LibbyTypes \cup {None}
  BY <1>2 DEF Libby
<1> QED
  BY <1>1, <1>2

LEMMA ParseFacts ==
  ASSUME NEW w, IsRaw(w), ~ParseRaises(w, Blocked)
  PROVE  Parse(w, Blocked) \in Seq(Sourced(w))
<1>1. CASE Nameless(w)
  BY <1>1 DEF Parse
<1>2. CASE ~Nameless(w)
  <2>1. ReadsIsbns(w) => \A k \in DOMAIN w.isbns : ~IsbnRaises(w.isbns[k])
    BY <1>2 DEF ParseRaises
  <2>2. Parse(w, Blocked) = ParseNamed(w, Blocked)
    BY <1>2 DEF Parse
  <2>3. CASE w.coll = "zlib3"
    BY <1>2, <2>1, <2>2, <2>3, Zlib3Facts DEF ParseNamed, ReadsIsbns
  <2>4. CASE w.coll = "ia2"
    BY <1>2, <2>1, <2>2, <2>4, Ia2Facts DEF ParseNamed, ReadsIsbns
  <2>5. CASE w.coll = "upload"
    BY <1>2, <2>2, <2>5, UploadFacts DEF ParseNamed
  <2>6. CASE w.coll = "goodreads"
    <3>1. Kept(w)
      BY <2>6 DEF Kept
    <3> QED
      BY <1>2, <2>1, <2>2, <2>6, <3>1, EnrichmentFacts DEF ParseNamed, ReadsIsbns, Goodreads
  <2>7. CASE w.coll = "gbooks"
    <3>1. CASE NotABook(w)
      BY <2>2, <2>7, <3>1 DEF ParseNamed, Gbooks
    <3>2. CASE ~NotABook(w)
      <4>1. Kept(w)
        BY <2>7, <3>2 DEF Kept, NotABook
      <4> QED
        BY <1>2, <2>1, <2>2, <2>7, <3>2, <4>1, EnrichmentFacts DEF ParseNamed, ReadsIsbns, Gbooks
    <3> QED
      BY <3>1, <3>2
  <2>8. CASE w.coll = "libby"
    BY <1>2, <2>2, <2>8, LibbyFacts DEF ParseNamed
  <2>9. w.coll \in Collections
    BY RawFacts, Zenon
  <2> QED
    BY <2>3, <2>4, <2>5, <2>6, <2>7, <2>8, <2>9 DEF Collections
<1> QED
  BY <1>1, <1>2

-----------------------------------------------------------------------------
(* The dict of process_batch                                               *)

IsFold(f, s, m) ==
  f = [n \in 0 .. m |-> IF n = 0 THEN Empty ELSE Put(f[n - 1], s[n])]

LEMMA FoldExists ==
  ASSUME NEW s, NEW N \in Nat
  PROVE  \E f : IsFold(f, s, N)
<1> DEFINE S == {m \in 0 .. N : \E f : IsFold(f, s, m)}
<1>1. 0 \in S
  <2>1. IsFold([n \in 0 .. 0 |-> Empty], s, 0)
    BY DEF IsFold
  <2> QED
    BY <2>1
<1>2. ASSUME NEW m \in 1 .. N, m - 1 \in S PROVE m \in S
  <2>1. PICK f : IsFold(f, s, m - 1)
    BY <1>2
  <2> DEFINE g == [n \in 0 .. m |-> IF n = m THEN Put(f[m - 1], s[m]) ELSE f[n]]
  <2>2. \A n \in 0 .. m - 1 : g[n] = f[n]
    OBVIOUS
  <2>3. \A n \in 0 .. m : g[n] = IF n = 0 THEN Empty ELSE Put(g[n - 1], s[n])
    <3>1. ASSUME NEW n \in 0 .. m - 1
          PROVE  g[n] = IF n = 0 THEN Empty ELSE Put(g[n - 1], s[n])
      <4>1. f[n] = IF n = 0 THEN Empty ELSE Put(f[n - 1], s[n])
        BY <2>1, Zenon DEF IsFold
      <4>2. n # 0 => n - 1 \in 0 .. m - 1
        OBVIOUS
      <4> HIDE DEF g
      <4> QED
        BY <2>2, <4>1, <4>2
    <3>2. g[m] = Put(g[m - 1], s[m]) /\ m # 0
      BY <2>2
    <3>3. \A n \in 0 .. m : n \in 0 .. m - 1 \/ n = m
      OBVIOUS
    <3> HIDE DEF g
    <3> QED
      BY <3>1, <3>2, <3>3
  <2>4. IsFold(g, s, m)
    <3> DEFINE h == [n \in 0 .. m |-> IF n = 0 THEN Empty ELSE Put(g[n - 1], s[n])]
    <3>1. DOMAIN g = 0 .. m /\ g = [n \in 0 .. m |-> g[n]]
      OBVIOUS
    <3> HIDE DEF g
    <3>2. [n \in 0 .. m |-> g[n]] = h
      BY <2>3
    <3> QED
      BY <3>1, <3>2, Zenon DEF IsFold
  <2>5. m \in 0 .. N
    OBVIOUS
  <2> HIDE DEF g
  <2> QED
    BY <2>4, <2>5
<1> HIDE DEF S
<1>3. N \in S
  BY <1>1, <1>2, Induction
<1> QED
  BY <1>3 DEF S

LEMMA FoldingIs ==
  ASSUME NEW s, Len(s) \in Nat
  PROVE  IsFold(Folding(s), s, Len(s))
<1> DEFINE f == CHOOSE f : IsFold(f, s, Len(s))
<1>1. IsFold(f, s, Len(s))
  BY FoldExists, Zenon
<1>2. Folding(s) = f
  BY DEF Folding, IsFold
<1> HIDE DEF f
<1> QED
  BY <1>1, <1>2

(* What the entry e of a book says of the set own of records folded into it *)
(* (the rules of merge_records that do not depend on their order).          *)
Sums(own, e) ==
  /\ e \in Row /\ Once(e.isbn)
  /\ \A r \in own : Quality(r) <= e.score
  /\ \E r \in own : Quality(r) = e.score
  /\ e.series # 0 <=> \E r \in own : r.series # 0
  /\ e.ts # 0 <=> \E r \in own : r.ts # 0
  /\ \A i \in ToSet(e.isbn) : \E r \in own : i \in ToSet(r.isbn)

LEMMA QualityType == ASSUME NEW r PROVE Quality(r) \in Nat
BY DEF Quality, Weight

LEMMA EntrySums ==
  ASSUME NEW r \in Record, Once(r.isbn)
  PROVE  Sums({r}, Entry(r))
<1>1. Entry(r) \in Row
  BY QualityType DEF Entry, Record, Row
<1>2. /\ Entry(r).isbn = r.isbn /\ Entry(r).score = Quality(r)
      /\ Entry(r).series = r.series /\ Entry(r).ts = r.ts
  BY DEF Entry
<1> QED
  BY <1>1, <1>2, QualityType DEF Sums

LEMMA JoinedTo ==
  ASSUME NEW T, NEW s \in Seq(T), NEW t \in Seq(T)
  PROVE  s \o t \in Seq(T) /\ ToSet(s \o t) = ToSet(s) \cup ToSet(t)
<1>1. /\ s \o t \in Seq(T) /\ Len(s \o t) = Len(s) + Len(t) /\ Len(s) \in Nat /\ Len(t) \in Nat
      /\ \A k \in 1 .. Len(s) : (s \o t)[k] = s[k]
      /\ \A k \in 1 .. Len(t) : (s \o t)[k + Len(s)] = t[k]
  OBVIOUS
<1> DEFINE u == s \o t
<1>2. \A k \in 1 .. Len(u) : k \in 1 .. Len(s) \/ (k - Len(s) \in 1 .. Len(t) /\ k = (k - Len(s)) + Len(s))
  BY <1>1
<1>3. DOMAIN u = 1 .. Len(u) /\ DOMAIN s = 1 .. Len(s) /\ DOMAIN t = 1 .. Len(t)
  BY <1>1
<1> HIDE DEF u
<1>4. ToSet(u) \subseteq ToSet(s) \cup ToSet(t)
  <2> SUFFICES ASSUME NEW k \in 1 .. Len(u)
               PROVE  u[k] \in ToSet(s) \cup ToSet(t)
    BY <1>3 DEF ToSet
  <2>1. CASE k \in 1 .. Len(s)
    BY <1>1, <1>3, <2>1 DEF ToSet, u
  <2>2. CASE k - Len(s) \in 1 .. Len(t) /\ k = (k - Len(s)) + Len(s)
    BY <1>1, <1>3, <2>2 DEF ToSet, u
  <2> QED
    BY <1>2, <2>1, <2>2
<1>5. ToSet(s) \subseteq ToSet(u)
  <2>1. \A k \in 1 .. Len(s) : k \in 1 .. Len(u) /\ u[k] = s[k]
    BY <1>1 DEF u
  <2> QED
    BY <1>3, <2>1 DEF ToSet
<1>6. ToSet(t) \subseteq ToSet(u)
  <2>1. \A k \in 1 .. Len(t) : k + Len(s) \in 1 .. Len(u) /\ u[k + Len(s)] = t[k]
    BY <1>1 DEF u
  <2> QED
    BY <1>3, <2>1 DEF ToSet
<1> QED
  BY <1>1, <1>4, <1>5, <1>6 DEF u

LEMMA MergeIsbns ==
  ASSUME NEW e \in Row, NEW r \in Record
  PROVE  /\ Merge(e, r).isbn \in Seq(Seq(0 .. 10)) /\ Once(Merge(e, r).isbn)
         /\ ToSet(Merge(e, r).isbn) = ToSet(e.isbn) \cup ToSet(r.isbn)
         /\ e.isbn # <<>> => Merge(e, r).isbn # <<>> /\ Merge(e, r).isbn[1] = e.isbn[1]
<1> DEFINE T == Seq(0 .. 10)
           c == e.isbn \o r.isbn
           u == Distinct(c, {})
<1>1. e.isbn \in Seq(T) /\ r.isbn \in Seq(T)
  BY DEF Row, Record
<1>2. Merge(e, r).isbn = u
  BY DEF Merge
<1> HIDE DEF T
<1>3. c \in Seq(T) /\ ToSet(c) = ToSet(e.isbn) \cup ToSet(r.isbn)
  BY <1>1, JoinedTo
<1>4. e.isbn # <<>> => c # <<>> /\ c[1] = e.isbn[1]
  <2> DEFINE i == e.isbn
             j == r.isbn
  <2>1. i \in Seq(T) /\ j \in Seq(T)
    BY <1>1
  <2> HIDE DEF i, j
  <2>2. i # <<>> => i \o j # <<>> /\ (i \o j)[1] = i[1]
    BY <2>1
  <2> QED
    BY <2>2 DEF i, j
<1> HIDE DEF c
<1>5. /\ u \in Seq(T) /\ Once(u) /\ ToSet(u) = ToSet(c) \ {}
      /\ c # <<>> /\ c[1] \notin {} => u # <<>> /\ u[1] = c[1]
  BY <1>3, DistinctFacts
<1> HIDE DEF u
<1> QED
  BY <1>2, <1>3, <1>4, <1>5 DEF T

LEMMA MergeType ==
  ASSUME NEW e \in Row, NEW r \in Record
  PROVE  Merge(e, r) \in Row
<1>1. /\ e.title \in Nat /\ r.title \in Nat /\ e.series \in Nat /\ r.series \in Nat
      /\ e.ts \in Nat /\ r.ts \in Nat /\ e.score \in Nat /\ Quality(r) \in Nat
      /\ e.authors \in SUBSET Nat /\ r.authors \in SUBSET Nat
  BY QualityType DEF Row, Record
<1>2. Prefer(e.title, r.title, e, r) \in Nat /\ Prefer(e.series, r.series, e, r) \in Nat
  BY <1>1 DEF Prefer
<1>3. Larger(e.ts, r.ts) \in Nat /\ Larger(e.score, Quality(r)) \in Nat
  BY <1>1 DEF Larger
<1>4. e.authors \cup r.authors \in SUBSET Nat
  BY <1>1
<1>5. StaysDeleted(e, r) \in BOOLEAN
  BY DEF StaysDeleted
<1>6. Distinct(e.isbn \o r.isbn, {}) \in Seq(Seq(0 .. 10))
  BY MergeIsbns DEF Merge
<1> QED
  BY <1>2, <1>3, <1>4, <1>5, <1>6 DEF Merge, Row

LEMMA MergeSums ==
  ASSUME NEW own, NEW e, Sums(own, e), NEW r \in Record
  PROVE  Sums(own \cup {r}, Merge(e, r))
<1> DEFINE m == Merge(e, r)
<1>1. e \in Row
  BY DEF Sums
<1>2. Once(m.isbn) /\ ToSet(m.isbn) = ToSet(e.isbn) \cup ToSet(r.isbn)
  BY <1>1, MergeIsbns
<1>3. /\ m.series = Prefer(e.series, r.series, e, r)
      /\ m.ts = Larger(e.ts, r.ts) /\ m.score = Larger(e.score, Quality(r))
  BY DEF Merge
<1>4. /\ e.score \in Nat /\ e.series \in Nat /\ e.ts \in Nat
      /\ r.series \in Nat /\ r.ts \in Nat /\ Quality(r) \in Nat
  BY QualityType DEF Sums, Row, Record
<1>5. m \in Row
  BY <1>1, MergeType
<1> HIDE DEF m
<1>6. \A q \in own \cup {r} : Quality(q) <= m.score
  BY <1>3, <1>4, QualityType DEF Sums, Larger
<1>7. \E q \in own \cup {r} : Quality(q) = m.score
  BY <1>3, <1>4 DEF Sums, Larger
<1>8. m.series # 0 <=> \E q \in own \cup {r} : q.series # 0
  BY <1>3, <1>4 DEF Sums, Prefer
<1>9. m.ts # 0 <=> \E q \in own \cup {r} : q.ts # 0
  BY <1>3, <1>4 DEF Sums, Larger
<1>10. \A j \in ToSet(m.isbn) : \E q \in own \cup {r} : j \in ToSet(q.isbn)
  BY <1>2 DEF Sums
<1>11. Sums(own \cup {r}, m)
  BY <1>2, <1>5, <1>6, <1>7, <1>8, <1>9, <1>10 DEF Sums
<1> QED
  BY <1>11 DEF m

(* Records with no ISBN twice, as the adapters make them.                  *)
Sound == {r \in Record : Once(r.isbn)}

(* The dict d of a batch holds an entry for each book of its records.      *)
FoldSums(own, d) ==
  /\ DOMAIN d = {r.book : r \in own}
  /\ \A b \in DOMAIN d : Sums({r \in own : r.book = b}, d[b])

LEMMA PutSums ==
  ASSUME NEW own, NEW d, FoldSums(own, d), NEW r \in Sound
  PROVE  FoldSums(own \cup {r}, Put(d, r))
<1> DEFINE new == own \cup {r}
           e == Put(d, r)
<1>1. DOMAIN e = {q.book : q \in new}
  BY DEF FoldSums, Put
<1>2. ASSUME NEW b \in DOMAIN e PROVE Sums({q \in new : q.book = b}, e[b])
  <2>1. CASE b # r.book
    <3>1. e[b] = d[b] /\ b \in DOMAIN d
      BY <1>2, <2>1 DEF Put
    <3>2. {q \in new : q.book = b} = {q \in own : q.book = b}
      BY <2>1
    <3> QED
      BY <3>1, <3>2 DEF FoldSums
  <2>2. CASE b = r.book /\ b \in DOMAIN d
    <3>1. e[b] = Merge(d[b], r)
      BY <2>2 DEF Put
    <3>2. {q \in new : q.book = b} = {q \in own : q.book = b} \cup {r}
      BY <2>2
    <3>3. Sums({q \in own : q.book = b}, d[b])
      BY <2>2 DEF FoldSums
    <3>4. r \in Record
      BY DEF Sound
    <3> HIDE DEF e, new
    <3> QED
      BY <3>1, <3>2, <3>3, <3>4, MergeSums
  <2>3. CASE b = r.book /\ b \notin DOMAIN d
    <3>1. e[b] = Entry(r)
      BY <2>3 DEF Put
    <3>2. {q \in new : q.book = b} = {r}
      BY <2>3 DEF FoldSums
    <3>3. r \in Record /\ Once(r.isbn)
      BY DEF Sound
    <3> HIDE DEF e, new
    <3> QED
      BY <3>1, <3>2, <3>3, EntrySums
  <2> QED
    BY <2>1, <2>2, <2>3
<1> HIDE DEF e, new
<1>3. FoldSums(new, e)
  BY <1>1, <1>2 DEF FoldSums
<1> QED
  BY <1>3 DEF e, new

LEMMA FoldedSums ==
  ASSUME NEW s \in Seq(Sound)
  PROVE  FoldSums(ToSet(s), Folded(s))
<1> DEFINE f == Folding(s)
           own(n) == {s[k] : k \in 1 .. n}
           S == {n \in 0 .. Len(s) : FoldSums(own(n), f[n])}
<1>1. Len(s) \in Nat
  OBVIOUS
<1>2. IsFold(f, s, Len(s))
  BY <1>1, FoldingIs
<1> HIDE DEF f
<1>3. 0 \in S
  <2>1. f[0] = Empty
    BY <1>1, <1>2 DEF IsFold
  <2>2. FoldSums({}, Empty)
    BY DEF FoldSums, Empty
  <2>3. own(0) = {} /\ 0 \in 0 .. Len(s)
    BY <1>1
  <2> QED
    BY <2>1, <2>2, <2>3
<1>4. ASSUME NEW n \in 1 .. Len(s), n - 1 \in S PROVE n \in S
  <2>1. f[n] = Put(f[n - 1], s[n])
    BY <1>1, <1>2 DEF IsFold
  <2>2. s[n] \in Sound /\ own(n) = own(n - 1) \cup {s[n]}
    OBVIOUS
  <2>3. FoldSums(own(n - 1), f[n - 1])
    BY <1>4
  <2> HIDE DEF own
  <2>4. FoldSums(own(n), f[n])
    BY <2>1, <2>2, <2>3, PutSums
  <2> QED
    BY <1>1, <2>4
<1>5. Len(s) \in S
  <2> HIDE DEF S
  <2>1. Len(s) \in 0 .. Len(s)
    BY <1>1
  <2> QED
    BY <1>1, <1>3, <1>4, <2>1, Induction
<1>6. own(Len(s)) = ToSet(s)
  BY DEF ToSet
<1> HIDE DEF own
<1> QED
  BY <1>5, <1>6 DEF Folded, f

-----------------------------------------------------------------------------
(* Catalogues that differ only in what some records explain                *)

(* A row nothing was written to: a new entry replaces all of it.           *)
NoRow ==
  [title |-> 0, authors |-> {}, isbn |-> <<>>, series |-> 0, ts |-> 0,
   deleted |-> FALSE, score |-> -1]

Stored(cat, b) == IF b \in DOMAIN cat THEN cat[b] ELSE NoRow

IsTable(cat) ==
  /\ DOMAIN cat \subseteq Books /\ \A b \in DOMAIN cat : cat[b] \in Row
  /\ cat = [b \in DOMAIN cat |-> cat[b]]

Of(own, b) == {r \in own : r.book = b}

(* The row e is the row o, but for the columns a record in own may have    *)
(* written to it.                                                          *)
Explained(e, o, own) ==
  /\ own # {} \/ (e.title = o.title /\ e.authors = o.authors
                    /\ e.isbn = o.isbn /\ e.deleted = o.deleted)
  /\ e.series = o.series \/ \E r \in own : r.series # 0
  /\ e.ts = o.ts \/ \E r \in own : r.ts # 0
  /\ o.score <= e.score
  /\ e.score = o.score \/ \E r \in own : Quality(r) = e.score

Agrees(cat, less, own) ==
  /\ DOMAIN less \subseteq DOMAIN cat
  /\ \A b \in DOMAIN cat : Explained(cat[b], Stored(less, b), Of(own, b))

LEMMA StoredType ==
  ASSUME NEW cat, IsTable(cat), NEW b
  PROVE  LET e == Stored(cat, b) IN
         /\ e.title \in Nat /\ e.series \in Nat /\ e.ts \in Nat /\ e.score \in Int
         /\ e.deleted \in BOOLEAN
         /\ b \in DOMAIN cat => e = cat[b] /\ e \in Row
         /\ b \notin DOMAIN cat => e.score = -1
<1>1. CASE b \in DOMAIN cat
  BY <1>1 DEF Stored, IsTable, Row
<1>2. CASE b \notin DOMAIN cat
  BY <1>2 DEF Stored, NoRow
<1> QED
  BY <1>1, <1>2

LEMMA SameRow ==
  ASSUME NEW e \in Row, NEW o \in Row,
         e.title = o.title, e.authors = o.authors, e.isbn = o.isbn, e.series = o.series,
         e.ts = o.ts, e.deleted = o.deleted, e.score = o.score
  PROVE  e = o
BY DEF Row

LEMMA AgreesWithNone ==
  ASSUME NEW cat, IsTable(cat), NEW less, IsTable(less), Agrees(cat, less, {})
  PROVE  cat = less
<1>1. ASSUME NEW b \in DOMAIN cat PROVE b \in DOMAIN less /\ cat[b] = less[b]
  <2> DEFINE o == Stored(less, b)
  <2>1. Explained(cat[b], o, {}) /\ cat[b] \in Row
    BY DEF Agrees, Of, IsTable
  <2>2. /\ b \in DOMAIN less => o = less[b] /\ o \in Row
        /\ b \notin DOMAIN less => o.score = -1
    BY StoredType
  <2> HIDE DEF o
  <2>3. cat[b].score = o.score /\ cat[b].score \in Nat
    BY <2>1 DEF Explained, Row
  <2>4. b \in DOMAIN less
    BY <2>2, <2>3
  <2>5. cat[b] = o
    BY <2>1, <2>2, <2>4, SameRow DEF Explained
  <2> QED
    BY <2>2, <2>4, <2>5
<1>2. DOMAIN cat = DOMAIN less
  BY <1>1 DEF Agrees
<1> QED
  BY <1>1, <1>2 DEF IsTable

LEMMA AgreesWithMore ==
  ASSUME NEW cat, NEW less, NEW own, NEW more, Agrees(cat, less, own), own \subseteq more
  PROVE  Agrees(cat, less, more)
<1>1. ASSUME NEW b \in DOMAIN cat PROVE Explained(cat[b], Stored(less, b), Of(more, b))
  <2>1. Of(own, b) \subseteq Of(more, b)
    BY DEF Of
  <2>2. Explained(cat[b], Stored(less, b), Of(own, b))
    BY DEF Agrees
  <2> QED
    BY <2>1, <2>2 DEF Explained
<1> QED
  BY <1>1 DEF Agrees

(* The row x is what the entry f makes of the row o.                       *)
Upserted(x, o, f) ==
  /\ x.title = f.title /\ x.authors = f.authors /\ x.isbn = f.isbn /\ x.deleted = f.deleted
  /\ x.series = IF f.series # 0 THEN f.series ELSE o.series
  /\ x.ts = IF f.ts # 0 THEN f.ts ELSE o.ts
  /\ x.score = Larger(o.score, f.score)

LEMMA UpsertFacts ==
  ASSUME NEW o \in Row, NEW f \in Row
  PROVE  Upsert(o, f) \in Row /\ Upserted(Upsert(o, f), o, f)
BY DEF Row, Upsert, Upserted, Larger

LEMMA WrittenFacts ==
  ASSUME NEW cat, IsTable(cat), NEW s \in Seq(Sound)
  PROVE  /\ IsTable(Written(cat, s))
         /\ DOMAIN Written(cat, s) = DOMAIN cat \cup {r.book : r \in ToSet(s)}
         /\ \A b \in DOMAIN cat :
              Of(ToSet(s), b) = {} => Written(cat, s)[b] = cat[b]
         /\ \A b : Of(ToSet(s), b) # {} =>
              /\ Sums(Of(ToSet(s), b), Folded(s)[b])
              /\ Upserted(Written(cat, s)[b], Stored(cat, b), Folded(s)[b])
<1> DEFINE new == Folded(s)
           x == Written(cat, s)
           own == ToSet(s)
<1>1. FoldSums(own, new)
  BY FoldedSums
<1>2. own \subseteq Sound
  BY DEF ToSet
<1> HIDE DEF own
<1>3. /\ x = [b \in DOMAIN cat \cup DOMAIN new |->
               IF b \notin DOMAIN new THEN cat[b]
               ELSE IF b \in DOMAIN cat THEN Upsert(cat[b], new[b])
               ELSE new[b]]
      /\ DOMAIN x = DOMAIN cat \cup DOMAIN new
  BY DEF Written
<1> HIDE DEF new, x
<1>4. DOMAIN new = {r.book : r \in own} /\ \A b \in DOMAIN new : Sums(Of(own, b), new[b])
  BY <1>1 DEF FoldSums, Of
<1>5. \A b : b \in DOMAIN new <=> Of(own, b) # {}
  BY <1>4 DEF Of
<1>6. ASSUME NEW b \in DOMAIN new
      PROVE  Upserted(x[b], Stored(cat, b), new[b]) /\ x[b] \in Row
  <2>1. new[b] \in Row
    BY <1>4 DEF Sums
  <2>2. CASE b \in DOMAIN cat
    <3>1. x[b] = Upsert(cat[b], new[b]) /\ Stored(cat, b) = cat[b] /\ cat[b] \in Row
      BY <1>3, <2>2 DEF IsTable, Stored
    <3> QED
      BY <2>1, <3>1, UpsertFacts
  <2>3. CASE b \notin DOMAIN cat
    <3>1. x[b] = new[b] /\ Stored(cat, b) = NoRow
      BY <1>3, <2>3 DEF Stored
    <3> QED
      BY <2>1, <3>1 DEF Upserted, NoRow, Row, Larger
  <2> QED
    BY <2>2, <2>3
<1>7. \A b \in DOMAIN cat : b \notin DOMAIN new => x[b] = cat[b]
  BY <1>3
<1>8. IsTable(x)
  <2>1. DOMAIN new \subseteq Books
    BY <1>2, <1>4 DEF Sound, Record
  <2>2. \A b \in DOMAIN x : x[b] \in Row
    BY <1>3, <1>6, <1>7 DEF IsTable
  <2>3. x = [b \in DOMAIN x |-> x[b]]
    BY <1>3
  <2> QED
    BY <1>3, <2>1, <2>2, <2>3 DEF IsTable
<1>9. \A b \in DOMAIN cat : Of(own, b) = {} => x[b] = cat[b]
  BY <1>5, <1>7
<1>10. \A b : Of(own, b) # {} =>
         Sums(Of(own, b), new[b]) /\ Upserted(x[b], Stored(cat, b), new[b])
  BY <1>4, <1>5, <1>6
<1> QED
  BY <1>3, <1>4, <1>8, <1>9, <1>10 DEF x, own, new

(* A row and what a batch makes of it.                                     *)
LEMMA WrittenOnce ==
  ASSUME NEW e, NEW o, NEW own, NEW part, part \subseteq own, Explained(e, o, own),
         e.score \in Int, o.score \in Int,
         NEW f, Sums(part, f), NEW x, Upserted(x, e, f)
  PROVE  Explained(x, o, own)
<1>1. own # {}
  BY DEF Sums
<1>2. x.series = o.series \/ \E r \in own : r.series # 0
  BY DEF Explained, Sums, Upserted
<1>3. x.ts = o.ts \/ \E r \in own : r.ts # 0
  BY DEF Explained, Sums, Upserted
<1>4. f.score \in Nat
  BY DEF Sums, Row
<1>5. o.score <= x.score
  BY <1>4 DEF Explained, Upserted, Larger
<1>6. x.score = o.score \/ \E r \in own : Quality(r) = x.score
  <2>1. \E r \in own : Quality(r) = f.score
    BY DEF Sums
  <2>2. e.score = o.score \/ \E r \in own : Quality(r) = e.score
    BY DEF Explained
  <2>3. x.score = e.score \/ x.score = f.score
    BY DEF Upserted, Larger
  <2> QED
    BY <2>1, <2>2, <2>3
<1> QED
  BY <1>1, <1>2, <1>3, <1>5, <1>6 DEF Explained

(* Two rows and what the same batch makes of both: its records explain     *)
(* nothing any more.                                                       *)
LEMMA WrittenTwice ==
  ASSUME NEW e, NEW o, NEW own, NEW part, Explained(e, o, own \cup part),
         e.score \in Int, o.score \in Int,
         NEW f, Sums(part, f), NEW x, Upserted(x, e, f), NEW y, Upserted(y, o, f)
  PROVE  Explained(x, y, own)
<1>1. x.title = y.title /\ x.authors = y.authors /\ x.isbn = y.isbn /\ x.deleted = y.deleted
  BY DEF Upserted
<1>2. x.series = y.series \/ \E r \in own : r.series # 0
  BY DEF Explained, Sums, Upserted
<1>3. x.ts = y.ts \/ \E r \in own : r.ts # 0
  BY DEF Explained, Sums, Upserted
<1>4. f.score \in Nat
  BY DEF Sums, Row
<1>5. x.score = Larger(e.score, f.score) /\ y.score = Larger(o.score, f.score)
  BY DEF Upserted
<1>6. y.score <= x.score
  BY <1>4, <1>5 DEF Explained, Larger
<1>7. x.score = y.score \/ \E r \in own : Quality(r) = x.score
  <2>1. CASE e.score = o.score
    BY <1>5, <2>1
  <2>2. CASE e.score <= f.score
    <3>1. o.score <= f.score
      BY <1>4, <2>2 DEF Explained
    <3> QED
      BY <1>4, <1>5, <2>2, <3>1 DEF Larger
  <2>3. CASE e.score # o.score /\ ~(e.score <= f.score)
    <3>1. x.score = e.score
      BY <1>4, <1>5, <2>3 DEF Larger
    <3>2. PICK r \in own \cup part : Quality(r) = e.score
      BY <2>3 DEF Explained
    <3>3. r \notin part
      BY <2>3, <3>2 DEF Sums
    <3> QED
      BY <3>1, <3>2, <3>3
  <2> QED
    BY <2>1, <2>2, <2>3
<1> QED
  BY <1>1, <1>2, <1>3, <1>6, <1>7 DEF Explained

LEMMA StoredExplained ==
  ASSUME NEW cat, NEW less, NEW own, Agrees(cat, less, own), NEW b
  PROVE  Explained(Stored(cat, b), Stored(less, b), Of(own, b))
<1>1. CASE b \in DOMAIN cat
  BY <1>1 DEF Agrees, Stored
<1>2. CASE b \notin DOMAIN cat
  <2>1. Stored(cat, b) = NoRow /\ Stored(less, b) = NoRow
    BY <1>2 DEF Agrees, Stored
  <2>2. NoRow.score <= NoRow.score
    BY DEF NoRow
  <2> QED
    BY <2>1, <2>2 DEF Explained
<1> QED
  BY <1>1, <1>2

(* A batch that is written to the one catalogue only.                      *)
LEMMA AgreesAfterBatch ==
  ASSUME NEW cat, IsTable(cat), NEW less, IsTable(less), NEW s \in Seq(Sound),
         NEW own, ToSet(s) \subseteq own, Agrees(cat, less, own)
  PROVE  Agrees(Written(cat, s), less, own)
<1> DEFINE x == Written(cat, s)
           part == ToSet(s)
<1>1. /\ DOMAIN x = DOMAIN cat \cup {r.book : r \in part}
      /\ \A b \in DOMAIN cat : Of(part, b) = {} => x[b] = cat[b]
      /\ \A b : Of(part, b) # {} =>
           Sums(Of(part, b), Folded(s)[b]) /\ Upserted(x[b], Stored(cat, b), Folded(s)[b])
  BY WrittenFacts
<1> HIDE DEF x, part
<1>2. ASSUME NEW b \in DOMAIN x PROVE Explained(x[b], Stored(less, b), Of(own, b))
  <2>1. CASE Of(part, b) = {}
    <3>1. b \in DOMAIN cat
      BY <1>1, <2>1 DEF Of
    <3> QED
      BY <1>1, <2>1, <3>1 DEF Agrees
  <2>2. CASE Of(part, b) # {}
    <3>1. Sums(Of(part, b), Folded(s)[b]) /\ Upserted(x[b], Stored(cat, b), Folded(s)[b])
      BY <1>1, <2>2
    <3>2. Of(part, b) \subseteq Of(own, b)
      BY DEF Of, part
    <3>3. Stored(cat, b).score \in Int /\ Stored(less, b).score \in Int
      BY StoredType, Zenon
    <3>4. Explained(Stored(cat, b), Stored(less, b), Of(own, b))
      BY StoredExplained
    <3> QED
      BY <3>1, <3>2, <3>3, <3>4, WrittenOnce
  <2> QED
    BY <2>1, <2>2
<1>3. DOMAIN less \subseteq DOMAIN x
  BY <1>1 DEF Agrees
<1>4. Agrees(x, less, own)
  BY <1>2, <1>3 DEF Agrees
<1> QED
  BY <1>4 DEF x

(* A batch that is written to both.                                        *)
LEMMA AgreesAfterBoth ==
  ASSUME NEW cat, IsTable(cat), NEW less, IsTable(less), NEW s \in Seq(Sound),
         NEW own, Agrees(cat, less, own \cup ToSet(s))
  PROVE  Agrees(Written(cat, s), Written(less, s), own)
<1> DEFINE x == Written(cat, s)
           y == Written(less, s)
           part == ToSet(s)
<1>1. /\ DOMAIN x = DOMAIN cat \cup {r.book : r \in part}
      /\ \A b \in DOMAIN cat : Of(part, b) = {} => x[b] = cat[b]
      /\ \A b : Of(part, b) # {} =>
           Sums(Of(part, b), Folded(s)[b]) /\ Upserted(x[b], Stored(cat, b), Folded(s)[b])
  BY WrittenFacts
<1>2. /\ DOMAIN y = DOMAIN less \cup {r.book : r \in part}
      /\ \A b \in DOMAIN less : Of(part, b) = {} => y[b] = less[b]
      /\ \A b : Of(part, b) # {} => Upserted(y[b], Stored(less, b), Folded(s)[b])
  BY WrittenFacts
<1> HIDE DEF x, y, part
<1>3. ASSUME NEW b \in DOMAIN x PROVE Explained(x[b], Stored(y, b), Of(own, b))
  <2>1. Explained(Stored(cat, b), Stored(less, b), Of(own \cup part, b))
    BY StoredExplained DEF part
  <2>2. Of(own \cup part, b) = Of(own, b) \cup Of(part, b)
    BY DEF Of
  <2>3. CASE Of(part, b) = {}
    <3>1. b \in DOMAIN cat /\ x[b] = cat[b] /\ Stored(cat, b) = cat[b]
      BY <1>1, <2>3 DEF Of, Stored
    <3>2. Stored(y, b) = Stored(less, b)
      BY <1>2, <2>3 DEF Of, Stored
    <3> QED
      BY <2>1, <2>2, <2>3, <3>1, <3>2
  <2>4. CASE Of(part, b) # {}
    <3>1. Stored(y, b) = y[b]
      BY <1>2, <2>4 DEF Of, Stored
    <3>2. Stored(cat, b).score \in Int /\ Stored(less, b).score \in Int
      BY StoredType, Zenon
    <3>3. /\ Sums(Of(part, b), Folded(s)[b])
          /\ Upserted(x[b], Stored(cat, b), Folded(s)[b])
          /\ Upserted(y[b], Stored(less, b), Folded(s)[b])
      BY <1>1, <1>2, <2>4
    <3>4. Explained(Stored(cat, b), Stored(less, b), Of(own, b) \cup Of(part, b))
      BY <2>1, <2>2
    <3>5. Explained(x[b], y[b], Of(own, b))
      BY <3>2, <3>3, <3>4, WrittenTwice
    <3> QED
      BY <3>1, <3>5
  <2> QED
    BY <2>3, <2>4
<1>4. DOMAIN y \subseteq DOMAIN x
  BY <1>1, <1>2 DEF Agrees
<1>5. Agrees(x, y, own)
  BY <1>3, <1>4 DEF Agrees
<1> QED
  BY <1>5 DEF x, y

-----------------------------------------------------------------------------
(* The inductive invariant                                                 *)

(* The records an import makes of a line, of the lines after the first n   *)
(* of a payload, and of all lines of some payloads.                        *)
RecordsOf(l) ==
  IF l.kind = "sound" /\ ~ParseRaises(l.raw, Blocked) THEN ToSet(Parse(l.raw, Blocked)) ELSE {}
After(p, n) == UNION {RecordsOf(p[k]) : k \in n + 1 .. Len(p)}
Debt(some) == UNION {After(p, 0) : p \in some}

(* Records that some line of a payload may be imported as.                 *)
Ascribed == {r \in Sound : \E w \in Lines : r \in Sourced(w)}

(* A row as such records leave it.                                         *)
RowSound(b, e) ==
  /\ Once(e.isbn)
  /\ \A i \in ToSet(e.isbn) : Valid13(i) /\ \E w \in Lines : b \in About(w) /\ Spells(w, i)
  /\ \E w \in Lines : b \in About(w) /\ Kept(w)

Counters ==
  /\ pos \in 0 .. Len(payload) /\ seen \in Nat /\ failed \in Nat /\ flushed \in Nat
  /\ failed <= seen /\ seen <= pos
  /\ seen - flushed \in 0 .. BatchSize

Import ==
  /\ pending \subseteq Payloads
  /\ batch \in Seq(Ascribed)
  /\ Reading => payload \in pending /\ ToSet(batch) \subseteq After(payload, 0)
  /\ ~Reading => payload = <<>> /\ batch = <<>>

Tables ==
  /\ IsTable(rows) /\ IsTable(clean) /\ IsTable(shadow)
  /\ \A b \in DOMAIN rows : RowSound(b, rows[b])

(* What the payloads begun and not completed left behind explains every    *)
(* difference between the catalogue and the one of the complete imports;   *)
(* that of all but the current one and what it has yet to write explain    *)
(* those to the catalogue its completion will make.                        *)
Explanation ==
  /\ Agrees(rows, clean, Debt(pending))
  /\ Reading =>
       Agrees(rows, shadow, Debt(pending \ {payload}) \cup ToSet(batch) \cup After(payload, pos))

Inv == Counters /\ Import /\ Tables /\ Explanation

LEMMA PayloadFacts ==
  ASSUME NEW p \in Payloads
  PROVE  /\ Len(p) \in Nat /\ DOMAIN p = 1 .. Len(p)
         /\ \A k \in 1 .. Len(p) :
              p[k].kind = "sound" => IsRaw(p[k].raw) /\ p[k].raw \in Lines
<1>1. p \in Seq(ToSet(p)) /\ \A k \in DOMAIN p : IsLine(p[k])
  BY CatalogueAssumption DEF IsPayload
<1>2. Len(p) \in Nat /\ DOMAIN p = 1 .. Len(p)
  <2> DEFINE T == ToSet(p)
  <2> HIDE DEF T
  <2>1. p \in Seq(T)
    BY <1>1 DEF T
  <2> QED
    BY <2>1
<1>3. ASSUME NEW k \in 1 .. Len(p), p[k].kind = "sound"
      PROVE  IsRaw(p[k].raw) /\ p[k].raw \in Lines
  <2>1. IsRaw(p[k].raw)
    BY <1>1, <1>2, <1>3 DEF IsLine
  <2>2. p[k].raw \in {p[j].raw : j \in {j \in DOMAIN p : p[j].kind = "sound"}}
    BY <1>2, <1>3
  <2> QED
    BY <2>1, <2>2 DEF Lines
<1> QED
  BY <1>2, <1>3

LEMMA LineFacts ==
  ASSUME NEW p \in Payloads, NEW k \in 1 .. Len(p),
         p[k].kind = "sound", ~ParseRaises(p[k].raw, Blocked)
  PROVE  Parse(p[k].raw, Blocked) \in Seq(Ascribed)
<1> DEFINE w == p[k].raw
<1>1. IsRaw(w) /\ w \in Lines
  BY PayloadFacts
<1> HIDE DEF w
<1>2. Parse(w, Blocked) \in Seq(Sourced(w))
  BY <1>1, ParseFacts DEF w
<1>3. Sourced(w) \subseteq Ascribed
  BY <1>1 DEF Sourced, Ascribed, Sound
<1>4. Parse(w, Blocked) \in Seq(Ascribed)
  BY <1>2, <1>3, WiderType
<1> QED
  BY <1>4 DEF w

(* The lines after the first n: the next one, and those after it.          *)
LEMMA AfterFacts ==
  ASSUME NEW p \in Payloads, NEW n \in 0 .. Len(p)
  PROVE  /\ After(p, n) \subseteq After(p, 0)
         /\ n # Len(p) => After(p, n) = RecordsOf(p[n + 1]) \cup After(p, n + 1)
         /\ n = Len(p) => After(p, n) = {}
<1>1. Len(p) \in Nat
  BY PayloadFacts
<1>2. n + 1 .. Len(p) \subseteq 0 + 1 .. Len(p)
  BY <1>1
<1>3. n # Len(p) => n + 1 .. Len(p) = {n + 1} \cup (n + 1 + 1 .. Len(p))
  BY <1>1
<1>4. n = Len(p) => n + 1 .. Len(p) = {}
  BY <1>1
<1>5. After(p, n) \subseteq After(p, 0)
  BY <1>2 DEF After
<1>6. n # Len(p) => After(p, n) = RecordsOf(p[n + 1]) \cup After(p, n + 1)
  BY <1>3 DEF After
<1>7. n = Len(p) => After(p, n) = {}
  BY <1>4 DEF After
<1> QED
  BY <1>5, <1>6, <1>7

LEMMA DebtFacts ==
  ASSUME NEW some, NEW p
  PROVE  /\ Debt(some \cup {p}) = Debt(some) \cup After(p, 0)
         /\ Debt(some \ {p}) \subseteq Debt(some)
         /\ Debt(some) \subseteq Debt(some \ {p}) \cup After(p, 0)
         /\ Debt({}) = {}
         /\ p \in some => After(p, 0) \subseteq Debt(some)
BY DEF Debt

LEMMA CountersInit == Init => Counters
<1> SUFFICES ASSUME Init PROVE Counters
  OBVIOUS
<1>1. Len(payload) = 0 /\ BatchSize \in Nat
  BY CatalogueAssumption DEF Init
<1> QED
  BY <1>1 DEF Init, Counters

LEMMA CountersNext == Counters /\ [Next]_vars => Counters'
<1> SUFFICES ASSUME Counters, [Next]_vars PROVE Counters'
  OBVIOUS
<1> USE CatalogueAssumption
<1>1. ASSUME NEW how, Leave(how) PROVE Counters'
  <2>1. Len(payload') = 0 /\ pos' = 0 /\ seen' = 0 /\ failed' = 0 /\ flushed' = 0
    BY <1>1 DEF Leave
  <2> QED
    BY <2>1 DEF Counters
<1>2. ASSUME NEW n \in Names, NEW how, SetFilter(n, how) PROVE Counters'
  BY <1>2 DEF SetFilter, Counters
<1>3. ASSUME NEW p \in Payloads, NEW part, Begin(p, part) PROVE Counters'
  <2>1. Len(p) \in Nat
    BY PayloadFacts
  <2> QED
    BY <1>3, <2>1 DEF Begin, Counters
<1>4. CASE ReadSound
  BY <1>4 DEF ReadSound, Counters, FlushDue
<1>5. CASE ReadBroken
  BY <1>5 DEF ReadBroken, Counters, FlushDue
<1>6. CASE SkipFrame
  BY <1>6 DEF SkipFrame, Counters
<1>7. CASE FrameError
  BY <1>1, <1>7 DEF FrameError
<1>8. CASE Flush
  BY <1>8 DEF Flush, Counters
<1>9. CASE Abort
  BY <1>1, <1>9 DEF Abort
<1>10. CASE Complete
  BY <1>1, <1>10 DEF Complete
<1>11. CASE Interrupt
  BY <1>1, <1>11 DEF Interrupt
<1>12. CASE FlushRaises
  BY <1>1, <1>12 DEF FlushRaises
<1>13. CASE Crash
  BY <1>1, <1>13 DEF Crash
<1>14. CASE UNCHANGED vars
  BY <1>14 DEF vars, Counters
<1> QED
  BY <1>2, <1>3, <1>4, <1>5, <1>6, <1>7, <1>8, <1>9, <1>10, <1>11, <1>12, <1>13, <1>14 DEF Next

(* What a sound line adds to the batch, and takes from what is to come.    *)
LEMMA ReadSoundFacts ==
  ASSUME Counters, Import, ReadSound
  PROVE  /\ batch' \in Seq(Ascribed)
         /\ ToSet(batch') \cup After(payload, pos') = ToSet(batch) \cup After(payload, pos)
         /\ After(payload, pos) \subseteq After(payload, 0)
<1> DEFINE l == payload[pos + 1]
           new == Parse(l.raw, Blocked)
<1>1. payload \in Payloads /\ pos \in 0 .. Len(payload) /\ pos # Len(payload)
      /\ pos + 1 \in 1 .. Len(payload)
  <2>1. payload \in Payloads
    BY DEF ReadSound, Import
  <2>2. Len(payload) \in Nat
    BY <2>1, PayloadFacts
  <2> QED
    BY <2>1, <2>2 DEF ReadSound, Counters
<1>2. l.kind = "sound" /\ ~ParseRaises(l.raw, Blocked) /\ batch' = batch \o new /\ pos' = pos + 1
  BY DEF ReadSound, Breaks, AdapterFilters
<1>3. new \in Seq(Ascribed)
  BY <1>1, <1>2, LineFacts
<1>4. RecordsOf(l) = ToSet(new)
  BY <1>2 DEF RecordsOf
<1>5. /\ After(payload, pos) = RecordsOf(l) \cup After(payload, pos + 1)
      /\ After(payload, pos) \subseteq After(payload, 0)
  BY <1>1, AfterFacts
<1> HIDE DEF new, l
<1>6. batch' \in Seq(Ascribed) /\ ToSet(batch') = ToSet(batch) \cup ToSet(new)
  <2>1. batch \in Seq(Ascribed)
    BY DEF Import
  <2> QED
    BY <1>2, <1>3, <2>1, JoinedTo
<1> QED
  BY <1>2, <1>4, <1>5, <1>6

(* A line that adds nothing.                                               *)
LEMMA PassedFacts ==
  ASSUME Counters, Import, ReadBroken \/ SkipFrame
  PROVE  After(payload, pos') = After(payload, pos)
<1>1. payload \in Payloads /\ pos \in 0 .. Len(payload) /\ pos # Len(payload)
  BY DEF ReadBroken, SkipFrame, Import, Counters
<1>2. RecordsOf(payload[pos + 1]) = {}
  BY DEF ReadBroken, SkipFrame, Breaks, AdapterFilters, RecordsOf
<1>3. pos' = pos + 1
  BY DEF ReadBroken, SkipFrame
<1>4. After(payload, pos) = RecordsOf(payload[pos + 1]) \cup After(payload, pos + 1)
  BY <1>1, AfterFacts
<1> QED
  BY <1>2, <1>3, <1>4

LEMMA NoRecords == ToSet(<<>>) = {} /\ <<>> \in Seq(Ascribed)
BY DEF ToSet

LEMMA ImportInit == Init => Import
BY NoRecords DEF Init, Import, Reading

LEMMA ImportNext == Counters /\ Import /\ [Next]_vars => Import'
<1> SUFFICES ASSUME Counters, Import, [Next]_vars PROVE Import'
  OBVIOUS
<1>1. ASSUME NEW how, how # "reading", Leave(how), pending' \subseteq pending PROVE Import'
  <2>1. payload' = <<>> /\ batch' = <<>> /\ ~Reading'
    BY <1>1 DEF Leave, Reading
  <2> QED
    BY <1>1, <2>1, NoRecords DEF Import
<1>2. ASSUME NEW n \in Names, NEW how, SetFilter(n, how) PROVE Import'
  BY <1>2 DEF SetFilter, Import, Reading, history
<1>3. ASSUME NEW p \in Payloads, NEW part, Begin(p, part) PROVE Import'
  <2>1. /\ pending' = pending \cup {p} /\ payload' = p /\ batch' = <<>> /\ Reading'
    BY <1>3 DEF Begin, Reading
  <2> QED
    BY <2>1, NoRecords DEF Import
<1>4. CASE ReadSound
  <2>1. /\ batch' \in Seq(Ascribed)
        /\ ToSet(batch') \cup After(payload, pos') = ToSet(batch) \cup After(payload, pos)
        /\ After(payload, pos) \subseteq After(payload, 0)
    BY <1>4, ReadSoundFacts
  <2>2. Reading /\ Reading' /\ payload' = payload /\ pending' = pending
    BY <1>4 DEF ReadSound, Reading, history
  <2> QED
    BY <2>1, <2>2 DEF Import
<1>5. CASE ReadBroken
  BY <1>5 DEF ReadBroken, Import, Reading, history
<1>6. CASE SkipFrame
  BY <1>6 DEF SkipFrame, Import, Reading, history
<1>7. CASE FrameError
  BY <1>1, <1>7 DEF FrameError
<1>8. CASE Flush
  <2>1. batch' = <<>> /\ Reading /\ Reading' /\ payload' = payload /\ pending' = pending
    BY <1>8 DEF Flush, Reading
  <2> QED
    BY <2>1, NoRecords DEF Import
<1>9. CASE Abort
  BY <1>1, <1>9 DEF Abort
<1>10. CASE Complete
  BY <1>1, <1>10 DEF Complete
<1>11. CASE Interrupt
  BY <1>1, <1>11 DEF Interrupt
<1>12. CASE FlushRaises
  BY <1>1, <1>12 DEF FlushRaises
<1>13. CASE Crash
  BY <1>1, <1>13 DEF Crash
<1>14. CASE UNCHANGED vars
  BY <1>14 DEF vars, history, Import, Reading
<1> QED
  BY <1>2, <1>3, <1>4, <1>5, <1>6, <1>7, <1>8, <1>9, <1>10, <1>11, <1>12, <1>13, <1>14 DEF Next

LEMMA AscribedSound == ASSUME NEW s \in Seq(Ascribed) PROVE s \in Seq(Sound)
<1>1. Ascribed \subseteq Sound
  BY DEF Ascribed
<1> QED
  BY <1>1, WiderType

(* The entries of a batch are sound rows.                                  *)
LEMMA SumsSound ==
  ASSUME NEW own, own \subseteq Ascribed, NEW b, \A r \in own : r.book = b,
         NEW f, Sums(own, f), NEW x, x.isbn = f.isbn
  PROVE  RowSound(b, x)
<1>1. ASSUME NEW r \in own, NEW i \in ToSet(r.isbn)
      PROVE  Valid13(i) /\ \E w \in Lines : b \in About(w) /\ Spells(w, i)
  <2>1. PICK w \in Lines : r \in Sourced(w)
    BY DEF Ascribed
  <2>2. r.isbn \in Seq(GoodIsbns(w)) /\ b \in About(w)
    BY <2>1 DEF Sourced
  <2>3. i \in GoodIsbns(w)
    BY <1>1, <2>2 DEF ToSet
  <2> QED
    BY <2>1, <2>2, <2>3 DEF GoodIsbns
<1>2. \E w \in Lines : b \in About(w) /\ Kept(w)
  <2>1. PICK r \in own : TRUE
    BY DEF Sums
  <2>2. PICK w \in Lines : r \in Sourced(w)
    BY DEF Ascribed
  <2> QED
    BY <2>2 DEF Sourced
<1>3. Once(x.isbn) /\ \A i \in ToSet(x.isbn) : \E r \in own : i \in ToSet(r.isbn)
  BY DEF Sums
<1> QED
  BY <1>1, <1>2, <1>3 DEF RowSound

LEMMA RowsWritten ==
  ASSUME NEW cat, IsTable(cat), \A b \in DOMAIN cat : RowSound(b, cat[b]),
         NEW s \in Seq(Ascribed)
  PROVE  \A b \in DOMAIN Written(cat, s) : RowSound(b, Written(cat, s)[b])
<1> DEFINE x == Written(cat, s)
           part == ToSet(s)
<1>1. /\ DOMAIN x = DOMAIN cat \cup {r.book : r \in part}
      /\ \A b \in DOMAIN cat : Of(part, b) = {} => x[b] = cat[b]
      /\ \A b : Of(part, b) # {} =>
           Sums(Of(part, b), Folded(s)[b]) /\ Upserted(x[b], Stored(cat, b), Folded(s)[b])
  BY AscribedSound, WrittenFacts
<1>2. part \subseteq Ascribed
  BY DEF ToSet
<1> HIDE DEF x, part
<1>3. ASSUME NEW b \in DOMAIN x PROVE RowSound(b, x[b])
  <2>1. CASE Of(part, b) = {}
    <3>1. b \in DOMAIN cat /\ x[b] = cat[b]
      BY <1>1, <2>1 DEF Of
    <3> QED
      BY <3>1
  <2>2. CASE Of(part, b) # {}
    <3>1. Sums(Of(part, b), Folded(s)[b]) /\ x[b].isbn = Folded(s)[b].isbn
      BY <1>1, <2>2 DEF Upserted
    <3>2. Of(part, b) \subseteq Ascribed /\ \A r \in Of(part, b) : r.book = b
      BY <1>2 DEF Of
    <3> QED
      BY <3>1, <3>2, SumsSound
  <2> QED
    BY <2>1, <2>2
<1> QED
  BY <1>3 DEF x

LEMMA EmptyTable == IsTable(Empty) /\ DOMAIN Empty = {}
BY DEF IsTable, Empty

LEMMA TablesInit == Init => Tables
BY EmptyTable DEF Init, Tables

LEMMA TablesNext == Import /\ Tables /\ [Next]_vars => Tables'
<1> SUFFICES ASSUME Import, Tables, [Next]_vars PROVE Tables'
  OBVIOUS
<1>1. ASSUME Write PROVE IsTable(rows') /\ \A b \in DOMAIN rows' : RowSound(b, rows'[b])
  <2> DEFINE x == Written(rows, batch)
  <2>1. batch \in Seq(Ascribed) /\ batch \in Seq(Sound)
    BY AscribedSound DEF Import
  <2>2. IsTable(rows) /\ \A b \in DOMAIN rows : RowSound(b, rows[b])
    BY DEF Tables
  <2>3. IsTable(x) /\ \A b \in DOMAIN x : RowSound(b, x[b])
    BY <2>1, <2>2, WrittenFacts, RowsWritten
  <2>4. rows' = x
    BY <1>1 DEF Write
  <2> HIDE DEF x
  <2> QED
    BY <2>3, <2>4
<1>2. IsTable(Written(shadow, batch))
  <2>1. batch \in Seq(Sound) /\ IsTable(shadow)
    BY AscribedSound DEF Import, Tables
  <2> QED
    BY <2>1, WrittenFacts
<1>3. ASSUME rows' = rows \/ Write,
             clean' = clean \/ clean' = Written(shadow, batch),
             shadow' \in {shadow, clean, Empty, Written(shadow, batch)}
      PROVE  Tables'
  <2>1. IsTable(rows') /\ \A b \in DOMAIN rows' : RowSound(b, rows'[b])
    BY <1>1, <1>3 DEF Tables
  <2>2. IsTable(clean') /\ IsTable(shadow')
    BY <1>2, <1>3, EmptyTable DEF Tables
  <2> QED
    BY <2>1, <2>2 DEF Tables, RowSound
<1>4. ASSUME NEW n \in Names, NEW how, SetFilter(n, how) PROVE Tables'
  BY <1>3, <1>4 DEF SetFilter, history
<1>5. ASSUME NEW p \in Payloads, NEW part, Begin(p, part) PROVE Tables'
  BY <1>3, <1>5 DEF Begin
<1>6. CASE ReadSound
  BY <1>3, <1>6 DEF ReadSound, history
<1>7. CASE ReadBroken
  BY <1>3, <1>7 DEF ReadBroken, history
<1>8. CASE SkipFrame
  BY <1>3, <1>8 DEF SkipFrame, history
<1>9. CASE FrameError
  BY <1>3, <1>9 DEF FrameError
<1>10. CASE Flush
  BY <1>3, <1>10 DEF Flush
<1>11. CASE Abort
  BY <1>3, <1>11 DEF Abort
<1>12. CASE Complete
  BY <1>3, <1>12 DEF Complete
<1>13. CASE Interrupt
  BY <1>3, <1>13 DEF Interrupt
<1>14. CASE FlushRaises
  BY <1>3, <1>14 DEF FlushRaises
<1>15. CASE Crash
  BY <1>3, <1>15 DEF Crash
<1>16. CASE UNCHANGED vars
  BY <1>3, <1>16 DEF vars, history
<1> QED
  BY <1>4, <1>5, <1>6, <1>7, <1>8, <1>9, <1>10, <1>11, <1>12, <1>13, <1>14, <1>15, <1>16 DEF Next

LEMMA ExplanationInit == Init => Explanation
<1> SUFFICES ASSUME Init PROVE Explanation
  OBVIOUS
<1>1. rows = Empty /\ clean = Empty /\ ~Reading
  BY DEF Init, Reading
<1>2. Agrees(Empty, Empty, Debt(pending))
  BY EmptyTable DEF Agrees
<1> QED
  BY <1>1, <1>2 DEF Explanation

(* The rows written at the end of a batch.                                 *)
LEMMA WriteExplained ==
  ASSUME Import, Tables, Explanation, Reading, Write
  PROVE  /\ Agrees(rows', clean, Debt(pending))
         /\ Agrees(rows', Written(shadow, batch), Debt(pending \ {payload}) \cup After(payload, pos))
<1> DEFINE rest == Debt(pending \ {payload}) \cup After(payload, pos)
           owed == Debt(pending)
<1>1. rows' = Written(rows, batch) /\ batch \in Seq(Sound)
  BY AscribedSound DEF Write, Import
<1>2. IsTable(rows) /\ IsTable(clean) /\ IsTable(shadow)
  BY DEF Tables
<1>3. ToSet(batch) \subseteq owed
  BY DebtFacts DEF Import
<1>4. Agrees(rows, clean, owed)
  BY DEF Explanation
<1>5. Agrees(rows, shadow, rest \cup ToSet(batch))
  <2>1. Debt(pending \ {payload}) \cup ToSet(batch) \cup After(payload, pos)
          = rest \cup ToSet(batch)
    OBVIOUS
  <2>2. Agrees(rows, shadow, Debt(pending \ {payload}) \cup ToSet(batch) \cup After(payload, pos))
    BY DEF Explanation
  <2> HIDE DEF rest
  <2> QED
    BY <2>1, <2>2
<1> HIDE DEF rest, owed
<1>6. Agrees(rows', clean, owed)
  BY <1>1, <1>2, <1>3, <1>4, AgreesAfterBatch
<1>7. Agrees(rows', Written(shadow, batch), rest)
  BY <1>1, <1>2, <1>5, AgreesAfterBoth
<1> QED
  BY <1>6, <1>7 DEF rest, owed

LEMMA ExplanationNext ==
  Counters /\ Import /\ Tables /\ Explanation /\ [Next]_vars => Explanation'
<1> SUFFICES ASSUME Counters, Import, Tables, Explanation, [Next]_vars PROVE Explanation'
  OBVIOUS
<1>1. ASSUME NEW how, how # "reading", Leave(how),
             Reading, rows' = rows \/ Write, clean' = clean, pending' = pending
      PROVE  Explanation'
  <2>1. ~Reading'
    BY <1>1 DEF Leave, Reading
  <2>2. Agrees(rows', clean', Debt(pending'))
    BY <1>1, WriteExplained DEF Explanation
  <2> QED
    BY <2>1, <2>2 DEF Explanation
<1>2. ASSUME rows' = rows, clean' = clean, pending' = pending, shadow' = shadow,
             payload' = payload, Reading' <=> Reading,
             Reading => ToSet(batch') \cup After(payload, pos')
                          = ToSet(batch) \cup After(payload, pos)
      PROVE  Explanation'
  <2> DEFINE rest == Debt(pending \ {payload})
  <2>1. Agrees(rows', clean', Debt(pending'))
    BY <1>2 DEF Explanation
  <2>2. ASSUME Reading PROVE Agrees(rows, shadow, rest \cup ToSet(batch') \cup After(payload, pos'))
    <3>1. Agrees(rows, shadow, rest \cup ToSet(batch) \cup After(payload, pos))
      BY <2>2 DEF Explanation
    <3> HIDE DEF rest
    <3>2. rest \cup ToSet(batch') \cup After(payload, pos')
            = rest \cup ToSet(batch) \cup After(payload, pos)
      BY <1>2, <2>2
    <3> QED
      BY <3>1, <3>2
  <2> QED
    BY <1>2, <2>1, <2>2 DEF Explanation
<1>3. ASSUME NEW n \in Names, NEW how, SetFilter(n, how) PROVE Explanation'
  BY <1>2, <1>3 DEF SetFilter, history, Reading
<1>4. ASSUME NEW p \in Payloads, NEW part, Begin(p, part) PROVE Explanation'
  <2> DEFINE all == Debt(pending \cup {p})
             most == Debt((pending \cup {p}) \ {p})
  <2>1. /\ rows' = rows /\ clean' = clean /\ shadow' = clean /\ pending' = pending \cup {p}
        /\ payload' = p /\ pos' = 0 /\ batch' = <<>>
    BY <1>4 DEF Begin
  <2>2. Agrees(rows, clean, all)
    <3>1. Debt(pending) \subseteq all
      BY DEF Debt
    <3>2. Agrees(rows, clean, Debt(pending))
      BY DEF Explanation
    <3> HIDE DEF all
    <3> QED
      BY <3>1, <3>2, AgreesWithMore
  <2>3. Agrees(rows, clean, most \cup ToSet(<<>>) \cup After(p, 0))
    <3> DEFINE more == most \cup ToSet(<<>>) \cup After(p, 0)
    <3>1. all \subseteq most \cup After(p, 0)
      BY DebtFacts
    <3>2. all \subseteq more
      <4> HIDE DEF all, most
      <4> QED
        BY <3>1
    <3>3. Agrees(rows, clean, more)
      <4> HIDE DEF all, more
      <4> QED
        BY <2>2, <3>2, AgreesWithMore
    <3> QED
      BY <3>3
  <2> QED
    BY <2>1, <2>2, <2>3 DEF Explanation
<1>5. CASE ReadSound
  BY <1>2, <1>5, ReadSoundFacts DEF ReadSound, history, Reading
<1>6. CASE ReadBroken
  BY <1>2, <1>6, PassedFacts DEF ReadBroken, history, Reading
<1>7. CASE SkipFrame
  BY <1>2, <1>7, PassedFacts DEF SkipFrame, history, Reading
<1>8. CASE FrameError
  BY <1>1, <1>8 DEF FrameError
<1>9. CASE Flush
  <2>1. /\ Reading /\ Write /\ shadow' = Written(shadow, batch) /\ batch' = <<>>
        /\ payload' = payload /\ pos' = pos /\ clean' = clean /\ pending' = pending
    BY <1>9 DEF Flush
  <2> DEFINE some == Debt(pending \ {payload})
             rest == some \cup After(payload, pos)
  <2>2. Agrees(rows', clean, Debt(pending)) /\ Agrees(rows', shadow', rest)
    BY <2>1, WriteExplained
  <2>3. rest = some \cup ToSet(<<>>) \cup After(payload, pos)
    <3> HIDE DEF some
    <3> QED
      BY NoRecords
  <2> HIDE DEF rest
  <2> QED
    BY <2>1, <2>2, <2>3 DEF Explanation
<1>10. CASE Abort
  BY <1>1, <1>10 DEF Abort
<1>11. CASE Complete
  <2>1. /\ Reading /\ Write /\ clean' = Written(shadow, batch)
        /\ pending' = pending \ {payload} /\ pos = Len(payload) /\ outcome' = "completed"
    BY <1>11 DEF Complete, AtEnd, Leave
  <2> DEFINE rest == Debt(pending \ {payload})
  <2>2. Agrees(rows', clean', rest \cup After(payload, pos))
    BY <2>1, WriteExplained
  <2>3. After(payload, pos) = {}
    <3>1. payload \in Payloads /\ pos \in 0 .. Len(payload)
      BY <2>1 DEF Import, Counters
    <3> QED
      BY <2>1, <3>1, AfterFacts
  <2>4. Agrees(rows', clean', rest)
    <3>1. rest \cup After(payload, pos) = rest
      BY <2>3
    <3> HIDE DEF rest
    <3> QED
      BY <2>2, <3>1
  <2> QED
    BY <2>1, <2>4 DEF Explanation, Reading
<1>12. CASE Interrupt
  BY <1>1, <1>12 DEF Interrupt
<1>13. CASE FlushRaises
  BY <1>1, <1>13 DEF FlushRaises
<1>14. CASE Crash
  BY <1>1, <1>14 DEF Crash
<1>15. CASE UNCHANGED vars
  BY <1>2, <1>15 DEF vars, history, Reading
<1> QED
  BY <1>3, <1>4, <1>5, <1>6, <1>7, <1>8, <1>9, <1>10, <1>11, <1>12, <1>13, <1>14, <1>15 DEF Next

-----------------------------------------------------------------------------
(* The order of the records: merge_records against the rules it follows    *)

(* A newer record at j clears the removal at k.                            *)
Clears(own, k, j) == j > k /\ ~own[j].deleted /\ \A i \in 1 .. j - 1 : own[j].ts > own[i].ts

(* FoldRules for the first n records, in parts.                            *)
ArraysAfter(own, n, e) ==
  /\ ToSet(e.isbn) = UNION {ToSet(own[k].isbn) : k \in 1 .. n}
  /\ own[1].isbn # <<>> => e.isbn # <<>> /\ e.isbn[1] = own[1].isbn[1]
  /\ e.authors = UNION {own[k].authors : k \in 1 .. n}

NumbersAfter(own, n, e) ==
  /\ \E k \in 1 .. n : Quality(own[k]) = e.score
  /\ \E k \in 1 .. n : own[k].ts = e.ts
  /\ \A k \in 1 .. n : Quality(own[k]) <= e.score /\ own[k].ts <= e.ts

TitleAfter(own, n, e) ==
  /\ e.title = 0 => \A k \in 1 .. n : own[k].title = 0
  /\ e.title # 0 => \E k \in 1 .. n :
       /\ own[k].title = e.title
       /\ \A j \in 1 .. k - 1 : own[j].title # 0 => Quality(own[j]) <= Quality(own[k])

RemovalAfter(own, n, e) ==
  e.deleted <=> \E k \in 1 .. n : own[k].deleted /\ ~\E j \in 1 .. n : Clears(own, k, j)

RulesAfter(own, n, e) ==
  /\ e \in Row
  /\ ArraysAfter(own, n, e) /\ NumbersAfter(own, n, e)
  /\ TitleAfter(own, n, e) /\ RemovalAfter(own, n, e)

LEMMA RulesFirst ==
  ASSUME NEW own \in Seq(Record), own # <<>>
  PROVE  RulesAfter(own, 1, Entry(own[1]))
<1> DEFINE r == own[1]
           e == Entry(r)
<1>1. r \in Record
  OBVIOUS
<1>2. /\ e.title = r.title /\ e.authors = r.authors /\ e.isbn = r.isbn /\ e.ts = r.ts
      /\ e.deleted = r.deleted /\ e.score = Quality(r)
  BY DEF Entry
<1>3. e \in Row
  <2> HIDE DEF r
  <2> QED
    BY <1>1, QualityType DEF Entry, Record, Row
<1> HIDE DEF e
<1>4. ArraysAfter(own, 1, e)
  BY <1>2 DEF ArraysAfter
<1>5. NumbersAfter(own, 1, e)
  BY <1>1, <1>2, QualityType DEF NumbersAfter, Record
<1>6. TitleAfter(own, 1, e)
  BY <1>2 DEF TitleAfter
<1>7. RemovalAfter(own, 1, e)
  <2>1. r.deleted \in BOOLEAN
    BY <1>1 DEF Record
  <2> QED
    BY <1>2, <2>1 DEF RemovalAfter, Clears
<1> QED
  BY <1>3, <1>4, <1>5, <1>6, <1>7 DEF RulesAfter, e

LEMMA RulesNext ==
  ASSUME NEW own \in Seq(Record), NEW n \in Nat \ {0}, n + 1 \in 1 .. Len(own),
         NEW e, RulesAfter(own, n, e)
  PROVE  RulesAfter(own, n + 1, Merge(e, own[n + 1]))
<1> DEFINE r == own[n + 1]
           m == Merge(e, r)
<1>1. r \in Record /\ e \in Row
  BY DEF RulesAfter
<1>2. \A k \in 1 .. n : own[k] \in Record
  OBVIOUS
<1>3. \A k \in 1 .. n + 1 : k \in 1 .. n \/ k = n + 1
  OBVIOUS
<1>4. \A k \in 1 .. n : k \in 1 .. n + 1 /\ k # n + 1
  OBVIOUS
<1>5. n + 1 \in 1 .. n + 1 /\ 1 \in 1 .. n
  OBVIOUS
<1> HIDE DEF r
<1>6. m \in Row
  BY <1>1, MergeType
<1>7. ArraysAfter(own, n + 1, m)
  <2>1. /\ ToSet(m.isbn) = ToSet(e.isbn) \cup ToSet(r.isbn)
        /\ e.isbn # <<>> => m.isbn # <<>> /\ m.isbn[1] = e.isbn[1]
    BY <1>1, MergeIsbns
  <2>2. m.authors = e.authors \cup r.authors
    BY DEF Merge
  <2>3. ArraysAfter(own, n, e)
    BY DEF RulesAfter
  <2>4. /\ UNION {ToSet(own[k].isbn) : k \in 1 .. n + 1}
             = (UNION {ToSet(own[k].isbn) : k \in 1 .. n}) \cup ToSet(r.isbn)
        /\ UNION {own[k].authors : k \in 1 .. n + 1}
             = (UNION {own[k].authors : k \in 1 .. n}) \cup r.authors
    <3>1. 1 .. n + 1 = (1 .. n) \cup {n + 1}
      OBVIOUS
    <3> QED
      BY <3>1 DEF r
  <2> HIDE DEF m
  <2> QED
    BY <2>1, <2>2, <2>3, <2>4 DEF ArraysAfter
<1>8. NumbersAfter(own, n + 1, m)
  <2>1. m.ts = Larger(e.ts, r.ts) /\ m.score = Larger(e.score, Quality(r))
    BY DEF Merge
  <2>2. e.ts \in Nat /\ r.ts \in Nat /\ e.score \in Nat /\ Quality(r) \in Nat
    BY <1>1, QualityType DEF Row, Record
  <2>3. NumbersAfter(own, n, e)
    BY DEF RulesAfter
  <2>4. \A k \in 1 .. n : Quality(own[k]) \in Nat /\ own[k].ts \in Nat
    BY <1>2, QualityType DEF Record
  <2>5. own[n + 1] = r
    BY DEF r
  <2> HIDE DEF m
  <2>6. \A k \in 1 .. n + 1 : Quality(own[k]) <= m.score /\ own[k].ts <= m.ts
    <3> SUFFICES ASSUME NEW k \in 1 .. n + 1
                 PROVE  Quality(own[k]) <= m.score /\ own[k].ts <= m.ts
      OBVIOUS
    <3>1. CASE k = n + 1
      BY <2>1, <2>2, <2>5, <3>1 DEF Larger
    <3>2. CASE k \in 1 .. n
      <4> DEFINE q == Quality(own[k])
                 t == own[k].ts
      <4>1. q \in Nat /\ t \in Nat /\ q <= e.score /\ t <= e.ts
        BY <2>3, <2>4, <3>2 DEF NumbersAfter
      <4> HIDE DEF q, t
      <4>2. q <= m.score /\ t <= m.ts
        BY <2>1, <2>2, <4>1 DEF Larger
      <4> QED
        BY <4>2 DEF q, t
    <3> QED
      BY <1>3, <3>1, <3>2
  <2>7. \E k \in 1 .. n + 1 : Quality(own[k]) = m.score
    <3>1. m.score = e.score \/ m.score = Quality(own[n + 1])
      BY <2>1, <2>5 DEF Larger
    <3> QED
      BY <1>4, <1>5, <2>3, <3>1 DEF NumbersAfter
  <2>8. \E k \in 1 .. n + 1 : own[k].ts = m.ts
    <3>1. m.ts = e.ts \/ m.ts = own[n + 1].ts
      BY <2>1, <2>5 DEF Larger
    <3> QED
      BY <1>4, <1>5, <2>3, <3>1 DEF NumbersAfter
  <2> QED
    BY <2>6, <2>7, <2>8 DEF NumbersAfter
<1>9. TitleAfter(own, n + 1, m)
  <2>1. m.title = Prefer(e.title, r.title, e, r)
    BY DEF Merge
  <2>2. NumbersAfter(own, n, e) /\ TitleAfter(own, n, e)
    BY DEF RulesAfter
  <2>3. e.score \in Nat /\ Quality(r) \in Nat /\ \A k \in 1 .. n : Quality(own[k]) \in Nat
    BY <1>1, QualityType DEF Row
  <2> HIDE DEF m
  <2>4. CASE m.title = r.title /\ r.title # 0 /\ (e.title = 0 \/ Quality(r) >= e.score)
    <3>1. \A j \in 1 .. n : own[j].title # 0 => Quality(own[j]) <= Quality(r)
      BY <2>2, <2>3, <2>4 DEF NumbersAfter, TitleAfter
    <3>2. (n + 1) - 1 = n /\ own[n + 1] = r
      BY DEF r
    <3> QED
      BY <1>5, <2>4, <3>1, <3>2 DEF TitleAfter
  <2>5. CASE m.title = e.title /\ (r.title = 0 \/ e.title # 0)
    <3>1. e.title = 0 => \A k \in 1 .. n + 1 : own[k].title = 0
      BY <1>3, <2>2, <2>5 DEF TitleAfter, r
    <3>2. e.title # 0 => \E k \in 1 .. n + 1 :
            /\ own[k].title = e.title
            /\ \A j \in 1 .. k - 1 : own[j].title # 0 => Quality(own[j]) <= Quality(own[k])
      BY <1>4, <2>2 DEF TitleAfter
    <3> QED
      BY <2>5, <3>1, <3>2 DEF TitleAfter
  <2> QED
    BY <2>1, <2>3, <2>4, <2>5 DEF Prefer
<1>10. RemovalAfter(own, n + 1, m)
  <2>1. m.deleted = StaysDeleted(e, r)
    BY DEF Merge
  <2>2. NumbersAfter(own, n, e) /\ RemovalAfter(own, n, e)
    BY DEF RulesAfter
  <2>3. e.deleted \in BOOLEAN /\ r.deleted \in BOOLEAN /\ e.ts \in Nat /\ r.ts \in Nat
        /\ \A k \in 1 .. n : own[k].ts \in Nat
    BY <1>1, <1>2 DEF Row, Record
  <2>4. \A k \in 1 .. n : Clears(own, k, n + 1) <=> ~r.deleted /\ r.ts > e.ts
    <3>1. (\A i \in 1 .. n : r.ts > own[i].ts) <=> r.ts > e.ts
      BY <2>2, <2>3 DEF NumbersAfter
    <3>2. (n + 1) - 1 = n /\ \A k \in 1 .. n : n + 1 > k
      OBVIOUS
    <3> QED
      BY <3>1, <3>2 DEF Clears, r
  <2>5. \A j \in 1 .. n + 1 : ~Clears(own, n + 1, j)
    BY DEF Clears
  <2> DEFINE Stays(k) == own[k].deleted /\ ~\E j \in 1 .. n + 1 : Clears(own, k, j)
  <2>6. Stays(n + 1) <=> r.deleted
    BY <2>5 DEF r
  <2>7. \A k \in 1 .. n :
          Stays(k) <=> /\ own[k].deleted /\ ~\E j \in 1 .. n : Clears(own, k, j)
                       /\ ~(~r.deleted /\ r.ts > e.ts)
    BY <1>3, <1>4, <1>5, <2>4
  <2> HIDE DEF Stays
  <2>8. (\E k \in 1 .. n + 1 : Stays(k)) <=> r.deleted \/ (e.deleted /\ ~(~r.deleted /\ r.ts > e.ts))
    BY <1>3, <1>4, <1>5, <2>2, <2>6, <2>7 DEF RemovalAfter
  <2>9. m.deleted <=> \E k \in 1 .. n + 1 : Stays(k)
    BY <2>1, <2>3, <2>8 DEF StaysDeleted
  <2> HIDE DEF m
  <2> QED
    BY <2>9 DEF RemovalAfter, Stays
<1> QED
  BY <1>6, <1>7, <1>8, <1>9, <1>10 DEF RulesAfter, m, r

LEMMA FoldedRules ==
  ASSUME NEW own \in Seq(Record), own # <<>>,
         \A k \in DOMAIN own : own[k].book = own[1].book
  PROVE  RulesAfter(own, Len(own), Folded(own)[own[1].book])
<1> DEFINE f == Folding(own)
           b == own[1].book
           S == {n \in 0 .. Len(own) :
                   n # 0 => DOMAIN f[n] = {b} /\ RulesAfter(own, n, f[n][b])}
<1>1. /\ Len(own) \in Nat /\ Len(own) # 0 /\ \A k \in 1 .. Len(own) : own[k].book = b
      /\ Len(own) \in 0 .. Len(own)
  OBVIOUS
<1>2. IsFold(f, own, Len(own))
  BY <1>1, FoldingIs
<1> HIDE DEF f, b
<1>3. 0 \in S
  BY <1>1
<1>4. ASSUME NEW n \in 1 .. Len(own), n - 1 \in S PROVE n \in S
  <2>1. f[n] = Put(f[n - 1], own[n]) /\ f[0] = Empty
    BY <1>1, <1>2 DEF IsFold
  <2>2. own[n].book = b
    BY <1>1
  <2>3. CASE n = 1
    <3>1. f[n] = Put(Empty, own[1]) /\ own[1].book = b
      BY <2>1, <2>2, <2>3
    <3>2. DOMAIN f[n] = {b} /\ f[n][b] = Entry(own[1])
      BY <3>1 DEF Put, Empty
    <3>3. RulesAfter(own, n, f[n][b])
      BY <2>3, <3>2, RulesFirst
    <3> QED
      BY <3>2, <3>3
  <2>4. CASE n # 1
    <3>1. n - 1 \in Nat \ {0} /\ (n - 1) + 1 = n
      BY <2>4
    <3>2. DOMAIN f[n - 1] = {b} /\ RulesAfter(own, n - 1, f[n - 1][b])
      BY <1>4, <3>1
    <3>3. DOMAIN f[n] = {b} /\ f[n][b] = Merge(f[n - 1][b], own[n])
      BY <2>1, <2>2, <3>2 DEF Put
    <3> DEFINE m == n - 1
    <3>4. m \in Nat \ {0} /\ m + 1 = n /\ m + 1 \in 1 .. Len(own)
      BY <3>1
    <3>5. RulesAfter(own, m, f[m][b]) /\ f[n][b] = Merge(f[m][b], own[n])
      BY <3>2, <3>3
    <3> HIDE DEF m
    <3>6. RulesAfter(own, m + 1, Merge(f[m][b], own[m + 1]))
      BY <3>4, <3>5, RulesNext
    <3>7. RulesAfter(own, n, f[n][b])
      BY <3>4, <3>5, <3>6
    <3> QED
      BY <3>3, <3>7
  <2> QED
    BY <2>3, <2>4
<1> HIDE DEF S
<1>5. Len(own) \in S
  BY <1>1, <1>3, <1>4, Induction
<1> QED
  BY <1>1, <1>5 DEF S, Folded, f, b

(* The rules of docs/data-model.md and common/records.py for any number of *)
(* records of a book, in any order, with any contents: what process_batch  *)
(* folds them into is what the rules say of them together.                 *)
THEOREM MergeFollowsRules ==
  \A own \in Seq(Record) \ {<<>>} :
    (\A k \in DOMAIN own : own[k].book = own[1].book) => FoldRules(own)
<1> SUFFICES ASSUME NEW own \in Seq(Record), own # <<>>,
                    \A k \in DOMAIN own : own[k].book = own[1].book
             PROVE  FoldRules(own)
  OBVIOUS
<1> DEFINE e == Folded(own)[own[1].book]
           n == Len(own)
<1>1. RulesAfter(own, n, e)
  BY FoldedRules
<1>2. n \in Nat /\ DOMAIN own = 1 .. n /\ 1 \in 1 .. n
  OBVIOUS
<1>3. own[1] \in Record
  OBVIOUS
<1> HIDE DEF e, n
<1>4. ToSet(e.isbn) = UNION {ToSet(own[k].isbn) : k \in DOMAIN own}
  BY <1>1, <1>2 DEF RulesAfter, ArraysAfter
<1>5. own[1].isbn # <<>> => Head(e.isbn) = Head(own[1].isbn)
  <2> DEFINE i == own[1].isbn
             j == e.isbn
             T == Seq(0 .. 10)
  <2>1. i \in Seq(T) /\ j \in Seq(T)
    BY <1>1, <1>3 DEF RulesAfter, Row, Record
  <2>2. i # <<>> => j # <<>> /\ j[1] = i[1]
    BY <1>1 DEF RulesAfter, ArraysAfter
  <2> HIDE DEF i, j, T
  <2>3. i # <<>> => Head(j) = Head(i)
    BY <2>1, <2>2
  <2> QED
    BY <2>3 DEF i, j
<1>6. e.authors = UNION {own[k].authors : k \in DOMAIN own}
  BY <1>1, <1>2 DEF RulesAfter, ArraysAfter
<1>7. /\ e.score \in {Quality(own[k]) : k \in DOMAIN own}
      /\ e.ts \in {own[k].ts : k \in DOMAIN own}
      /\ \A k \in DOMAIN own : Quality(own[k]) <= e.score /\ own[k].ts <= e.ts
  BY <1>1, <1>2 DEF RulesAfter, NumbersAfter
<1>8. /\ e.title = 0 => \A k \in DOMAIN own : own[k].title = 0
      /\ e.title # 0 => \E k \in DOMAIN own :
           /\ own[k].title = e.title
           /\ \A j \in 1 .. k - 1 : own[j].title # 0 => Quality(own[j]) <= Quality(own[k])
  BY <1>1, <1>2 DEF RulesAfter, TitleAfter
<1>9. e.deleted <=> \E k \in DOMAIN own :
        own[k].deleted /\ ~\E j \in DOMAIN own :
          j > k /\ ~own[j].deleted /\ \A i \in 1 .. j - 1 : own[j].ts > own[i].ts
  BY <1>1, <1>2 DEF RulesAfter, RemovalAfter, Clears
<1> QED
  BY <1>4, <1>5, <1>6, <1>7, <1>8, <1>9 DEF FoldRules, e

LEMMA SamplesFollowRules == FoldFollowsRules
<1> SUFFICES ASSUME NEW own \in BoundedSeq(Samples, Depth) \ {<<>>}
             PROVE  FoldRules(own)
  BY DEF FoldFollowsRules
<1>1. PICK m \in 0 .. Depth : own \in [1 .. m -> Samples]
  BY DEF BoundedSeq, SeqOf
<1>2. own \in Seq(Samples)
  BY <1>1
<1>3. Samples \subseteq Record /\ \A r, q \in Samples : r.book = q.book
  BY CatalogueAssumption
<1>4. own \in Seq(Record)
  BY <1>2, <1>3, WiderType
<1>5. \A k \in DOMAIN own : own[k].book = own[1].book
  <2>1. \A k \in DOMAIN own : own[k] \in Samples /\ own[1] \in Samples
    BY <1>2
  <2> QED
    BY <1>3, <2>1
<1> QED
  BY <1>4, <1>5, MergeFollowsRules

-----------------------------------------------------------------------------
(* Theorems                                                                *)

(* The invariant every behaviour keeps, whatever lines the payloads hold   *)
(* and wherever the imports are cut short.                                 *)
THEOREM CatalogueInvariant == Spec => []Inv
<1>1. Init => Inv
  BY CountersInit, ImportInit, TablesInit, ExplanationInit DEF Inv
<1>2. Inv /\ [Next]_vars => Inv'
  BY CountersNext, ImportNext, TablesNext, ExplanationNext DEF Inv
<1> QED
  BY <1>1, <1>2, PTL DEF Spec

(* The type invariant, with the bound of flush: the counters of a release  *)
(* are never more than SYNC_BATCH_SIZE lines behind its import.            *)
THEOREM CatalogueTyped == Spec => []TypeOK
<1>1. Inv => TypeOK
  <2> SUFFICES ASSUME Inv PROVE TypeOK
    OBVIOUS
  <2>1. DOMAIN rows \subseteq Books /\ \A b \in DOMAIN rows : rows[b] \in Row
    BY DEF Inv, Tables, IsTable
  <2>2. DOMAIN clean \subseteq DOMAIN rows
    BY DEF Inv, Explanation, Agrees
  <2>3. /\ pos \in 0 .. Len(payload) /\ failed <= seen /\ seen <= pos
        /\ seen - flushed \in 0 .. BatchSize
    BY DEF Inv, Counters
  <2>4. \A k \in DOMAIN batch : batch[k].book \in Books
    <3>1. batch \in Seq(Sound)
      BY AscribedSound DEF Inv, Import
    <3>2. \A k \in DOMAIN batch : batch[k] \in Sound
      BY <3>1
    <3> QED
      BY <3>2 DEF Sound, Record
  <2>5. pending \subseteq Payloads /\ (~Reading => payload = <<>> /\ batch = <<>>)
    BY DEF Inv, Import
  <2> QED
    BY <2>1, <2>2, <2>3, <2>4, <2>5 DEF TypeOK
<1> QED
  BY <1>1, CatalogueInvariant, PTL

(* import_release commits batch by batch and a new try starts from the     *)
(* first line: once every payload begun has come to its end, what the      *)
(* unfinished tries had written has left no trace in the catalogue.        *)
THEOREM OnlyWholeImportsCount == Spec => []OnlyWholeImports
<1>1. Inv => OnlyWholeImports
  <2> SUFFICES ASSUME Inv, pending = {} PROVE rows = clean
    BY DEF OnlyWholeImports
  <2>1. Debt(pending) = {}
    BY DEF Debt
  <2>2. Agrees(rows, clean, {})
    BY <2>1 DEF Inv, Explanation
  <2> QED
    BY <2>2, AgreesWithNone DEF Inv, Tables
<1> QED
  BY <1>1, CatalogueInvariant, PTL

(* No book of the catalogue is one that only discarded lines are about.    *)
THEOREM OnlyWantedBooks == Spec => []RowsAreWanted
<1>1. Inv => RowsAreWanted
  BY DEF Inv, Tables, RowSound, RowsAreWanted
<1> QED
  BY <1>1, CatalogueInvariant, PTL

(* The ISBNs of every row are valid ISBN-13s with the digits of one that a *)
(* line about the book spells, none of them twice.                         *)
THEOREM IsbnsAreSound == Spec => []IdentifiersSound
<1>1. Inv => IdentifiersSound
  <2> SUFFICES ASSUME Inv, NEW b \in DOMAIN rows
               PROVE  /\ \A k \in DOMAIN rows[b].isbn :
                           /\ Valid13(rows[b].isbn[k])
                           /\ \E w \in Lines : b \in About(w) /\ Spells(w, rows[b].isbn[k])
                      /\ Once(rows[b].isbn)
    BY DEF IdentifiersSound, Once
  <2>1. RowSound(b, rows[b])
    BY DEF Inv, Tables
  <2>2. \A k \in DOMAIN rows[b].isbn : rows[b].isbn[k] \in ToSet(rows[b].isbn)
    BY DEF ToSet
  <2> QED
    BY <2>1, <2>2 DEF RowSound
<1> QED
  BY <1>1, CatalogueInvariant, PTL

(* The samples a run folds follow the rules, however many of them.         *)
THEOREM SamplesAreFolded == Spec => []FoldFollowsRules
<1>1. FoldFollowsRules
  BY SamplesFollowRules
<1> QED
  BY <1>1, PTL
=============================================================================
