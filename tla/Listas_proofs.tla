---------------------------- MODULE Listas_proofs ----------------------------
(***************************************************************************)
(* What the operators of Listas return, for every list.                    *)
(***************************************************************************)
EXTENDS Listas, SequencesExt, FiniteSetTheorems, SequenceTheorems, TLAPS

\* Places get different numbers, from 1 on and without a gap.
LEMMA PuestoBiyectivo ==
  ASSUME NEW S \in SUBSET Int, IsFiniteSet(S)
  PROVE  /\ Cardinality(S) \in Nat
         /\ \A i \in S : Puesto(i, S) \in 1..Cardinality(S)
         /\ \A i, k \in S : i < k => Puesto(i, S) < Puesto(k, S)
         /\ \A n \in 1..Cardinality(S) : \E i \in S : Puesto(i, S) = n
  <1> DEFINE Hasta(i) == {j \in S : j <= i}
             r == [i \in S |-> Puesto(i, S)]
  <1>1. Cardinality(S) \in Nat
    BY FS_CardinalityType
  <1>2. \A i \in S : /\ IsFiniteSet(Hasta(i))
                     /\ Cardinality(Hasta(i)) \in Nat
                     /\ Cardinality(Hasta(i)) <= Cardinality(S)
    <2> TAKE i \in S
    <2>1. Hasta(i) \in SUBSET S
      OBVIOUS
    <2>2. IsFiniteSet(Hasta(i)) /\ Cardinality(Hasta(i)) <= Cardinality(S)
      BY <2>1, FS_Subset
    <2> QED
      BY <2>2, FS_CardinalityType
  <1>3. ASSUME NEW i \in S, NEW k \in S, i < k
        PROVE  Puesto(i, S) < Puesto(k, S)
    <2>0. i \in Int /\ k \in Int /\ \A j \in S : j \in Int
      OBVIOUS
    <2>a. \A j \in S : j <= i => j <= k
      BY <2>0, <1>3
    <2>b. k <= k /\ ~(k <= i)
      BY <2>0, <1>3
    <2>1. Hasta(i) \in SUBSET Hasta(k) /\ k \in Hasta(k) /\ k \notin Hasta(i)
      BY <2>a, <2>b
    <2>2. Cardinality(Hasta(i)) <= Cardinality(Hasta(k))
      BY <2>1, <1>2, FS_Subset
    <2>3. Cardinality(Hasta(i)) # Cardinality(Hasta(k))
      BY <2>1, <1>2, FS_Subset
    <2> QED
      BY <2>2, <2>3, <1>2 DEF Puesto
  <1>4. \A i \in S : Puesto(i, S) \in 1..Cardinality(S)
    <2> TAKE i \in S
    <2>1. Hasta(i) # {}
      OBVIOUS
    <2>2. Cardinality(Hasta(i)) # 0
      BY <2>1, <1>2, FS_EmptySet
    <2> QED
      BY <2>2, <1>1, <1>2 DEF Puesto
  <1>5. r \in Injection(S, 1..Cardinality(S))
    <2>1. r \in [S -> 1..Cardinality(S)]
      BY <1>4
    <2>2. \A i, k \in S : r[i] = r[k] => i = k
      <3> SUFFICES ASSUME NEW i \in S, NEW k \in S, r[i] = r[k], i # k
                   PROVE  FALSE
        OBVIOUS
      <3>1. i \in Int /\ k \in Int /\ r[i] = Puesto(i, S)
            /\ r[k] = Puesto(k, S) /\ r[i] \in Int /\ r[k] \in Int
        BY <2>1
      <3>2. CASE i < k
        BY <3>1, <3>2, <1>3
      <3>3. CASE k < i
        BY <3>1, <3>3, <1>3
      <3> QED
        BY <3>1, <3>2, <3>3
    <2> QED
      BY <2>1, <2>2 DEF Injection, IsInjective
  <1>6. IsFiniteSet(1..Cardinality(S))
        /\ Cardinality(1..Cardinality(S)) = Cardinality(S)
    BY <1>1, FS_Interval
  <1>7. r \in Surjection(S, 1..Cardinality(S))
    BY <1>5, <1>6, FS_Injection
  <1>8. \A n \in 1..Cardinality(S) : \E i \in S : r[i] = n
    BY <1>7 DEF Surjection
  <1> HIDE DEF Hasta
  <1> QED
    BY <1>1, <1>3, <1>4, <1>8

\* A nonempty finite set of integers has a least element.
LEMMA MinimoExiste ==
  ASSUME NEW S \in SUBSET Int, IsFiniteSet(S), S # {}
  PROVE  \E i \in S : \A j \in S : i <= j
  <1>1. Cardinality(S) # 0
    BY FS_EmptySet
  <1>2. 1 \in 1..Cardinality(S)
    BY <1>1, PuestoBiyectivo
  <1>3. PICK i \in S : Puesto(i, S) = 1
    BY <1>2, PuestoBiyectivo
  <1>4. ASSUME NEW j \in S, j < i
        PROVE  FALSE
    <2>1. Puesto(j, S) < Puesto(i, S) /\ Puesto(j, S) \in 1..Cardinality(S)
      BY <1>4, PuestoBiyectivo
    <2> QED
      BY <2>1, <1>3, PuestoBiyectivo
  <1> QED
    BY <1>4

\* The loop stops at the least place, and at none only if there is none.
LEMMA PrimeroEsMinimo ==
  ASSUME NEW n \in Nat, NEW S \in SUBSET (1..n)
  PROVE  /\ Primero(S) \in 0..n
         /\ Primero(S) = 0 <=> S = {}
         /\ S # {} => /\ Primero(S) \in S
                      /\ \A j \in S : Primero(S) <= j
  <1>1. IsFiniteSet(1..n)
    BY FS_Interval
  <1>2. IsFiniteSet(S) /\ S \in SUBSET Int
    <2>1. IsFiniteSet(S)
      BY <1>1, FS_Subset
    <2> QED
      BY <2>1
  <1>3. S # {} => \E i \in S : \A j \in S : i <= j
    BY <1>2, MinimoExiste
  <1>4. S # {} => /\ Primero(S) \in S
                  /\ \A j \in S : Primero(S) <= j
    BY <1>3 DEF Primero
  <1>5. S = {} => Primero(S) = 0
    BY DEF Primero
  <1>6. \A i \in S : i \in 1..n
    OBVIOUS
  <1>7. Primero(S) \in 0..n /\ (Primero(S) = 0 <=> S = {})
    <2>1. CASE S = {}
      BY <2>1, <1>5
    <2>2. CASE S # {}
      <3>1. Primero(S) \in S
        BY <2>2, <1>4
      <3>2. Primero(S) \in 1..n
        BY <3>1, <1>6
      <3>3. Primero(S) \in 0..n /\ Primero(S) # 0
        BY <3>2
      <3> QED
        BY <2>2, <3>3, Zenon
    <2> QED
      BY <2>1, <2>2
  <1> QED
    BY <1>4, <1>7

\* What is kept of a list is as many elements, each from a place of its own,
\* and every place that is kept is there.
LEMMA QuedanBien ==
  ASSUME NEW T, NEW s \in Seq(T), NEW S \in SUBSET DOMAIN s
  PROVE  /\ Quedan(s, S) \in Seq(T)
         /\ Len(Quedan(s, S)) = Cardinality(S)
         /\ DOMAIN Quedan(s, S) = 1..Cardinality(S)
         /\ \E h \in [1..Cardinality(S) -> S] :
              /\ \A a, b \in 1..Cardinality(S) : h[a] = h[b] => a = b
              /\ \A i \in S : \E a \in 1..Cardinality(S) : h[a] = i
              /\ \A a \in 1..Cardinality(S) : Quedan(s, S)[a] = s[h[a]]
  <1> DEFINE N == Cardinality(S)
             h == [n \in 1..N |-> CHOOSE i \in S : Puesto(i, S) = n]
  <1>1. Len(s) \in Nat /\ DOMAIN s = 1..Len(s)
    BY LenProperties
  <1>2. IsFiniteSet(1..Len(s))
    BY <1>1, FS_Interval
  <1>3. IsFiniteSet(S) /\ S \in SUBSET Int
    BY <1>1, <1>2, FS_Subset
  <1>4. /\ N \in Nat
        /\ \A i \in S : Puesto(i, S) \in 1..N
        /\ \A i, k \in S : i < k => Puesto(i, S) < Puesto(k, S)
        /\ \A n \in 1..N : \E i \in S : Puesto(i, S) = n
    BY <1>3, PuestoBiyectivo
  <1>5. \A n \in 1..N : h[n] \in S /\ Puesto(h[n], S) = n
    BY <1>4
  <1>6. h \in [1..N -> S]
    BY <1>5
  <1>7. \A a, b \in 1..N : h[a] = h[b] => a = b
    BY <1>5
  <1>8. ASSUME NEW i \in S
        PROVE  \E a \in 1..N : h[a] = i
    <2> DEFINE a == Puesto(i, S)
    <2>1. a \in 1..N /\ h[a] \in S /\ Puesto(h[a], S) = a
      BY <1>4, <1>5
    <2>2. i \in Int /\ h[a] \in Int
      BY <2>1, <1>3
    <2>3. ~(i < h[a]) /\ ~(h[a] < i)
      BY <2>1, <1>4
    <2> QED
      BY <2>1, <2>2, <2>3
  <1>9. Quedan(s, S) = [n \in 1..N |-> s[h[n]]]
    BY DEF Quedan
  <1>10. \A n \in 1..N : s[h[n]] \in T
    BY <1>5, <1>1, ElementOfSeq
  <1> HIDE DEF h
  <1>11. Quedan(s, S) \in [1..N -> T]
    BY <1>9, <1>10
  <1>12. Quedan(s, S) \in Seq(T) /\ Len(Quedan(s, S)) = N
    BY <1>11, <1>4, LenProperties
  <1> QED
    BY <1>6, <1>7, <1>8, <1>9, <1>12, <1>4

\* Each that is kept was at one of the places.
LEMMA QuedanDeSusLugares ==
  ASSUME NEW T, NEW s \in Seq(T), NEW S \in SUBSET DOMAIN s
  PROVE  /\ Quedan(s, S) \in Seq(T) /\ Len(Quedan(s, S)) = Cardinality(S)
         /\ \A a \in DOMAIN Quedan(s, S) : \E i \in S : Quedan(s, S)[a] = s[i]
  <1>1. /\ Quedan(s, S) \in Seq(T) /\ Len(Quedan(s, S)) = Cardinality(S)
        /\ DOMAIN Quedan(s, S) = 1..Cardinality(S)
    BY QuedanBien
  <1>2. \E h \in [1..Cardinality(S) -> S] :
          /\ \A a, b \in 1..Cardinality(S) : h[a] = h[b] => a = b
          /\ \A i \in S : \E a \in 1..Cardinality(S) : h[a] = i
          /\ \A a \in 1..Cardinality(S) : Quedan(s, S)[a] = s[h[a]]
    BY QuedanBien, SMTT(30)
  <1> QED
    BY <1>1, <1>2

\* list_remove at a valid index: one element less, the later ones one place
\* before.
LEMMA QuitarUno ==
  ASSUME NEW S, NEW s \in Seq(S), NEW i \in DOMAIN s
  PROVE  /\ RemoveAt(s, i) \in Seq(S)
         /\ Len(RemoveAt(s, i)) = Len(s) - 1
         /\ DOMAIN RemoveAt(s, i) = 1..(Len(s) - 1)
         /\ \A j \in 1..(Len(s) - 1) :
              RemoveAt(s, i)[j] = IF j < i THEN s[j] ELSE s[j + 1]
  <1> DEFINE antes   == SubSeq(s, 1, i - 1)
             despues == SubSeq(s, i + 1, Len(s))
  <1>1. i \in 1..Len(s) /\ Len(s) \in Nat
    BY LenProperties
  <1>2. /\ antes \in Seq(S) /\ Len(antes) = i - 1
        /\ \A j \in 1..(i - 1) : antes[j] = s[j]
    <2>1. \A j \in 1..(i - 1) : s[j] \in S
      BY <1>1, ElementOfSeq
    <2>2. /\ SubSeq(s, 1, i - 1) \in Seq(S)
          /\ Len(SubSeq(s, 1, i - 1)) = IF 1 <= i - 1 THEN (i - 1) - 1 + 1 ELSE 0
          /\ \A j \in 1..((i - 1) - 1 + 1) :
               SubSeq(s, 1, i - 1)[j] = s[1 + j - 1]
      BY <1>1, <2>1, SubSeqProperties
    <2> QED
      BY <1>1, <2>2
  <1>3. /\ despues \in Seq(S) /\ Len(despues) = Len(s) - i
        /\ \A j \in 1..(Len(s) - i) : despues[j] = s[i + j]
    <2>1. \A j \in (i + 1)..Len(s) : s[j] \in S
      BY <1>1, ElementOfSeq
    <2>2. /\ SubSeq(s, i + 1, Len(s)) \in Seq(S)
          /\ Len(SubSeq(s, i + 1, Len(s)))
               = IF i + 1 <= Len(s) THEN Len(s) - (i + 1) + 1 ELSE 0
          /\ \A j \in 1..(Len(s) - (i + 1) + 1) :
               SubSeq(s, i + 1, Len(s))[j] = s[(i + 1) + j - 1]
      BY <1>1, <2>1, SubSeqProperties
    <2> QED
      BY <1>1, <2>2
  <1>4. RemoveAt(s, i) = antes \o despues
    BY DEF RemoveAt
  <1> HIDE DEF antes, despues
  <1>5. /\ antes \o despues \in Seq(S)
        /\ Len(antes \o despues) = Len(antes) + Len(despues)
        /\ \A j \in 1..(Len(antes) + Len(despues)) :
             (antes \o despues)[j] = IF j <= Len(antes) THEN antes[j]
                                     ELSE despues[j - Len(antes)]
    BY <1>2, <1>3, ConcatProperties
  <1>6. /\ RemoveAt(s, i) \in Seq(S) /\ Len(RemoveAt(s, i)) = Len(s) - 1
    BY <1>1, <1>2, <1>3, <1>4, <1>5
  <1>7. DOMAIN RemoveAt(s, i) = 1..(Len(s) - 1)
    BY <1>6, LenProperties
  <1>8. ASSUME NEW j \in 1..(Len(s) - 1)
        PROVE  RemoveAt(s, i)[j] = IF j < i THEN s[j] ELSE s[j + 1]
    <2>1. RemoveAt(s, i)[j] = IF j <= i - 1 THEN antes[j]
                              ELSE despues[j - (i - 1)]
      <3>1. /\ Len(antes) = i - 1
            /\ Len(antes) + Len(despues) = Len(s) - 1
        BY <1>1, <1>2, <1>3
      <3> QED
        BY <1>4, <1>5, <3>1
    <2>2. CASE j < i
      BY <1>1, <1>2, <2>1, <2>2
    <2>3. CASE ~(j < i)
      <3>1. j - (i - 1) \in 1..(Len(s) - i)
        BY <1>1, <2>3
      <3>2. despues[j - (i - 1)] = s[i + (j - (i - 1))]
        BY <1>3, <3>1
      <3>3. i + (j - (i - 1)) = j + 1
        BY <1>1
      <3> QED
        BY <1>1, <2>1, <2>3, <3>2, <3>3
    <2> QED
      BY <2>2, <2>3
  <1> QED
    BY <1>6, <1>7, <1>8
-----------------------------------------------------------------------------
(* Lists without repetitions *)

Unica(s) == \A i, j \in DOMAIN s : s[i] = s[j] => i = j

\* r holds what s does, but for x
SacaDe(s, x, r) ==
  \A y : (\E a \in DOMAIN r : r[a] = y)
           <=> (y # x /\ \E a \in DOMAIN s : s[a] = y)

\* Taking one out of a list without repetitions takes out that one only.
LEMMA QuitarDeUnica ==
  ASSUME NEW S, NEW s \in Seq(S), NEW i \in DOMAIN s,
         Unica(s)
  PROVE  Unica(RemoveAt(s, i)) /\ SacaDe(s, s[i], RemoveAt(s, i))
  <1>1. PICK r : r = RemoveAt(s, i)
    OBVIOUS
  <1>u. \A a, b \in DOMAIN s : s[a] = s[b] => a = b
    BY DEF Unica
  <1>2. PICK n \in Nat : n = Len(s)
    BY LenProperties
  <1>3. DOMAIN s = 1..n /\ i \in 1..n
    BY <1>2, LenProperties
  <1>4. /\ DOMAIN r = 1..(n - 1)
        /\ \A j \in 1..(n - 1) : r[j] = IF j < i THEN s[j] ELSE s[j + 1]
    BY <1>1, <1>2, QuitarUno
  <1>5. \A a, b \in DOMAIN r : r[a] = r[b] => a = b
    <2> SUFFICES ASSUME NEW a \in DOMAIN r, NEW b \in DOMAIN r, r[a] = r[b]
                 PROVE  a = b
      OBVIOUS
    <2>1. PICK c \in DOMAIN s : /\ c = IF a < i THEN a ELSE a + 1
                                /\ r[a] = s[c]
      BY <1>3, <1>4
    <2>2. PICK e \in DOMAIN s : /\ e = IF b < i THEN b ELSE b + 1
                                /\ r[b] = s[e]
      BY <1>3, <1>4
    <2>3. c = e
      BY <1>u, <2>1, <2>2
    <2> QED
      BY <1>3, <1>4, <2>1, <2>2, <2>3
  <1>6. ASSUME NEW x
        PROVE  (\E a \in DOMAIN r : r[a] = x)
                 <=> (x # s[i] /\ \E a \in DOMAIN s : s[a] = x)
    <2>1. ASSUME NEW a \in DOMAIN r, r[a] = x
          PROVE  x # s[i] /\ \E b \in DOMAIN s : s[b] = x
      <3>1. CASE a < i
        <4>1. a \in DOMAIN s /\ a # i /\ r[a] = s[a]
          BY <1>3, <1>4, <3>1
        <4> QED
          BY <1>u, <2>1, <4>1
      <3>2. CASE ~(a < i)
        <4>1. a + 1 \in DOMAIN s /\ a + 1 # i /\ r[a] = s[a + 1]
          BY <1>3, <1>4, <3>2
        <4> QED
          BY <1>u, <2>1, <4>1
      <3> QED
        BY <3>1, <3>2
    <2>2. ASSUME NEW a \in DOMAIN s, s[a] = x, x # s[i]
          PROVE  \E b \in DOMAIN r : r[b] = x
      <3>1. CASE a < i
        BY <1>3, <1>4, <2>2, <3>1
      <3>2. CASE a > i
        <4>1. a - 1 \in DOMAIN r /\ r[a - 1] = x
          BY <1>3, <1>4, <2>2, <3>2
        <4> QED
          BY <4>1
      <3>3. a # i
        BY <2>2
      <3> QED
        BY <1>3, <3>1, <3>2, <3>3
    <2> QED
      BY <2>1, <2>2
  <1> QED
    BY <1>1, <1>5, <1>6 DEF Unica, SacaDe

\* What a list with one more at the end holds.
LEMMA RangoAlFinal ==
  ASSUME NEW T, NEW s \in Seq(T), NEW x \in T
  PROVE  /\ Append(s, x) \in Seq(T) /\ Len(Append(s, x)) = Len(s) + 1
         /\ Range(Append(s, x)) = Range(s) \cup {x}
         /\ Unica(s) /\ x \notin Range(s) => Unica(Append(s, x))
  <1>1. PICK r : r = Append(s, x)
    OBVIOUS
  <1>2. PICK n \in Nat : n = Len(s)
    BY LenProperties
  <1>3. /\ r \in Seq(T) /\ Len(r) = n + 1
        /\ DOMAIN s = 1..n /\ DOMAIN r = 1..(n + 1)
        /\ r[n + 1] = x /\ \A i \in 1..n : r[i] = s[i]
    BY <1>1, <1>2, AppendProperties, LenProperties
  <1>4. Range(r) = Range(s) \cup {x}
    <2>1. ASSUME NEW i \in DOMAIN r
          PROVE  r[i] \in Range(s) \cup {x}
      <3>1. i \in 1..n \/ i = n + 1
        BY <1>3
      <3> QED
        BY <1>3, <3>1 DEF Range
    <2>2. ASSUME NEW i \in DOMAIN s
          PROVE  s[i] \in Range(r)
      BY <1>3 DEF Range
    <2>3. x \in Range(r)
      BY <1>3 DEF Range
    <2> QED
      BY <2>1, <2>2, <2>3 DEF Range
  <1>5. ASSUME Unica(s), x \notin Range(s)
        PROVE  Unica(r)
    <2>1. \A i \in 1..n : s[i] # x
      BY <1>3, <1>5 DEF Range
    <2>2. \A i, j \in 1..n : s[i] = s[j] => i = j
      BY <1>3, <1>5 DEF Unica
    <2>3. ASSUME NEW i \in 1..(n + 1), NEW j \in 1..(n + 1), r[i] = r[j]
          PROVE  i = j
      <3>1. (i \in 1..n \/ i = n + 1) /\ (j \in 1..n \/ j = n + 1)
        OBVIOUS
      <3> QED
        BY <1>3, <2>1, <2>2, <2>3, <3>1
    <2> QED
      BY <1>3, <2>3 DEF Unica
  <1> QED
    BY <1>1, <1>2, <1>3, <1>4, <1>5

\* What a list without the one at a place holds.
LEMMA RangoSinUno ==
  ASSUME NEW T, NEW s \in Seq(T), NEW i \in DOMAIN s
  PROVE  /\ RemoveAt(s, i) \in Seq(T) /\ Len(RemoveAt(s, i)) = Len(s) - 1
         /\ Range(RemoveAt(s, i)) \subseteq Range(s)
         /\ Unica(s) => /\ Unica(RemoveAt(s, i))
                        /\ Range(RemoveAt(s, i)) = Range(s) \ {s[i]}
  <1>1. PICK r : r = RemoveAt(s, i)
    OBVIOUS
  <1>2. PICK n \in Nat : n = Len(s)
    BY LenProperties
  <1>3. DOMAIN s = 1..n /\ i \in 1..n
    BY <1>2, LenProperties
  <1>4. /\ r \in Seq(T) /\ Len(r) = n - 1 /\ DOMAIN r = 1..(n - 1)
        /\ \A j \in 1..(n - 1) : r[j] = IF j < i THEN s[j] ELSE s[j + 1]
    BY <1>1, <1>2, QuitarUno
  <1>5. Range(r) \subseteq Range(s)
    <2>1. ASSUME NEW j \in 1..(n - 1)
          PROVE  \E k \in 1..n : r[j] = s[k]
      <3>1. CASE j < i
        BY <1>4, <3>1
      <3>2. CASE ~(j < i)
        <4>1. j + 1 \in 1..n /\ r[j] = s[j + 1]
          BY <1>4, <3>2
        <4> QED
          BY <4>1
      <3> QED
        BY <3>1, <3>2
    <2> QED
      BY SMTT(30), <1>3, <1>4, <2>1 DEF Range
  <1>6. ASSUME Unica(s)
        PROVE  Unica(r) /\ Range(r) = Range(s) \ {s[i]}
    <2>1. Unica(r) /\ SacaDe(s, s[i], r)
      BY <1>1, <1>6, QuitarDeUnica
    <2>2. \A y : y \in Range(r) <=> y # s[i] /\ y \in Range(s)
      BY <2>1 DEF SacaDe, Range
    <2> QED
      BY <2>1, <2>2
  <1> QED
    BY <1>1, <1>2, <1>4, <1>5, <1>6

\* What a list without its first holds.
LEMMA RangoSinElPrimero ==
  ASSUME NEW T, NEW s \in Seq(T), s # <<>>
  PROVE  /\ Tail(s) \in Seq(T) /\ Len(Tail(s)) = Len(s) - 1
         /\ Head(s) \in Range(s) /\ Range(Tail(s)) \subseteq Range(s)
         /\ Unica(s) => /\ Unica(Tail(s))
                        /\ Range(Tail(s)) = Range(s) \ {Head(s)}
  <1>1. PICK r : r = Tail(s)
    OBVIOUS
  <1>2. PICK n \in Nat : n = Len(s)
    BY LenProperties
  <1>3. /\ DOMAIN s = 1..n /\ 1 \in 1..n /\ Head(s) = s[1]
        /\ r \in Seq(T) /\ Len(r) = n - 1 /\ DOMAIN r = 1..(n - 1)
        /\ \A j \in 1..(n - 1) : r[j] = s[j + 1]
    BY <1>1, <1>2, LenProperties, HeadTailProperties, EmptySeq
  <1>4. \A j \in 1..(n - 1) : j + 1 \in 1..n
    OBVIOUS
  <1>5. Range(r) \subseteq Range(s) /\ Head(s) \in Range(s)
    BY SMTT(30), <1>3, <1>4 DEF Range
  <1>6. ASSUME Unica(s)
        PROVE  Unica(r) /\ Range(r) = Range(s) \ {Head(s)}
    <2>1. \A j, k \in 1..n : s[j] = s[k] => j = k
      BY <1>3, <1>6 DEF Unica
    <2>2. ASSUME NEW j \in 1..(n - 1), NEW k \in 1..(n - 1), r[j] = r[k]
          PROVE  j = k
      <3>1. j + 1 = k + 1
        BY <1>3, <1>4, <2>1, <2>2
      <3> QED
        BY <3>1
    <2>3. ASSUME NEW j \in 1..(n - 1)
          PROVE  r[j] # s[1]
      <3>1. j + 1 # 1 /\ j + 1 \in 1..n
        OBVIOUS
      <3> QED
        BY <1>3, <2>1, <3>1
    <2>4. ASSUME NEW j \in 1..n, s[j] # s[1]
          PROVE  \E k \in 1..(n - 1) : r[k] = s[j]
      <3>1. j # 1 /\ j - 1 \in 1..(n - 1) /\ (j - 1) + 1 = j
        BY <2>4
      <3>2. r[j - 1] = s[j]
        BY <1>3, <3>1
      <3> QED
        BY <3>1, <3>2
    <2>5. \A y : y \in Range(r) <=> y # s[1] /\ y \in Range(s)
      <3>1. ASSUME NEW y \in Range(r)
            PROVE  y # s[1] /\ y \in Range(s)
        BY <1>3, <1>5, <2>3, <3>1 DEF Range
      <3>2. ASSUME NEW y \in Range(s), y # s[1]
            PROVE  y \in Range(r)
        <4>1. PICK j \in 1..n : y = s[j]
          BY <1>3, <3>2 DEF Range
        <4>2. PICK k \in 1..(n - 1) : r[k] = s[j]
          BY <2>4, <3>2, <4>1
        <4> QED
          BY <1>3, <4>1, <4>2 DEF Range
      <3> QED
        BY <3>1, <3>2
    <2>6. Unica(r)
      BY <1>3, <2>2 DEF Unica
    <2> QED
      BY <1>3, <2>5, <2>6
  <1> QED
    BY <1>1, <1>2, <1>3, <1>5, <1>6

\* A list without the first of some of its places.
LEMMA SinPrimeroBien ==
  ASSUME NEW T, NEW s \in Seq(T), NEW lugares \in SUBSET DOMAIN s
  PROVE  /\ SinPrimero(s, lugares) \in Seq(T)
         /\ Len(SinPrimero(s, lugares))
              = Len(s) - (IF lugares = {} THEN 0 ELSE 1)
         /\ Range(SinPrimero(s, lugares)) \subseteq Range(s)
         /\ lugares = {} => SinPrimero(s, lugares) = s
         /\ lugares # {} =>
              /\ Primero(lugares) \in lugares
              /\ SinPrimero(s, lugares) = RemoveAt(s, Primero(lugares))
  <1>1. DOMAIN s = 1..Len(s) /\ Len(s) \in Nat
    BY LenProperties
  <1>2. lugares # {} => Primero(lugares) \in lugares
    BY <1>1, PrimeroEsMinimo
  <1>3. CASE lugares = {}
    BY <1>1, <1>3 DEF SinPrimero
  <1>4. CASE lugares # {}
    <2>1. Primero(lugares) \in DOMAIN s
      BY <1>2, <1>4
    <2> QED
      BY <1>2, <1>4, <2>1, RangoSinUno DEF SinPrimero
  <1> QED
    BY <1>3, <1>4
-----------------------------------------------------------------------------
(* What comes before what in a list *)

Antes(s, x, y) == \E a, b \in DOMAIN s : a < b /\ s[a] = x /\ s[b] = y

\* In a list with one more at the end, all the others come before it.
LEMMA AntesAlFinal ==
  ASSUME NEW T, NEW s \in Seq(T), NEW z \in T, NEW x, NEW y
  PROVE  Antes(Append(s, z), x, y) <=>
           Antes(s, x, y) \/ (y = z /\ x \in Range(s))
  <1>1. PICK r : r = Append(s, z)
    OBVIOUS
  <1>2. PICK n \in Nat : n = Len(s)
    BY LenProperties
  <1>3. /\ DOMAIN s = 1..n /\ DOMAIN r = 1..(n + 1)
        /\ r[n + 1] = z /\ \A i \in 1..n : r[i] = s[i]
    BY <1>1, <1>2, AppendProperties, LenProperties
  <1>4. ASSUME Antes(r, x, y)
        PROVE  Antes(s, x, y) \/ (y = z /\ x \in Range(s))
    <2>1. PICK a \in 1..(n + 1), b \in 1..(n + 1) :
            a < b /\ r[a] = x /\ r[b] = y
      BY <1>3, <1>4 DEF Antes
    <2>2. a \in 1..n /\ s[a] = x /\ x \in Range(s)
      BY <1>3, <2>1 DEF Range
    <2>3. b = n + 1 \/ (b \in 1..n /\ s[b] = y)
      BY <1>3, <2>1
    <2> QED
      BY <1>3, <2>1, <2>2, <2>3 DEF Antes
  <1>5. ASSUME Antes(s, x, y)
        PROVE  Antes(r, x, y)
    <2>1. PICK a \in 1..n, b \in 1..n : a < b /\ s[a] = x /\ s[b] = y
      BY <1>3, <1>5 DEF Antes
    <2>2. a \in DOMAIN r /\ b \in DOMAIN r /\ r[a] = x /\ r[b] = y
      BY <1>3, <2>1
    <2> QED
      BY <2>1, <2>2 DEF Antes
  <1>6. ASSUME x \in Range(s), y = z
        PROVE  Antes(r, x, y)
    <2>1. PICK a \in 1..n : s[a] = x
      BY <1>3, <1>6 DEF Range
    <2>2. a \in DOMAIN r /\ n + 1 \in DOMAIN r /\ a < n + 1
      BY <1>3, <2>1
    <2> QED
      BY <1>3, <1>6, <2>1, <2>2 DEF Antes
  <1> QED
    BY <1>1, <1>4, <1>5, <1>6

\* Taking one out does not change the order of the others.
LEMMA AntesSinUno ==
  ASSUME NEW T, NEW s \in Seq(T), NEW i \in DOMAIN s, NEW x, NEW y
  PROVE  /\ Antes(RemoveAt(s, i), x, y) => Antes(s, x, y)
         /\ Antes(s, x, y) /\ x # s[i] /\ y # s[i] =>
              Antes(RemoveAt(s, i), x, y)
  <1>1. PICK r : r = RemoveAt(s, i)
    OBVIOUS
  <1>2. PICK n \in Nat : n = Len(s)
    BY LenProperties
  <1>3. DOMAIN s = 1..n /\ i \in 1..n
    BY <1>2, LenProperties
  <1>4. /\ DOMAIN r = 1..(n - 1)
        /\ \A j \in 1..(n - 1) : r[j] = IF j < i THEN s[j] ELSE s[j + 1]
    BY <1>1, <1>2, QuitarUno
  <1>5. ASSUME Antes(r, x, y)
        PROVE  Antes(s, x, y)
    <2>1. PICK a \in 1..(n - 1), b \in 1..(n - 1) :
            a < b /\ r[a] = x /\ r[b] = y
      BY <1>4, <1>5 DEF Antes
    <2>2. PICK c \in 1..n : c = (IF a < i THEN a ELSE a + 1) /\ s[c] = x
      BY <1>4, <2>1
    <2>3. PICK d \in 1..n : d = (IF b < i THEN b ELSE b + 1) /\ s[d] = y
      BY <1>4, <2>1
    <2>4. c < d
      BY <1>3, <2>1, <2>2, <2>3
    <2> QED
      BY <1>3, <2>2, <2>3, <2>4 DEF Antes
  <1>6. ASSUME Antes(s, x, y), x # s[i], y # s[i]
        PROVE  Antes(r, x, y)
    <2>1. PICK a \in 1..n, b \in 1..n : a < b /\ s[a] = x /\ s[b] = y
      BY <1>3, <1>6 DEF Antes
    <2>2. a # i /\ b # i
      BY <1>6, <2>1
    <2>3. PICK c \in 1..(n - 1) : c = (IF a < i THEN a ELSE a - 1) /\ r[c] = x
      <3>1. CASE a < i
        BY <1>3, <1>4, <2>1, <3>1
      <3>2. CASE ~(a < i)
        <4>1. a - 1 \in 1..(n - 1) /\ ~(a - 1 < i) /\ (a - 1) + 1 = a
          BY <1>3, <2>2, <3>2
        <4> QED
          BY <1>4, <2>1, <3>2, <4>1
      <3> QED
        BY <3>1, <3>2
    <2>4. PICK d \in 1..(n - 1) : d = (IF b < i THEN b ELSE b - 1) /\ r[d] = y
      <3>1. CASE b < i
        BY <1>3, <1>4, <2>1, <3>1
      <3>2. CASE ~(b < i)
        <4>1. b - 1 \in 1..(n - 1) /\ ~(b - 1 < i) /\ (b - 1) + 1 = b
          BY <1>3, <2>2, <3>2
        <4> QED
          BY <1>4, <2>1, <3>2, <4>1
      <3> QED
        BY <3>1, <3>2
    <2>5. c < d
      BY <1>3, <2>1, <2>2, <2>3, <2>4
    <2> QED
      BY <1>4, <2>3, <2>4, <2>5 DEF Antes
  <1> QED
    BY <1>1, <1>5, <1>6

\* Nor does taking the first.
LEMMA AntesSinElPrimero ==
  ASSUME NEW T, NEW s \in Seq(T), s # <<>>, NEW x, NEW y,
         Antes(Tail(s), x, y)
  PROVE  Antes(s, x, y)
  <1>1. PICK r : r = Tail(s)
    OBVIOUS
  <1>2. PICK n \in Nat : n = Len(s)
    BY LenProperties
  <1>3. /\ DOMAIN s = 1..n /\ DOMAIN r = 1..(n - 1)
        /\ \A j \in 1..(n - 1) : r[j] = s[j + 1]
    BY <1>1, <1>2, LenProperties, HeadTailProperties, EmptySeq
  <1>4. PICK a \in 1..(n - 1), b \in 1..(n - 1) :
          a < b /\ r[a] = x /\ r[b] = y
    BY <1>1, <1>3 DEF Antes
  <1>5. /\ a + 1 \in DOMAIN s /\ b + 1 \in DOMAIN s /\ a + 1 < b + 1
        /\ s[a + 1] = x /\ s[b + 1] = y
    BY <1>3, <1>4
  <1> QED
    BY <1>5 DEF Antes
=============================================================================
