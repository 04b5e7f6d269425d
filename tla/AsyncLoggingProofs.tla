------------------------- MODULE AsyncLoggingProofs -------------------------
(***************************************************************************)
(* Proofs about AsyncLogging for any writers, heap, capacity, statements    *)
(* and bounds: no buffer ever has two holders, the worker's assertions      *)
(* hold, records reach the file in order and each once, and lines are whole.*)
(*                                                                         *)
(* FlattenSeq, FoldLeft and IntToString are defined by recursion: what they *)
(* compute is found from the least number for which it could fail.          *)
(***************************************************************************)
EXTENDS AsyncLogging, SequenceTheorems, WellFoundedInduction, TLAPS

-----------------------------------------------------------------------------
(* Sequences: what appending to one, cutting it and taking its ends do to   *)
(* what is in it.                                                          *)

LEMMA AppendRange ==
  ASSUME NEW S, NEW s \in Seq(S), NEW e \in S
  PROVE  /\ Append(s, e) \in Seq(S) /\ Append(s, e) # <<>>
         /\ Len(Append(s, e)) = Len(s) + 1
         /\ Range(Append(s, e)) = Range(s) \cup {e}
         /\ IsInjective(s) /\ e \notin Range(s) => IsInjective(Append(s, e))
<1>1. /\ Append(s, e) \in Seq(S) /\ Append(s, e) # <<>>
      /\ Len(Append(s, e)) = Len(s) + 1
      /\ \A i \in 1 .. Len(s) : Append(s, e)[i] = s[i]
      /\ Append(s, e)[Len(s) + 1] = e
  BY AppendProperties
<1>2. /\ Len(s) \in Nat
      /\ DOMAIN s = 1 .. Len(s)
      /\ DOMAIN Append(s, e) = 1 .. Len(s) + 1
  BY <1>1, LenProperties
<1>3. Range(Append(s, e)) = Range(s) \cup {e}
  BY <1>1, <1>2 DEF Range
<1>4. ASSUME IsInjective(s), e \notin Range(s) PROVE IsInjective(Append(s, e))
  BY <1>1, <1>2, <1>4 DEF IsInjective, Range
<1> QED
  BY <1>1, <1>3, <1>4

LEMMA PrefixRange ==
  ASSUME NEW S, NEW s \in Seq(S), NEW n \in Nat, n <= Len(s)
  PROVE  /\ SubSeq(s, 1, n) \in Seq(S)
         /\ Len(SubSeq(s, 1, n)) = n
         /\ \A i \in 1 .. n : SubSeq(s, 1, n)[i] = s[i]
         /\ Range(SubSeq(s, 1, n)) \subseteq Range(s)
         /\ IsInjective(s) => IsInjective(SubSeq(s, 1, n))
<1>1. Len(s) \in Nat /\ DOMAIN s = 1 .. Len(s)
  BY LenProperties
<1>2. \A i \in 1 .. n : s[i] \in S
  BY <1>1, ElementOfSeq
<1>3. /\ SubSeq(s, 1, n) \in Seq(S)
      /\ Len(SubSeq(s, 1, n)) = IF 1 <= n THEN n - 1 + 1 ELSE 0
      /\ \A i \in 1 .. n - 1 + 1 : SubSeq(s, 1, n)[i] = s[1 + i - 1]
  BY <1>2, SubSeqProperties
<1>4. /\ Len(SubSeq(s, 1, n)) = n
      /\ DOMAIN SubSeq(s, 1, n) = 1 .. n
      /\ \A i \in 1 .. n : SubSeq(s, 1, n)[i] = s[i]
  BY <1>3, LenProperties
<1> QED
  BY <1>1, <1>3, <1>4 DEF Range, IsInjective

LEMMA FrontLast ==
  ASSUME NEW S, NEW s \in Seq(S), s # <<>>
  PROVE  /\ Last(s) \in S /\ Last(s) \in Range(s)
         /\ Front(s) \in Seq(S) /\ Len(Front(s)) = Len(s) - 1
         /\ Range(Front(s)) \subseteq Range(s)
         /\ IsInjective(s) => IsInjective(Front(s)) /\ Last(s) \notin Range(Front(s))
<1>1. Len(s) \in Nat \ {0} /\ DOMAIN s = 1 .. Len(s)
  BY EmptySeq, LenProperties
<1>2. Last(s) \in S /\ Last(s) \in Range(s)
  BY <1>1, ElementOfSeq DEF Last, Range
<1>3. /\ Front(s) \in Seq(S) /\ Len(Front(s)) = Len(s) - 1
      /\ \A i \in 1 .. Len(s) - 1 : Front(s)[i] = s[i]
      /\ Range(Front(s)) \subseteq Range(s)
      /\ IsInjective(s) => IsInjective(Front(s))
  BY <1>1, PrefixRange DEF Front
<1>4. DOMAIN Front(s) = 1 .. Len(s) - 1
  BY <1>1, <1>3, LenProperties
<1>5. ASSUME IsInjective(s) PROVE Last(s) \notin Range(Front(s))
  BY <1>1, <1>3, <1>4, <1>5 DEF Last, Range, IsInjective
<1> QED
  BY <1>2, <1>3, <1>5

LEMMA EmptyRange == Range(<<>>) = {} /\ IsInjective(<<>>)
  BY DEF Range, IsInjective

LEMMA AppendConcat ==
  ASSUME NEW S, NEW s \in Seq(S), NEW t \in Seq(S), NEW x \in S
  PROVE  s \o Append(t, x) = Append(s \o t, x)
<1>1. <<x>> \in Seq(S)
  OBVIOUS
<1>2. s \o t \in Seq(S)
  BY ConcatProperties
<1>3. Append(t, x) = t \o <<x>> /\ Append(s \o t, x) = (s \o t) \o <<x>>
  BY <1>2, AppendIsConcat
<1>4. s \o (t \o <<x>>) = (s \o t) \o <<x>>
  BY <1>1, ConcatAssociative
<1> QED
  BY <1>3, <1>4

LEMMA FrontRest ==
  ASSUME NEW S, NEW s \in Seq(S), s # <<>>, NEW x \in Range(s)
  PROVE  x = Last(s) \/ x \in Range(Front(s))
<1>1. Len(s) \in Nat \ {0} /\ DOMAIN s = 1 .. Len(s)
  BY EmptySeq, LenProperties
<1>2. /\ Front(s) \in Seq(S) /\ Len(Front(s)) = Len(s) - 1
      /\ \A i \in 1 .. Len(s) - 1 : Front(s)[i] = s[i]
  BY <1>1, PrefixRange DEF Front
<1>3. DOMAIN Front(s) = 1 .. Len(s) - 1
  BY <1>1, <1>2, LenProperties
<1>4. PICK i \in 1 .. Len(s) : s[i] = x
  BY <1>1 DEF Range
<1> QED
  BY <1>1, <1>2, <1>3, <1>4 DEF Last, Range

LEMMA TwoParts ==
  ASSUME NEW S, NEW s \in Seq(S), NEW k \in Nat, k <= Len(s)
  PROVE  /\ SubSeq(s, 1, k) \in Seq(S) /\ SubSeq(s, k + 1, Len(s)) \in Seq(S)
         /\ s = SubSeq(s, 1, k) \o SubSeq(s, k + 1, Len(s))
         /\ Range(s) = Range(SubSeq(s, 1, k)) \cup Range(SubSeq(s, k + 1, Len(s)))
         /\ IsInjective(s) =>
               Range(SubSeq(s, 1, k)) \cap Range(SubSeq(s, k + 1, Len(s))) = {}
<1>1. PICK n \in Nat : n = Len(s) /\ k \in 0 .. n /\ DOMAIN s = 1 .. n
  BY LenProperties
<1>2. \A i \in 1 .. n : s[i] \in S
  BY <1>1, ElementOfSeq
<1>3. PICK a : a = SubSeq(s, 1, k)
  OBVIOUS
<1>4. PICK b : b = SubSeq(s, k + 1, n)
  OBVIOUS
<1>5. a \in Seq(S) /\ DOMAIN a = 1 .. k /\ \A i \in 1 .. k : a[i] = s[i]
  <2>1. a \in Seq(S) /\ Len(a) = k /\ \A i \in 1 .. k : a[i] = s[i]
    BY <1>1, <1>3, PrefixRange
  <2> QED
    BY <2>1, LenProperties
<1>6. b \in Seq(S) /\ DOMAIN b = 1 .. n - k /\ \A i \in 1 .. n - k : b[i] = s[i + k]
  <2>1. /\ b \in Seq(S) /\ Len(b) = IF k + 1 <= n THEN n - (k + 1) + 1 ELSE 0
        /\ \A i \in 1 .. n - (k + 1) + 1 : b[i] = s[(k + 1) + i - 1]
    <3>1. k + 1 \in Int /\ n \in Int /\ \A i \in k + 1 .. n : s[i] \in S
      BY <1>1, <1>2
    <3> QED
      BY <1>4, <3>1, SubSeqProperties
  <2>2. Len(b) = n - k /\ n - (k + 1) + 1 = n - k
    BY <1>1, <2>1
  <2>3. \A i \in 1 .. n - k : b[i] = s[i + k]
    BY <1>1, <2>1
  <2> QED
    BY <2>1, <2>2, <2>3, LenProperties
<1>7. s = a \o b
  <2>1. 1 \in 1 .. n + 1 /\ k \in 1 - 1 .. n /\ n \in k .. n
    BY <1>1
  <2>2. SubSeq(s, 1, k) \o SubSeq(s, k + 1, n) = SubSeq(s, 1, n)
    BY <1>1, <2>1, ConcatAdjacentSubSeq
  <2> QED
    BY <1>1, <1>3, <1>4, <2>2, SubSeqFull
<1>8. Range(s) = Range(a) \cup Range(b)
  <2>1. \A i \in 1 .. n : s[i] \in Range(a) \cup Range(b)
    <3> SUFFICES ASSUME NEW i \in 1 .. n PROVE s[i] \in Range(a) \cup Range(b)
      OBVIOUS
    <3>1. CASE i <= k
      BY <1>5, <3>1 DEF Range
    <3>2. CASE ~(i <= k)
      <4>1. i - k \in 1 .. n - k /\ (i - k) + k = i
        BY <1>1, <3>2
      <4> QED
        BY <1>6, <4>1 DEF Range
    <3> QED
      BY <3>1, <3>2
  <2>2. Range(s) \subseteq Range(a) \cup Range(b)
    BY <1>1, <2>1 DEF Range
  <2>3. \A i \in 1 .. k : a[i] \in Range(s)
    BY <1>1, <1>5 DEF Range
  <2>4. \A i \in 1 .. n - k : b[i] \in Range(s)
    <3>1. \A i \in 1 .. n - k : i + k \in 1 .. n
      BY <1>1
    <3> QED
      BY <1>1, <1>6, <3>1 DEF Range
  <2>5. Range(a) \subseteq Range(s) /\ Range(b) \subseteq Range(s)
    BY <1>5, <1>6, <2>3, <2>4 DEF Range
  <2> QED
    BY <2>2, <2>5
<1>9. ASSUME IsInjective(s) PROVE Range(a) \cap Range(b) = {}
  <2> SUFFICES ASSUME NEW i \in 1 .. k, NEW j \in 1 .. n - k, a[i] = b[j] PROVE FALSE
    BY <1>5, <1>6 DEF Range
  <2>1. j + k \in 1 .. n /\ i \in 1 .. n /\ i # j + k /\ s[i] = s[j + k]
    BY <1>1, <1>5, <1>6
  <2> QED
    BY <1>1, <1>9, <2>1 DEF IsInjective
<1> QED
  BY <1>1, <1>3, <1>4, <1>5, <1>6, <1>7, <1>8, <1>9

-----------------------------------------------------------------------------
(* Numbers: induction over a set of them, from the least one outside it.   *)

LEMMA LeastNumber ==
  ASSUME NEW S \in SUBSET Nat, S # {}
  PROVE  \E m \in S : \A k \in S : m <= k
<1> DEFINE Less == {ss \in Nat \X Nat : ss[1] < ss[2]}
<1>1. IsWellFoundedOn(Less, Nat)
  BY NatLessThanWellFounded DEF OpToRel
<1>2. PICK m \in S : \A k \in S : <<k, m>> \notin Less
  <2> HIDE DEF Less
  <2> QED
    BY <1>1, WFMin
<1>3. ASSUME NEW k \in S, k < m PROVE FALSE
  <2>1. <<k, m>> \in Nat \X Nat /\ <<k, m>>[1] < <<k, m>>[2]
    BY <1>3
  <2>2. <<k, m>> \in Less
    BY <2>1, Zenon
  <2> QED
    BY <2>2, <1>2, Zenon
<1> QED
  BY <1>3

\* Induction, of a set: no operator is needed.
LEMMA Induction ==
  ASSUME NEW S, 0 \in S, \A n \in Nat : n \in S => n + 1 \in S
  PROVE  Nat \subseteq S
<1> SUFFICES ASSUME Nat \ S # {} PROVE FALSE
  OBVIOUS
<1>1. PICK m \in Nat \ S : \A k \in Nat \ S : m <= k
  BY LeastNumber
<1>2. m # 0 /\ m - 1 \in Nat /\ m - 1 \in S
  BY <1>1
<1> QED
  BY <1>2

Progressive(S) == \A n \in Nat : (\A i \in 0 .. n - 1 : i \in S) => n \in S

LEMMA StrongInduction ==
  ASSUME NEW S, Progressive(S)
  PROVE  Nat \subseteq S
<1> SUFFICES ASSUME Nat \ S # {} PROVE FALSE
  OBVIOUS
<1>1. PICK m \in Nat \ S : \A k \in Nat \ S : m <= k
  BY LeastNumber
<1>2. \A i \in 0 .. m - 1 : i \in S
  BY <1>1
<1> QED
  BY <1>1, <1>2 DEF Progressive

-----------------------------------------------------------------------------
(* FlattenSeq, which is defined by recursion. *)

Flat(s, n) == CHOOSE f : f = [i \in 1 .. n |-> IF i = 1 THEN s[i] ELSE f[i - 1] \o s[i]]

LEMMA FlattenIsFlat ==
  ASSUME NEW s PROVE FlattenSeq(s) = IF Len(s) = 0 THEN s ELSE Flat(s, Len(s))[Len(s)]
BY DEF FlattenSeq, Flat

LEMMA FlatStep ==
  ASSUME NEW s, NEW n \in Nat
  PROVE  \A i \in 1 .. n : Flat(s, n)[i] = IF i = 1 THEN s[i] ELSE Flat(s, n)[i - 1] \o s[i]
<1> DEFINE Made(f, k) == f = [i \in 1 .. k |-> IF i = 1 THEN s[i] ELSE f[i - 1] \o s[i]]
           S == {k \in Nat : \E f : Made(f, k)}
<1>1. 0 \in S
  <2>1. Made([i \in 1 .. 0 |-> IF i = 1 THEN s[i] ELSE <<>>], 0)
    OBVIOUS
  <2> QED
    BY <2>1
<1>2. ASSUME NEW k \in Nat, k \in S PROVE k + 1 \in S
  <2>1. PICK f : Made(f, k)
    BY <1>2
  <2> DEFINE g == [i \in 1 .. k + 1 |-> IF i = 1 THEN s[i] ELSE f[i - 1] \o s[i]]
  <2>2. \A i \in 1 .. k : f[i] = IF i = 1 THEN s[i] ELSE f[i - 1] \o s[i]
    BY <2>1
  <2>3. \A i \in 1 .. k + 1 : g[i] = IF i = 1 THEN s[i] ELSE f[i - 1] \o s[i]
    OBVIOUS
  <2>4. \A i \in 1 .. k : i \in 1 .. k + 1 /\ g[i] = f[i]
    <3> HIDE DEF g
    <3> QED
      BY <2>2, <2>3
  <2>5. \A i \in 1 .. k + 1 : i # 1 => g[i - 1] = f[i - 1]
    <3> HIDE DEF g
    <3> QED
      BY <2>4
  <2>6. [i \in 1 .. k + 1 |-> IF i = 1 THEN s[i] ELSE f[i - 1] \o s[i]]
        = [i \in 1 .. k + 1 |-> IF i = 1 THEN s[i] ELSE g[i - 1] \o s[i]]
    <3> HIDE DEF g
    <3> QED
      BY <2>5
  <2>7. Made(g, k + 1)
    BY <2>6
  <2>8. k + 1 \in Nat
    OBVIOUS
  <2> HIDE DEF g, Made
  <2> QED
    BY <2>7, <2>8, Zenon
<1>3. n \in S
  BY <1>1, <1>2, Induction
<1>4. Made(Flat(s, n), n)
  BY <1>3 DEF Flat
<1> QED
  BY <1>4

Agree(s, t, n) == \A i \in 1 .. n : s[i] = t[i]

LEMMA FlatAgrees ==
  ASSUME NEW s, NEW t, NEW m \in Nat, NEW n \in 0 .. m, Agree(s, t, n)
  PROVE  Agree(Flat(s, n), Flat(t, m), n)
<1> DEFINE S == {k \in Nat : k \in 1 .. n => Flat(s, n)[k] = Flat(t, m)[k]}
<1>1. 0 \in S
  OBVIOUS
<1>2. ASSUME NEW k \in Nat, k \in S, k + 1 \in 1 .. n PROVE Flat(s, n)[k + 1] = Flat(t, m)[k + 1]
  <2>1. /\ Flat(s, n)[k + 1] = IF k + 1 = 1 THEN s[k + 1] ELSE Flat(s, n)[k + 1 - 1] \o s[k + 1]
        /\ Flat(t, m)[k + 1] = IF k + 1 = 1 THEN t[k + 1] ELSE Flat(t, m)[k + 1 - 1] \o t[k + 1]
        /\ s[k + 1] = t[k + 1]
    BY <1>2, FlatStep DEF Agree
  <2>2. CASE k = 0
    BY <2>1, <2>2
  <2>3. CASE k # 0
    <3>1. k \in 1 .. n /\ k + 1 # 1 /\ k + 1 - 1 = k
      BY <1>2, <2>3
    <3>2. Flat(s, n)[k] = Flat(t, m)[k]
      BY <1>2, <3>1
    <3> QED
      BY <2>1, <3>1, <3>2
  <2> QED
    BY <2>2, <2>3
<1>3. \A k \in Nat : k \in S => k + 1 \in S
  BY <1>2
<1>4. Nat \subseteq S
  BY <1>1, <1>3, Induction
<1> QED
  BY <1>4 DEF Agree

LEMMA FlattenAppend ==
  ASSUME NEW S, NEW s \in Seq(Seq(S)), NEW x \in Seq(S)
  PROVE  /\ FlattenSeq(<<>>) = <<>>
         /\ FlattenSeq(Append(s, x)) = FlattenSeq(s) \o x
<1>0. PICK t, n, m : t = Append(s, x) /\ n = Len(s) /\ m = n + 1
  OBVIOUS
<1>1. FlattenSeq(<<>>) = <<>>
  BY FlattenIsFlat
<1>2. /\ n \in Nat /\ Len(t) = m /\ \A i \in 1 .. n : s[i] = t[i]
      /\ t[m] = x /\ (n = 0 => s = <<>>)
      /\ m \in Nat /\ m \in 1 .. m /\ n <= m /\ m - 1 = n /\ m # 0 /\ (m = 1 <=> n = 0)
  BY <1>0, AppendProperties, LenProperties, EmptySeq
<1>3. FlattenSeq(t) = Flat(t, m)[m]
  BY <1>2, FlattenIsFlat
<1>4. Flat(t, m)[m] = IF m = 1 THEN x ELSE Flat(t, m)[n] \o x
  BY <1>2, FlatStep
<1>5. ASSUME n = 0 PROVE FlattenSeq(t) = FlattenSeq(s) \o x
  BY <1>1, <1>2, <1>3, <1>4, <1>5, ConcatEmptySeq
<1>6. ASSUME n # 0 PROVE FlattenSeq(t) = FlattenSeq(s) \o x
  <2>1. FlattenSeq(s) = Flat(s, n)[n]
    BY <1>6, <1>0, FlattenIsFlat
  <2>2. Agree(Flat(s, n), Flat(t, m), n)
    <3>1. m \in Nat /\ n \in 0 .. m /\ Agree(s, t, n)
      BY <1>2 DEF Agree
    <3> QED
      BY <3>1, FlatAgrees
  <2>3. n \in 1 .. n
    BY <1>2, <1>6
  <2> QED
    BY <1>2, <1>3, <1>4, <1>6, <2>1, <2>2, <2>3 DEF Agree
<1>7. FlattenSeq(t) = FlattenSeq(s) \o x
  BY <1>5, <1>6
<1> QED
  BY <1>0, <1>1, <1>7

LEMMA SequenceInduction ==
  ASSUME NEW T, NEW P, <<>> \in P,
         \A s \in Seq(T), x \in T : s \in P => Append(s, x) \in P
  PROVE  Seq(T) \subseteq P
<1> DEFINE N == {n \in Nat : \A u \in Seq(T) : Len(u) = n => u \in P}
<1>1. 0 \in N
  BY EmptySeq
<1>2. ASSUME NEW n \in Nat, n \in N PROVE n + 1 \in N
  <2> SUFFICES ASSUME NEW u \in Seq(T), Len(u) = n + 1 PROVE u \in P
    OBVIOUS
  <2>1. u # <<>>
    BY EmptySeq
  <2>2. PICK v \in Seq(T), x \in T : u = Append(v, x)
    BY <2>1, SequenceEmptyOrAppend
  <2>3. Len(v) = n
    BY <2>2, AppendProperties, LenProperties
  <2> QED
    BY <1>2, <2>2, <2>3
<1>3. Nat \subseteq N
  BY <1>1, <1>2, Induction
<1> QED
  BY <1>3, LenProperties

-----------------------------------------------------------------------------
(* FoldLeft, which folds the set of the indices from the last one down. *)

LEMMA MaxIs ==
  ASSUME NEW n \in Nat, NEW s \in SUBSET (1 .. n), s # {}
  PROVE  Max(s) \in s /\ \A y \in s : y <= Max(s)
<1> DEFINE D == {n - x : x \in s}
<1>1. D \in SUBSET Nat /\ D # {}
  <2>1. \A x \in s : n - x \in Nat
    OBVIOUS
  <2>2. PICK x \in s : n - x \in D
    OBVIOUS
  <2> QED
    BY <2>1, <2>2
<1>2. PICK m \in D : \A k \in D : m <= k
  BY <1>1, LeastNumber
<1>3. PICK x \in s : m = n - x
  BY <1>2
<1>4. \A y \in s : y <= x
  <2> SUFFICES ASSUME NEW y \in s PROVE y <= x
    OBVIOUS
  <2>1. n - y \in D /\ x \in 1 .. n /\ y \in 1 .. n
    OBVIOUS
  <2>2. n - x <= n - y
    BY <1>2, <1>3, <2>1
  <2> HIDE DEF D
  <2> QED
    BY <2>1, <2>2
<1>5. \E z \in s : \A y \in s : z >= y
  BY <1>4
<1> QED
  BY <1>5 DEF Max

LEMMA MaxOfPrefix == ASSUME NEW k \in Nat \ {0} PROVE Max(1 .. k) = k /\ (1 .. k) \ {k} = 1 .. k - 1
<1>1. 1 .. k \in SUBSET (1 .. k) /\ k \in 1 .. k
  OBVIOUS
<1>2. Max(1 .. k) \in 1 .. k /\ \A y \in 1 .. k : y <= Max(1 .. k)
  BY <1>1, MaxIs
<1> QED
  BY <1>1, <1>2

\* What is folded over each set of indices, when step[i][a] makes the next of a.
Folds(g, base, n, step) ==
    g = [s \in SUBSET (1 .. n) |-> IF s = {} THEN base ELSE step[Max(s)][g[s \ {Max(s)}]]]

LEMMA FoldsExist ==
  ASSUME NEW A, NEW base \in A, NEW n \in Nat, NEW step \in [1 .. n -> [A -> A]]
  PROVE  \E g \in [SUBSET (1 .. n) -> A] : Folds(g, base, n, step)
<1> DEFINE Exists(k) == \E g \in [SUBSET (1 .. k) -> A] : Folds(g, base, k, step)
           S == {k \in Nat : k <= n => Exists(k)}
<1>1. 0 \in S
  <2> DEFINE g == [s \in SUBSET (1 .. 0) |-> base]
  <2>1. \A s \in SUBSET (1 .. 0) : s = {}
    OBVIOUS
  <2>2. Folds(g, base, 0, step)
    BY <2>1 DEF Folds
  <2>3. g \in [SUBSET (1 .. 0) -> A]
    OBVIOUS
  <2> QED
    BY <2>2, <2>3
<1>2. ASSUME NEW k \in Nat, k \in S PROVE k + 1 \in S
  <2> HIDE DEF Exists
  <2>0. SUFFICES ASSUME k + 1 <= n PROVE Exists(k + 1)
    OBVIOUS
  <2>9. Exists(k)
    BY <1>2, <2>0
  <2> USE DEF Exists
  <2>1. PICK m \in Nat : m = k + 1 /\ m \in 1 .. n /\ 1 .. k \subseteq 1 .. m
    BY <2>0
  <2>2. PICK f \in [SUBSET (1 .. k) -> A] : Folds(f, base, k, step)
    BY <2>9
  <2>3. PICK g : g = [s \in SUBSET (1 .. m) |->
                          IF m \in s THEN step[m][f[s \ {m}]] ELSE f[s]]
    OBVIOUS
  <2>4. \A s \in SUBSET (1 .. m) : s \ {m} \in SUBSET (1 .. k) /\ (m \notin s => s \in SUBSET (1 .. k))
    BY <2>1
  <2>5. g \in [SUBSET (1 .. m) -> A]
    <3>1. ASSUME NEW s \in SUBSET (1 .. m) PROVE g[s] \in A
      <4>1. CASE m \in s
        <5>1. f[s \ {m}] \in A /\ g[s] = step[m][f[s \ {m}]]
          BY <2>3, <2>4, <4>1
        <5> QED
          BY <2>1, <5>1
      <4>2. CASE m \notin s
        BY <2>3, <2>4, <4>2
      <4> QED
        BY <4>1, <4>2
    <3> QED
      BY <2>3, <3>1
  <2>6. \A s \in SUBSET (1 .. k) : s \in SUBSET (1 .. m) /\ m \notin s /\ g[s] = f[s]
    <3>1. m \notin 1 .. k
      BY <2>1
    <3>2. \A s \in SUBSET (1 .. k) : s \in SUBSET (1 .. m) /\ m \notin s
      BY <2>1, <3>1
    <3> QED
      BY <2>3, <3>2
  <2>7. ASSUME NEW s \in SUBSET (1 .. m)
        PROVE  g[s] = IF s = {} THEN base ELSE step[Max(s)][g[s \ {Max(s)}]]
    <3>1. CASE m \in s
      <4>1. Max(s) = m
        <5>1. Max(s) \in s /\ \A y \in s : y <= Max(s)
          BY <3>1, MaxIs
        <5>2. \A y \in s : y <= m
          BY <2>1
        <5>3. Max(s) \in 1 .. m
          BY <5>1
        <5> QED
          BY <2>1, <3>1, <5>1, <5>2, <5>3
      <4>2. g[s] = step[m][f[s \ {m}]] /\ g[s \ {m}] = f[s \ {m}]
        BY <2>3, <2>4, <2>6, <3>1
      <4> QED
        BY <3>1, <4>1, <4>2
    <3>2. CASE m \notin s
      <4>1. s \in SUBSET (1 .. k) /\ s \ {Max(s)} \in SUBSET (1 .. k)
        BY <2>4, <3>2
      <4>2. f[s] = IF s = {} THEN base ELSE step[Max(s)][f[s \ {Max(s)}]]
        BY <2>2, <4>1 DEF Folds
      <4>3. g[s] = f[s] /\ g[s \ {Max(s)}] = f[s \ {Max(s)}]
        BY <2>6, <4>1
      <4> QED
        BY <4>2, <4>3
    <3> QED
      BY <3>1, <3>2
  <2>8. Folds(g, base, m, step)
    <3>1. g = [s \in SUBSET (1 .. m) |-> g[s]]
      BY <2>5
    <3> QED
      BY <2>7, <3>1, Zenon DEF Folds
  <2> QED
    BY <2>1, <2>5, <2>8
<1>3. Nat \subseteq S
  <2> HIDE DEF S
  <2> QED
    BY <1>1, <1>2, Induction
<1>4. Exists(n)
  <2> HIDE DEF Exists
  <2> QED
    BY <1>3
<1> QED
  BY <1>4

\* T unfolds as such a fold does, wherever it is known to stay in A.
Unfolds(T, A, base, n, step) ==
    /\ T[{}] = base
    /\ \A s \in SUBSET (1 .. n) :
          s # {} /\ T[s \ {Max(s)}] \in A => T[s] = step[Max(s)][T[s \ {Max(s)}]]

\* h[k] is what is folded of the first k elements: one step more for each.
Steps(h, A, base, n, step) ==
    /\ h \in [0 .. n -> A] /\ h[0] = base
    /\ \A k \in 1 .. n : h[k] = step[k][h[k - 1]]

LEMMA FoldSteps ==
  ASSUME NEW A, NEW base \in A, NEW n \in Nat, NEW step \in [1 .. n -> [A -> A]],
         NEW T, Unfolds(T, A, base, n, step)
  PROVE  Steps([k \in 0 .. n |-> T[1 .. k]], A, base, n, step)
<1> DEFINE S == {k \in Nat : k <= n => T[1 .. k] \in A}
<1>1. T[1 .. 0] = base
  <2>1. 1 .. 0 = {}
    OBVIOUS
  <2> QED
    BY <2>1 DEF Unfolds
<1>2. ASSUME NEW k \in 1 .. n, T[1 .. k - 1] \in A
      PROVE  T[1 .. k] = step[k][T[1 .. k - 1]] /\ T[1 .. k] \in A
  <2>1. k \in Nat \ {0} /\ k \in 1 .. k /\ 1 .. k \in SUBSET (1 .. n)
    OBVIOUS
  <2>2. Max(1 .. k) = k /\ (1 .. k) \ {k} = 1 .. k - 1
    BY <2>1, MaxOfPrefix
  <2>3. T[1 .. k] = step[k][T[1 .. k - 1]]
    BY <1>2, <2>1, <2>2 DEF Unfolds
  <2> QED
    BY <1>2, <2>3
<1>3. 0 \in S
  BY <1>1
<1>4. ASSUME NEW k \in Nat, k \in S PROVE k + 1 \in S
  <2>0. SUFFICES ASSUME k + 1 <= n PROVE T[1 .. k + 1] \in A
    OBVIOUS
  <2>1. PICK m \in 1 .. n : m = k + 1 /\ m - 1 = k /\ T[1 .. k] \in A
    BY <1>4, <2>0
  <2> QED
    BY <1>2, <2>1
<1>5. Nat \subseteq S
  <2> HIDE DEF S
  <2> QED
    BY <1>3, <1>4, Induction
<1>6. \A k \in 0 .. n : T[1 .. k] \in A
  BY <1>5
<1>7. PICK h : h = [k \in 0 .. n |-> T[1 .. k]]
  OBVIOUS
<1>8. h \in [0 .. n -> A] /\ h[0] = base
  BY <1>1, <1>6, <1>7
<1>9. \A k \in 1 .. n : h[k] = step[k][h[k - 1]]
  <2> SUFFICES ASSUME NEW k \in 1 .. n PROVE h[k] = step[k][h[k - 1]]
    OBVIOUS
  <2>1. k \in 0 .. n /\ k - 1 \in 0 .. n
    OBVIOUS
  <2> QED
    BY <1>2, <1>6, <1>7, <2>1
<1> QED
  BY <1>7, <1>8, <1>9 DEF Steps

-----------------------------------------------------------------------------
(* Lines. *)

AnyPiece == Piece \cup {NewLine}

\* Everything a statement can stream is put into a line of A, and gives one.
KeptByPut(A) == \A a \in A, p \in AnyPiece : Put(a, p) \in A

\* To the provers, this fold is an operator of its own.
PutAll(base, ps) == FoldLeft(Put, base, ps)

\* Put, piece after piece: after k of them, the line is h[k].
LEMMA PutFold ==
  ASSUME NEW A, NEW base \in A, KeptByPut(A), NEW ps \in Seq(AnyPiece), NEW n, n = Len(ps)
  PROVE  \E h \in [0 .. n -> A] : /\ h[0] = base /\ h[n] = PutAll(base, ps)
                                  /\ \A k \in 1 .. n : h[k] = Put(h[k - 1], ps[k])
<1> DEFINE Made(g) == g = [s \in SUBSET (DOMAIN ps) |->
                              IF s = {} THEN base ELSE Put(g[s \ {Max(s)}], ps[Max(s)])]
           T == CHOOSE g : Made(g)
<1>1. PutAll(base, ps) = T[DOMAIN ps]
  BY DEF PutAll, FoldLeft, MapThenFoldSet
<1>2. n \in Nat /\ DOMAIN ps = 1 .. n /\ \A k \in 1 .. n : ps[k] \in AnyPiece
  BY LenProperties, ElementOfSeq
<1>3. PICK step : step = [k \in 1 .. n |-> [a \in A |-> Put(a, ps[k])]]
  OBVIOUS
<1>4. step \in [1 .. n -> [A -> A]] /\ \A k \in 1 .. n, a \in A : step[k][a] = Put(a, ps[k])
  BY <1>2, <1>3 DEF KeptByPut
<1>5. \E g : Made(g)
  <2>1. PICK g \in [SUBSET (1 .. n) -> A] : Folds(g, base, n, step)
    BY <1>2, <1>4, FoldsExist
  <2>2. ASSUME NEW s \in SUBSET (1 .. n), s # {}
        PROVE  step[Max(s)][g[s \ {Max(s)}]] = Put(g[s \ {Max(s)}], ps[Max(s)])
    <3>1. Max(s) \in 1 .. n /\ s \ {Max(s)} \in SUBSET (1 .. n)
      BY <1>2, <2>2, MaxIs
    <3> QED
      BY <1>4, <3>1
  <2>3. g = [s \in SUBSET (1 .. n) |->
                IF s = {} THEN base ELSE Put(g[s \ {Max(s)}], ps[Max(s)])]
    BY <2>1, <2>2 DEF Folds
  <2> QED
    BY <1>2, <2>3
<1>6. Made(T)
  <2> HIDE DEF Made
  <2> QED
    BY <1>5
<1>7. \A s \in SUBSET (1 .. n) : T[s] = IF s = {} THEN base ELSE Put(T[s \ {Max(s)}], ps[Max(s)])
  <2> HIDE DEF T
  <2> QED
    BY <1>2, <1>6
<1> HIDE DEF T
<1>8. Unfolds(T, A, base, n, step)
  BY <1>2, <1>4, <1>7, MaxIs DEF Unfolds
<1>9. PICK h : h = [k \in 0 .. n |-> T[1 .. k]] /\ Steps(h, A, base, n, step)
  BY <1>2, <1>4, <1>8, FoldSteps
<1>10. h \in [0 .. n -> A] /\ h[0] = base /\ h[n] = PutAll(base, ps)
  BY <1>1, <1>2, <1>9 DEF Steps
<1>11. \A k \in 1 .. n : h[k] = Put(h[k - 1], ps[k])
  <2>1. \A k \in 1 .. n : k - 1 \in 0 .. n /\ h[k - 1] \in A
    <3>1. \A k \in 1 .. n : k - 1 \in 0 .. n
      BY <1>2
    <3> QED
      BY <1>10, <3>1
  <2> QED
    BY <1>4, <1>9, <2>1 DEF Steps
<1> QED
  BY <1>10, <1>11, Zenon

LEMMA PiecesAre ==
  ASSUME NEW s \in DOMAIN Statements
  PROVE  Pieces(Statements[s]) \in Seq(AnyPiece) /\ NumberSize >= 2
<1>1. \A size \in Nat : Text(size) \in AnyPiece
  BY DEF Text, Piece, AnyPiece
<1>2. Number(Statements[s].line) \in AnyPiece /\ Statements[s].pieces \in Seq(Piece)
  BY LogAssumption DEF AnyPiece
<1>3. Text(LevelSize) \in AnyPiece /\ Text(TimeSize) \in AnyPiece /\ Text(NameSize) \in AnyPiece
      /\ Text(1) \in AnyPiece
  BY <1>1, LineAssumption
<1>4. Header(Statements[s]) \in Seq(AnyPiece)
  BY <1>2, <1>3 DEF Header
<1>5. Statements[s].pieces \in Seq(AnyPiece)
  BY <1>2, SeqMonotonic DEF AnyPiece
<1>6. <<NewLine>> \in Seq(AnyPiece)
  BY DEF AnyPiece
<1>7. Pieces(Statements[s]) \in Seq(AnyPiece)
  <2>1. Header(Statements[s]) \o Statements[s].pieces \in Seq(AnyPiece)
    BY <1>4, <1>5, ConcatProperties
  <2> QED
    BY <1>6, <2>1, ConcatProperties DEF Pieces
<1>8. NumberSize >= 2
  <2>1. Number(Statements[s].line) \in Piece /\ Number(Statements[s].line).kind = "number"
    BY LogAssumption DEF Number
  <2>2. Number(Statements[s].line).size \in 1 .. NumberSize - 1
    BY <2>1 DEF Piece
  <2> QED
    BY <2>2, LineAssumption
<1> QED
  BY <1>7, <1>8

\* A line that is not over its limit, made of pieces.
ALine == [size : 0 .. LineSize - 1, pieces : Seq(AnyPiece)]

LEMMA PutKeepsALine == KeptByPut(ALine)
<1> SUFFICES ASSUME NEW a \in ALine, NEW p \in AnyPiece PROVE Put(a, p) \in ALine
  BY DEF KeptByPut
<1>1. a.size \in 0 .. LineSize - 1 /\ a.pieces \in Seq(AnyPiece)
  BY DEF ALine
<1>2. p.size \in Nat /\ (p.kind = "number" => p.size \in 1 .. NumberSize - 1)
  BY DEF AnyPiece, Piece, NewLine
<1>3. CASE Holds(a, p)
  <2>1. a.size + p.size \in 0 .. LineSize - 1
    BY <1>1, <1>2, <1>3, LineAssumption DEF Holds, LineCapacity
  <2>2. Append(a.pieces, p) \in Seq(AnyPiece)
    BY <1>1, AppendProperties
  <2> QED
    BY <1>3, <2>1, <2>2 DEF Put, ALine
<1>4. CASE ~Holds(a, p)
  BY <1>4 DEF Put
<1> QED
  BY <1>3, <1>4

LEMMA LinesAreLines == \A s \in DOMAIN Statements : Lines[s] \in ALine
<1> SUFFICES ASSUME NEW s \in DOMAIN Statements PROVE LineOf(Statements[s]) \in ALine
  BY DEF Lines
<1>1. PICK base : base = [size |-> 0, pieces |-> <<>>]
  OBVIOUS
<1>2. base \in ALine
  BY <1>1, LineAssumption, EmptySeq DEF ALine
<1>3. PICK ps, n : ps = Pieces(Statements[s]) /\ n = Len(ps)
  OBVIOUS
<1>4. ps \in Seq(AnyPiece) /\ n \in Nat
  BY <1>3, PiecesAre, LenProperties
<1>5. PutAll(base, ps) \in ALine
  <2>1. PICK A : A = ALine
    OBVIOUS
  <2>2. base \in A /\ KeptByPut(A) /\ n = Len(ps)
    BY <1>2, <1>3, <2>1, PutKeepsALine
  <2>3. \E h \in [0 .. n -> A] : h[n] = PutAll(base, ps)
    BY <1>4, <2>2, PutFold
  <2> QED
    BY <1>4, <2>1, <2>3
<1> QED
  BY <1>1, <1>3, <1>5 DEF LineOf, PutAll

\* What a line takes is less than a line buffer has, let alone a large one.
LEMMA EveryLineFits == \A s \in DOMAIN Statements : Fits(0, s)
<1> SUFFICES ASSUME NEW s \in DOMAIN Statements PROVE Fits(0, s)
  OBVIOUS
<1>1. Lines[s].size \in 0 .. LineSize - 1
  BY LinesAreLines DEF ALine
<1> QED
  BY <1>1, LineAssumption, LogAssumption DEF Fits

-----------------------------------------------------------------------------
SizeOf(ps) == FoldLeft(LAMBDA n, p : n + p.size, 0, ps)

\* w[k] is the size of the first k pieces.
Sizes(w, ps, n) ==
    /\ w \in [0 .. n -> Nat] /\ w[0] = 0 /\ w[n] = SizeOf(ps)
    /\ \A k \in 1 .. n : w[k] = w[k - 1] + ps[k].size

LEMMA SizeFold ==
  ASSUME NEW ps \in Seq(AnyPiece), NEW n, n = Len(ps)
  PROVE  \E w : Sizes(w, ps, n)
<1> DEFINE Made(g) == g = [s \in SUBSET (DOMAIN ps) |->
                              IF s = {} THEN 0 ELSE g[s \ {Max(s)}] + ps[Max(s)].size]
           T == CHOOSE g : Made(g)
<1>1. SizeOf(ps) = T[DOMAIN ps]
  BY DEF SizeOf, FoldLeft, MapThenFoldSet
<1>2. n \in Nat /\ DOMAIN ps = 1 .. n /\ \A k \in 1 .. n : ps[k].size \in Nat
  <2>1. \A p \in AnyPiece : p.size \in Nat
    BY DEF AnyPiece, Piece, NewLine
  <2> QED
    BY <2>1, LenProperties, ElementOfSeq
<1>3. PICK step : step = [k \in 1 .. n |-> [a \in Nat |-> a + ps[k].size]]
  OBVIOUS
<1>4. step \in [1 .. n -> [Nat -> Nat]] /\ \A k \in 1 .. n, a \in Nat : step[k][a] = a + ps[k].size
  <2>1. ASSUME NEW k \in 1 .. n PROVE [a \in Nat |-> a + ps[k].size] \in [Nat -> Nat]
    BY <1>2
  <2>2. \A k \in 1 .. n : step[k] = [a \in Nat |-> a + ps[k].size]
    BY <1>3
  <2>3. step \in [1 .. n -> [Nat -> Nat]]
    BY <1>3, <2>1
  <2>4. ASSUME NEW k \in 1 .. n, NEW a \in Nat PROVE step[k][a] = a + ps[k].size
    <3>1. step[k] = [x \in Nat |-> x + ps[k].size]
      BY <2>2
    <3> QED
      BY <3>1
  <2> QED
    BY <2>3, <2>4
<1>5. \E g : Made(g)
  <2>1. PICK g \in [SUBSET (1 .. n) -> Nat] : Folds(g, 0, n, step)
    BY <1>2, <1>4, FoldsExist
  <2>2. ASSUME NEW s \in SUBSET (1 .. n), s # {}
        PROVE  step[Max(s)][g[s \ {Max(s)}]] = g[s \ {Max(s)}] + ps[Max(s)].size
    <3>1. Max(s) \in 1 .. n /\ s \ {Max(s)} \in SUBSET (1 .. n)
      BY <1>2, <2>2, MaxIs
    <3> QED
      BY <1>4, <3>1
  <2>3. g = [s \in SUBSET (1 .. n) |->
                IF s = {} THEN 0 ELSE g[s \ {Max(s)}] + ps[Max(s)].size]
    BY <2>1, <2>2 DEF Folds
  <2> QED
    BY <1>2, <2>3
<1>6. Made(T)
  <2> HIDE DEF Made
  <2> QED
    BY <1>5
<1>7. \A s \in SUBSET (1 .. n) : T[s] = IF s = {} THEN 0 ELSE T[s \ {Max(s)}] + ps[Max(s)].size
  <2> HIDE DEF T
  <2> QED
    BY <1>2, <1>6
<1> HIDE DEF T
<1>8. Unfolds(T, Nat, 0, n, step)
  BY <1>2, <1>4, <1>7, MaxIs DEF Unfolds
<1>9. PICK h : h = [k \in 0 .. n |-> T[1 .. k]] /\ Steps(h, Nat, 0, n, step)
  BY <1>2, <1>4, <1>8, FoldSteps
<1>10. h \in [0 .. n -> Nat] /\ h[0] = 0 /\ h[n] = SizeOf(ps)
  BY <1>1, <1>2, <1>9 DEF Steps
<1>11. \A k \in 1 .. n : h[k] = h[k - 1] + ps[k].size
  <2>1. \A k \in 1 .. n : k - 1 \in 0 .. n /\ h[k - 1] \in Nat
    <3>1. \A k \in 1 .. n : k - 1 \in 0 .. n
      BY <1>2
    <3> QED
      BY <1>10, <3>1
  <2> QED
    BY <1>4, <1>9, <2>1 DEF Steps
<1> QED
  BY <1>10, <1>11 DEF Sizes

\* r[k] is what the first k digits read as.
Readings(r, ds, n) ==
    /\ r \in [0 .. n -> Nat] /\ r[0] = 0 /\ r[n] = Reads(ds)
    /\ \A k \in 1 .. n : r[k] = 10 * r[k - 1] + ds[k]

LEMMA ReadsFold ==
  ASSUME NEW ds \in Seq(Nat), NEW n, n = Len(ds)
  PROVE  \E r : Readings(r, ds, n)
<1> DEFINE Made(g) == g = [s \in SUBSET (DOMAIN ds) |->
                              IF s = {} THEN 0 ELSE 10 * g[s \ {Max(s)}] + ds[Max(s)]]
           T == CHOOSE g : Made(g)
<1>1. Reads(ds) = T[DOMAIN ds]
  BY DEF Reads, FoldLeft, MapThenFoldSet
<1>2. n \in Nat /\ DOMAIN ds = 1 .. n /\ \A k \in 1 .. n : ds[k] \in Nat
  BY LenProperties, ElementOfSeq
<1>3. PICK step : step = [k \in 1 .. n |-> [a \in Nat |-> 10 * a + ds[k]]]
  OBVIOUS
<1>4. step \in [1 .. n -> [Nat -> Nat]] /\ \A k \in 1 .. n, a \in Nat : step[k][a] = 10 * a + ds[k]
  <2>1. \A k \in 1 .. n, a \in Nat : 10 * a + ds[k] \in Nat
    BY <1>2
  <2> QED
    BY <1>3, <2>1
<1>5. \E g : Made(g)
  <2>1. PICK g \in [SUBSET (1 .. n) -> Nat] : Folds(g, 0, n, step)
    BY <1>2, <1>4, FoldsExist
  <2>2. ASSUME NEW s \in SUBSET (1 .. n), s # {}
        PROVE  step[Max(s)][g[s \ {Max(s)}]] = 10 * g[s \ {Max(s)}] + ds[Max(s)]
    <3>1. Max(s) \in 1 .. n /\ s \ {Max(s)} \in SUBSET (1 .. n)
      BY <1>2, <2>2, MaxIs
    <3> QED
      BY <1>4, <3>1
  <2>3. g = [s \in SUBSET (1 .. n) |->
                IF s = {} THEN 0 ELSE 10 * g[s \ {Max(s)}] + ds[Max(s)]]
    BY <2>1, <2>2 DEF Folds
  <2> QED
    BY <1>2, <2>3
<1>6. Made(T)
  <2> HIDE DEF Made
  <2> QED
    BY <1>5
<1>7. \A s \in SUBSET (1 .. n) : T[s] = IF s = {} THEN 0 ELSE 10 * T[s \ {Max(s)}] + ds[Max(s)]
  <2> HIDE DEF T
  <2> QED
    BY <1>2, <1>6
<1> HIDE DEF T
<1>8. Unfolds(T, Nat, 0, n, step)
  BY <1>2, <1>4, <1>7, MaxIs DEF Unfolds
<1>9. PICK h : h = [k \in 0 .. n |-> T[1 .. k]] /\ Steps(h, Nat, 0, n, step)
  BY <1>2, <1>4, <1>8, FoldSteps
<1>10. h \in [0 .. n -> Nat] /\ h[0] = 0 /\ h[n] = Reads(ds)
  BY <1>1, <1>2, <1>9 DEF Steps
<1>11. \A k \in 1 .. n : h[k] = 10 * h[k - 1] + ds[k]
  <2>1. \A k \in 1 .. n : k - 1 \in 0 .. n /\ h[k - 1] \in Nat
    <3>1. \A k \in 1 .. n : k - 1 \in 0 .. n
      BY <1>2
    <3> QED
      BY <1>10, <3>1
  <2> QED
    BY <1>4, <1>9, <2>1 DEF Steps
<1> QED
  BY <1>10, <1>11 DEF Readings

-----------------------------------------------------------------------------
(* A line with room to spare keeps all its pieces. *)

LEMMA RoomForAll ==
  ASSUME NEW ps \in Seq(AnyPiece), NumberSize \in Nat \ {0},
         SizeOf(ps) + NumberSize <= LineSize,
         NEW base \in ALine, base.size = 0, base.pieces = <<>>
  PROVE  PutAll(base, ps).pieces = ps
<1>1. PICK n : n = Len(ps)
  OBVIOUS
<1>2. n \in Nat /\ \A k \in 1 .. n : ps[k] \in AnyPiece
  BY <1>1, LenProperties, ElementOfSeq
<1>3. PICK w \in [0 .. n -> Nat] : /\ w[0] = 0 /\ w[n] = SizeOf(ps)
                                   /\ \A k \in 1 .. n : w[k] = w[k - 1] + ps[k].size
  <2>1. \E w : Sizes(w, ps, n)
    BY <1>1, SizeFold
  <2> QED
    BY <2>1 DEF Sizes
<1>4. PICK h : /\ h[0] = base /\ h[n] = PutAll(base, ps)
               /\ \A k \in 1 .. n : h[k] = Put(h[k - 1], ps[k])
  <2>1. PICK A : A = ALine
    OBVIOUS
  <2>2. base \in A /\ KeptByPut(A)
    BY <2>1, PutKeepsALine
  <2>3. PICK h \in [0 .. n -> A] : /\ h[0] = base /\ h[n] = PutAll(base, ps)
                                   /\ \A k \in 1 .. n : h[k] = Put(h[k - 1], ps[k])
    BY <1>1, <2>2, PutFold
  <2> QED
    BY <2>3
<1>5. \A k \in 1 .. n : ps[k].size \in Nat /\ (ps[k].kind # "number" => ps[k].kind \in {"text", "end"})
  <2>1. \A p \in AnyPiece : p.size \in Nat /\ (p.kind # "number" => p.kind \in {"text", "end"})
    BY DEF AnyPiece, Piece, NewLine
  <2> QED
    BY <1>2, <2>1
<1>6. \A k \in 0 .. n : w[k] <= w[n]
  <2> DEFINE S == {j \in Nat : j <= n => w[n - j] <= w[n]}
  <2>1. 0 \in S
    BY <1>2, <1>3
  <2>2. ASSUME NEW j \in Nat, j \in S PROVE j + 1 \in S
    <3>0. SUFFICES ASSUME j + 1 <= n PROVE w[n - (j + 1)] <= w[n]
      OBVIOUS
    <3>1. PICK k \in 1 .. n : k = n - j /\ k - 1 = n - (j + 1) /\ k - 1 \in 0 .. n /\ k \in 0 .. n
      BY <1>2, <3>0
    <3>2. w[k] <= w[n] /\ w[k] = w[k - 1] + ps[k].size
      <4>1. w[n - j] <= w[n]
        BY <1>2, <2>2, <3>0
      <4>2. w[k] = w[k - 1] + ps[k].size
        BY <1>3
      <4> QED
        BY <3>1, <4>1, <4>2
    <3>3. w[k] \in Nat /\ w[k - 1] \in Nat /\ w[n] \in Nat
      BY <1>2, <1>3, <3>1
    <3>4. w[k - 1] <= w[n]
      BY <1>5, <3>2, <3>3
    <3> QED
      BY <3>1, <3>4
  <2>3. Nat \subseteq S
    <3> HIDE DEF S
    <3> QED
      BY <2>1, <2>2, Induction
  <2>4. \A k \in 0 .. n : n - k \in Nat /\ n - (n - k) = k /\ n - k <= n
    BY <1>2
  <2>5. \A j \in Nat : j <= n => w[n - j] <= w[n]
    BY <2>3
  <2> QED
    BY <2>4, <2>5
<1>7. \A k \in 0 .. n : h[k].size = w[k] /\ h[k].pieces = SubSeq(ps, 1, k)
  <2> DEFINE S == {k \in Nat : k <= n => h[k].size = w[k] /\ h[k].pieces = SubSeq(ps, 1, k)}
  <2>1. 0 \in S
    <3>1. SubSeq(ps, 1, 0) = <<>>
      BY SubSeqEmpty
    <3> QED
      BY <1>3, <1>4, <3>1
  <2>2. ASSUME NEW j \in Nat, j \in S PROVE j + 1 \in S
    <3>0. SUFFICES ASSUME j + 1 <= n
                   PROVE  h[j + 1].size = w[j + 1] /\ h[j + 1].pieces = SubSeq(ps, 1, j + 1)
      OBVIOUS
    <3>1. PICK k \in 1 .. n : k = j + 1 /\ k - 1 = j /\ k - 1 \in 0 .. n /\ k \in 0 .. n
      BY <1>2, <3>0
    <3>2. h[k - 1].size = w[k - 1] /\ h[k - 1].pieces = SubSeq(ps, 1, k - 1)
      BY <2>2, <3>1
    <3>3. PICK a, p : a = h[k - 1] /\ p = ps[k] /\ h[k] = Put(a, p)
      BY <1>4
    <3>4. /\ w[k] = w[k - 1] + p.size /\ w[k] <= w[n] /\ w[n] + NumberSize <= LineSize
          /\ w[k - 1] <= w[n] /\ w[k - 1] \in Nat /\ w[k] \in Nat /\ w[n] \in Nat /\ p.size \in Nat
          /\ a.size = w[k - 1]
      BY <1>2, <1>3, <1>5, <1>6, <3>1, <3>2, <3>3
    <3>5. Holds(a, p)
      <4> HIDE DEF S
      <4>1. LineSize - a.size >= NumberSize /\ LineSize - a.size > p.size
        BY <3>4, LineAssumption
      <4> QED
        BY <4>1 DEF Holds, LineCapacity
    <3>6. h[k].size = w[k] /\ h[k].pieces = Append(SubSeq(ps, 1, k - 1), p)
      BY <3>2, <3>3, <3>4, <3>5 DEF Put
    <3>7. Append(SubSeq(ps, 1, k - 1), p) = SubSeq(ps, 1, k)
      <4>1. 1 \in 1 .. Len(ps) /\ k \in 1 .. Len(ps)
        BY <1>1, <1>2
      <4>2. SubSeq(ps, 1, k) = SubSeq(ps, 1, k - 1) \o <<ps[k]>>
        BY <4>1, SubSeqRecursiveSecond
      <4>3. SubSeq(ps, 1, k - 1) \in Seq(AnyPiece) /\ p \in AnyPiece
        BY <1>1, <1>2, <3>3, PrefixRange
      <4> QED
        BY <3>3, <4>2, <4>3, AppendIsConcat
    <3> QED
      BY <3>1, <3>6, <3>7
  <2>3. Nat \subseteq S
    <3> HIDE DEF S
    <3> QED
      BY <2>1, <2>2, Induction
  <2> QED
    BY <1>2, <2>3
<1> QED
  BY <1>1, <1>2, <1>4, <1>7, SubSeqFull

-----------------------------------------------------------------------------
(* The digits of a number. *)

LEMMA ReadsAppend ==
  ASSUME NEW ds \in Seq(Nat), NEW d \in Nat
  PROVE  /\ Reads(<<>>) = 0 /\ Reads(ds) \in Nat
         /\ Reads(Append(ds, d)) = 10 * Reads(ds) + d
<1>1. Reads(<<>>) = 0
  <2>1. <<>> \in Seq(Nat) /\ 0 = Len(<<>>)
    BY EmptySeq
  <2>2. \E r : Readings(r, <<>>, 0)
    BY <2>1, ReadsFold
  <2> QED
    BY <2>2 DEF Readings
<1>2. PICK n, m, t : n = Len(ds) /\ m = n + 1 /\ t = Append(ds, d)
  OBVIOUS
<1>3. /\ n \in Nat /\ m \in Nat /\ t \in Seq(Nat) /\ m = Len(t) /\ t[m] = d
      /\ \A k \in 1 .. n : t[k] = ds[k]
  BY <1>2, AppendProperties, LenProperties
<1>4. PICK q : Readings(q, ds, n)
  BY <1>2, ReadsFold
<1>5. PICK r : Readings(r, t, m)
  BY <1>3, ReadsFold
<1>6. \A k \in 0 .. n : r[k] = q[k]
  <2> DEFINE S == {k \in Nat : k <= n => r[k] = q[k]}
  <2>1. 0 \in S
    BY <1>4, <1>5 DEF Readings
  <2>2. ASSUME NEW j \in Nat, j \in S PROVE j + 1 \in S
    <3>0. SUFFICES ASSUME j + 1 <= n PROVE r[j + 1] = q[j + 1]
      OBVIOUS
    <3>1. PICK k \in 1 .. n : k = j + 1 /\ k - 1 = j /\ k \in 1 .. m
      BY <1>2, <1>3, <3>0
    <3>2. r[k - 1] = q[k - 1] /\ t[k] = ds[k]
      BY <1>3, <2>2, <3>0, <3>1
    <3>3. r[k] = 10 * r[k - 1] + t[k] /\ q[k] = 10 * q[k - 1] + ds[k]
      BY <1>4, <1>5, <3>1 DEF Readings
    <3> QED
      BY <3>1, <3>2, <3>3
  <2>3. Nat \subseteq S
    <3> HIDE DEF S
    <3> QED
      BY <2>1, <2>2, Induction
  <2> QED
    BY <1>3, <2>3
<1>7. q[n] = Reads(ds) /\ q[n] \in Nat /\ r[n] = q[n] /\ r[m] = Reads(t)
  BY <1>3, <1>4, <1>5, <1>6 DEF Readings
<1>8. r[m] = 10 * r[m - 1] + t[m] /\ m - 1 = n
  <2>1. m \in 1 .. m /\ m - 1 = n
    BY <1>2, <1>3
  <2> QED
    BY <1>5, <2>1 DEF Readings
<1> QED
  BY <1>1, <1>2, <1>3, <1>7, <1>8

LEMMA QuotRem ==
  ASSUME NEW n \in Int
  PROVE  /\ Quot(n) \in Int /\ Rem(n) \in Int /\ Zero(n) \in Nat /\ Zero(Rem(n)) \in Nat
         /\ 10 * Zero(Quot(n)) + Zero(Rem(n)) = Zero(n)
         /\ Quot(n) # 0 => Zero(Quot(n)) < Zero(n)
<1>1. CASE n >= 0
  <2>1. PICK q \in Nat : q = n \div 10 /\ 10 * q <= n /\ n < 10 * q + 10
    BY <1>1
  <2>2. Quot(n) = q /\ Rem(n) = n - 10 * q
    BY <1>1, <2>1 DEF Quot, Rem
  <2>3. Zero(q) = q /\ Zero(n) = n /\ Zero(n - 10 * q) = n - 10 * q
    BY <1>1, <2>1 DEF Zero
  <2> QED
    BY <1>1, <2>1, <2>2, <2>3
<1>2. CASE n < 0
  <2>1. PICK m \in Nat : m = 0 - n /\ n = 0 - m
    BY <1>2
  <2>2. PICK q \in Nat : q = m \div 10 /\ 10 * q <= m /\ m < 10 * q + 10
    BY <2>1
  <2>3. Quot(n) = 0 - q /\ Rem(n) = 10 * q - m
    BY <1>2, <2>1, <2>2 DEF Quot, Rem
  <2>4. Zero(0 - q) = q /\ Zero(n) = m /\ Zero(10 * q - m) = m - 10 * q
    BY <1>2, <2>1, <2>2 DEF Zero
  <2> QED
    BY <1>2, <2>1, <2>2, <2>3, <2>4
<1> QED
  BY <1>1, <1>2

\* What IntToString makes of n, when f tells what it makes of the quotient.
NextDigit(f, n) == (IF Quot(n) = 0 THEN <<>> ELSE f[Quot(n)]) \o <<Zero(Rem(n))>>

Upto(k) == {n \in Int : Zero(n) <= k}

WritesDigits(f, k) == \A n \in Upto(k) : f[n] = NextDigit(f, n)

LEMMA DigitsUpto ==
  ASSUME NEW k \in Nat PROVE \E f : WritesDigits(f, k)
<1> DEFINE S == {j \in Nat : \E f : WritesDigits(f, j)}
<1>1. 0 \in S
  <2>1. PICK f : f = [n \in {0} |-> NextDigit(<<>>, n)]
    OBVIOUS
  <2>2. Upto(0) = {0} /\ Quot(0) = 0
    BY DEF Upto, Zero, Quot
  <2>3. WritesDigits(f, 0)
    BY <2>1, <2>2 DEF WritesDigits, NextDigit
  <2> QED
    BY <2>3
<1>2. ASSUME NEW j \in Nat, j \in S PROVE j + 1 \in S
  <2>1. PICK f : WritesDigits(f, j)
    BY <1>2
  <2>2. PICK g : g = [n \in Upto(j + 1) |-> IF n \in Upto(j) THEN f[n] ELSE NextDigit(f, n)]
    OBVIOUS
  <2>3. Upto(j) \subseteq Upto(j + 1)
    BY QuotRem DEF Upto
  <2>4. ASSUME NEW n \in Upto(j + 1) PROVE Quot(n) # 0 => Quot(n) \in Upto(j)
    BY QuotRem DEF Upto
  <2>5. \A n \in Upto(j + 1) : g[n] = NextDigit(f, n)
    BY <2>1, <2>2 DEF WritesDigits
  <2>6. \A n \in Upto(j + 1) : NextDigit(g, n) = NextDigit(f, n)
    BY <2>2, <2>3, <2>4 DEF NextDigit
  <2>7. WritesDigits(g, j + 1)
    BY <2>5, <2>6 DEF WritesDigits
  <2> QED
    BY <2>7
<1>3. Nat \subseteq S
  <2> HIDE DEF S
  <2> QED
    BY <1>1, <1>2, Induction
<1> QED
  BY <1>3

LEMMA DigitsAgree ==
  ASSUME NEW k \in Nat, NEW m \in Nat, NEW f, NEW g, WritesDigits(f, k), WritesDigits(g, m)
  PROVE  \A n \in Upto(k) \cap Upto(m) : f[n] = g[n]
<1> DEFINE S == {j \in Nat : \A n \in Upto(k) \cap Upto(m) : Zero(n) <= j => f[n] = g[n]}
<1>1. ASSUME NEW j \in Nat, \A i \in 0 .. j - 1 : i \in S,
             NEW n \in Upto(k) \cap Upto(m), Zero(n) <= j
      PROVE  f[n] = g[n]
  <2>1. n \in Int /\ Quot(n) \in Int
    BY QuotRem DEF Upto
  <2>2. f[n] = NextDigit(f, n) /\ g[n] = NextDigit(g, n)
    BY DEF WritesDigits
  <2>3. ASSUME Quot(n) # 0 PROVE f[Quot(n)] = g[Quot(n)]
    <3>1. PICK i \in 0 .. j - 1 : i = Zero(Quot(n))
      BY <1>1, <2>1, <2>3, QuotRem
    <3>2. Quot(n) \in Upto(k) \cap Upto(m)
      BY <2>1, <2>3, QuotRem DEF Upto
    <3>3. i \in S
      BY <1>1, <3>1
    <3> QED
      BY <3>1, <3>2, <3>3
  <2> QED
    BY <2>2, <2>3 DEF NextDigit
<1>2. Progressive(S)
  BY <1>1 DEF Progressive
<1>3. Nat \subseteq S
  <2> HIDE DEF S
  <2> QED
    BY <1>2, StrongInduction
<1> QED
  BY <1>3, QuotRem DEF Upto

LEMMA IntToStringIs == \A n \in Int : IntToString[n] = NextDigit(IntToString, n)
<1> DEFINE Made(g) == g = [n \in Int |-> (IF Quot(n) = 0 THEN <<>> ELSE g[Quot(n)]) \o <<Zero(Rem(n))>>]
           D(k) == CHOOSE f : WritesDigits(f, k)
<1>1. \A k \in Nat : WritesDigits(D(k), k)
  BY DigitsUpto
<1> HIDE DEF D
<1>2. PICK g : g = [n \in Int |-> D(Zero(n))[n]]
  OBVIOUS
<1>3. ASSUME NEW n \in Int PROVE g[n] = NextDigit(g, n)
  <2>1. Zero(n) \in Nat /\ n \in Upto(Zero(n)) /\ Quot(n) \in Int
    BY QuotRem DEF Upto
  <2>2. g[n] = NextDigit(D(Zero(n)), n)
    BY <1>1, <1>2, <2>1 DEF WritesDigits
  <2>3. ASSUME Quot(n) # 0 PROVE D(Zero(n))[Quot(n)] = g[Quot(n)]
    <3>1. PICK m \in Nat : m = Zero(Quot(n)) /\ m < Zero(n)
      BY <2>1, <2>3, QuotRem
    <3>2. Quot(n) \in Upto(Zero(n)) \cap Upto(m)
      BY <2>1, <3>1 DEF Upto
    <3>3. WritesDigits(D(Zero(n)), Zero(n)) /\ WritesDigits(D(m), m)
      BY <1>1, <2>1
    <3>4. D(Zero(n))[Quot(n)] = D(m)[Quot(n)]
      BY <2>1, <3>2, <3>3, DigitsAgree
    <3> QED
      BY <1>2, <2>1, <3>1, <3>4
  <2> QED
    BY <2>2, <2>3 DEF NextDigit
<1>4. Made(g)
  BY <1>2, <1>3 DEF NextDigit
<1>5. Made(CHOOSE f : Made(f))
  <2> HIDE DEF Made
  <2> QED
    BY <1>4
<1>6. IntToString = CHOOSE f : Made(f)
  BY DEF IntToString
<1>7. Made(IntToString)
  BY <1>5, <1>6
<1> QED
  BY <1>7 DEF NextDigit

\* The digits of a number, read back, are the number without its sign.
LEMMA DigitsRead ==
  ASSUME NEW v \in Int
  PROVE  IntToString[v] \in Seq(Nat) /\ Reads(IntToString[v]) = Zero(v)
<1> DEFINE ReadsBack(n) == IntToString[n] \in Seq(Nat) /\ Reads(IntToString[n]) = Zero(n)
           S == {j \in Nat : \A n \in Int : Zero(n) = j => ReadsBack(n)}
<1>1. ASSUME NEW j \in Nat, \A i \in 0 .. j - 1 : i \in S, NEW n \in Int, Zero(n) = j
      PROVE  ReadsBack(n)
  <2>1. PICK d \in Nat : d = Zero(Rem(n))
    BY QuotRem
  <2>2. PICK ds : ds = IF Quot(n) = 0 THEN <<>> ELSE IntToString[Quot(n)]
    OBVIOUS
  <2>3. ds \in Seq(Nat) /\ Reads(ds) = Zero(Quot(n))
    <3>1. CASE Quot(n) = 0
      <4>1. <<>> \in Seq(Nat) /\ 0 \in Nat /\ Zero(0) = 0
        BY EmptySeq DEF Zero
      <4>2. Reads(<<>>) = 0
        BY <4>1, ReadsAppend
      <4> QED
        BY <2>2, <3>1, <4>1, <4>2
    <3>2. CASE Quot(n) # 0
      <4>1. PICK i \in 0 .. j - 1 : i = Zero(Quot(n)) /\ Quot(n) \in Int
        <5>1. Quot(n) \in Int /\ Zero(Quot(n)) < Zero(n)
          BY <3>2, QuotRem
        <5>2. Zero(Quot(n)) \in Nat
          BY <5>1, QuotRem
        <5> QED
          BY <1>1, <5>1, <5>2
      <4>2. i \in S
        BY <1>1
      <4>3. ReadsBack(Quot(n))
        BY <4>1, <4>2
      <4> QED
        BY <2>2, <3>2, <4>3
    <3> QED
      BY <3>1, <3>2
  <2>4. IntToString[n] = ds \o <<d>>
    BY <2>1, <2>2, IntToStringIs DEF NextDigit
  <2>5. ds \o <<d>> = Append(ds, d) /\ Append(ds, d) \in Seq(Nat)
    BY <2>3, AppendIsConcat, AppendProperties
  <2>6. Reads(Append(ds, d)) = 10 * Reads(ds) + d
    BY <2>3, ReadsAppend
  <2>7. 10 * Zero(Quot(n)) + d = Zero(n)
    BY <2>1, QuotRem
  <2> QED
    BY <2>3, <2>4, <2>5, <2>6, <2>7
<1>2. Progressive(S)
  <2> HIDE DEF ReadsBack
  <2> QED
    BY <1>1 DEF Progressive
<1>3. Nat \subseteq S
  <2> HIDE DEF S
  <2> QED
    BY <1>2, StrongInduction
<1> QED
  BY <1>3, QuotRem

\* A line never runs past its buffer, keeps all its pieces if they leave room
\* for one more number, and its numbers are written so that they read back.
LEMMA LineIsWhole ==
  ASSUME NEW s \in DOMAIN Statements
  PROVE  /\ Lines[s].size < LineSize
         /\ SizeOf(Pieces(Statements[s])) + NumberSize <= LineSize
               => Lines[s].pieces = Pieces(Statements[s])
         /\ \A i \in DOMAIN Lines[s].pieces :
               Lines[s].pieces[i].kind = "number" =>
                  Reads(IntToString[Lines[s].pieces[i].value]) = Zero(Lines[s].pieces[i].value)
<1>1. PICK line : line = Lines[s] /\ line \in ALine
  BY LinesAreLines
<1>2. line.size < LineSize
  BY <1>1, LineAssumption DEF ALine
<1>3. ASSUME SizeOf(Pieces(Statements[s])) + NumberSize <= LineSize
      PROVE  line.pieces = Pieces(Statements[s])
  <2>1. PICK base : base = [size |-> 0, pieces |-> <<>>]
    OBVIOUS
  <2>2. base \in ALine /\ base.size = 0 /\ base.pieces = <<>>
    BY <2>1, LineAssumption, EmptySeq DEF ALine
  <2>3. PICK ps : ps = Pieces(Statements[s])
    OBVIOUS
  <2>4. ps \in Seq(AnyPiece) /\ NumberSize \in Nat \ {0}
    BY <2>3, PiecesAre, LineAssumption
  <2>5. PutAll(base, ps).pieces = ps
    BY <1>3, <2>2, <2>3, <2>4, RoomForAll
  <2> QED
    BY <1>1, <2>1, <2>3, <2>5 DEF Lines, LineOf, PutAll
<1>4. ASSUME NEW i \in DOMAIN line.pieces, line.pieces[i].kind = "number"
      PROVE  Reads(IntToString[line.pieces[i].value]) = Zero(line.pieces[i].value)
  <2>1. line.pieces[i] \in AnyPiece
    BY <1>1, LenProperties, ElementOfSeq DEF ALine
  <2>2. line.pieces[i].value \in Int
    BY <1>4, <2>1 DEF AnyPiece, Piece, NewLine
  <2> QED
    BY <2>2, DigitsRead
<1> QED
  BY <1>1, <1>2, <1>3, <1>4

-----------------------------------------------------------------------------
(* What is in the buffers. *)

\* The records in the buffers bs, when c tells what is in each.
Contents(c, bs) == [i \in DOMAIN bs |-> c[bs[i]]]
In(c, bs) == FlattenSeq(Contents(c, bs))

LEMMA SequenceIs ==
  ASSUME NEW S, NEW n \in Nat, NEW s
  PROVE  s \in [1 .. n -> S] <=> s \in Seq(S) /\ Len(s) = n
<1>1. ASSUME s \in [1 .. n -> S] PROVE s \in Seq(S)
  BY <1>1, SeqDef, Zenon
<1>2. ASSUME s \in [1 .. n -> S], s \in Seq(S) PROVE Len(s) = n
  <2>1. DOMAIN s = 1 .. Len(s) /\ Len(s) \in Nat /\ DOMAIN s = 1 .. n
    BY <1>2, LenProperties
  <2>2. PICK m \in Nat : m = Len(s)
    BY <2>1
  <2>3. 1 .. m = 1 .. n
    BY <2>1, <2>2
  <2>4. m = n
    BY <2>3
  <2> QED
    BY <2>2, <2>4
<1>3. ASSUME s \in Seq(S), Len(s) = n PROVE s \in [1 .. n -> S]
  BY <1>3, LenProperties
<1> QED
  BY <1>1, <1>2, <1>3

LEMMA AppendIs ==
  ASSUME NEW S, NEW n \in Nat, NEW s \in [1 .. n -> S], NEW e \in S
  PROVE  /\ Append(s, e) \in [1 .. n + 1 -> S]
         /\ \A i \in 1 .. n : Append(s, e)[i] = s[i]
         /\ Append(s, e)[n + 1] = e
<1>1. s \in Seq(S) /\ Len(s) = n /\ n + 1 \in Nat
  BY SequenceIs
<1>2. /\ Append(s, e) \in Seq(S) /\ Len(Append(s, e)) = n + 1
      /\ \A i \in 1 .. n : Append(s, e)[i] = s[i]
      /\ Append(s, e)[n + 1] = e
  BY <1>1, AppendProperties
<1>3. Append(s, e) \in [1 .. n + 1 -> S]
  BY <1>1, <1>2, SequenceIs
<1> QED
  BY <1>2, <1>3

LEMMA InAppended ==
  ASSUME NEW c \in [Buffers -> Seq(Nat)], NEW bs \in Seq(Buffers), NEW b \in Buffers
  PROVE  In(c, <<>>) = <<>> /\ In(c, Append(bs, b)) = In(c, bs) \o c[b]
<1>1. PICK n \in Nat : n = Len(bs) /\ bs \in [1 .. n -> Buffers]
  BY LenProperties
<1>2. PICK t : t = Append(bs, b)
  OBVIOUS
<1>3. /\ t \in [1 .. n + 1 -> Buffers] /\ t[n + 1] = b
      /\ \A i \in 1 .. n : t[i] = bs[i]
  <2>1. t \in [1 .. n + 1 -> Buffers]
    BY <1>1, <1>2, AppendIs, Zenon
  <2>2. t[n + 1] = b /\ \A i \in 1 .. n : t[i] = bs[i]
    BY <1>1, <1>2, AppendIs
  <2> QED
    BY <2>1, <2>2
<1>4. /\ Contents(c, bs) \in [1 .. n -> Seq(Nat)] /\ DOMAIN Contents(c, t) = 1 .. n + 1
      /\ \A i \in 1 .. n : Contents(c, bs)[i] = c[bs[i]]
      /\ \A i \in 1 .. n + 1 : Contents(c, t)[i] = c[t[i]]
      /\ Contents(c, t) = [i \in 1 .. n + 1 |-> Contents(c, t)[i]]
  BY <1>1, <1>3 DEF Contents
<1>5. PICK u : u = Contents(c, bs)
  OBVIOUS
<1>6. u \in [1 .. n -> Seq(Nat)] /\ u \in Seq(Seq(Nat)) /\ c[b] \in Seq(Nat)
  <2>1. u \in [1 .. n -> Seq(Nat)]
    BY <1>4, <1>5
  <2> QED
    BY <2>1, SequenceIs
<1>7. /\ \A i \in 1 .. n : Append(u, c[b])[i] = u[i]
      /\ Append(u, c[b])[n + 1] = c[b]
      /\ Append(u, c[b]) \in [1 .. n + 1 -> Seq(Nat)]
  <2>1. Append(u, c[b]) \in [1 .. n + 1 -> Seq(Nat)]
    BY <1>6, AppendIs, Zenon
  <2>2. Append(u, c[b])[n + 1] = c[b] /\ \A i \in 1 .. n : Append(u, c[b])[i] = u[i]
    BY <1>6, AppendIs
  <2> QED
    BY <2>1, <2>2
<1>8. Contents(c, t) = Append(u, c[b])
  <2>1. PICK v : v = Append(u, c[b])
    OBVIOUS
  <2>2. \A i \in 1 .. n + 1 : Contents(c, t)[i] = v[i]
    BY <1>1, <1>3, <1>4, <1>5, <1>7, <2>1
  <2>3. v = [i \in 1 .. n + 1 |-> v[i]]
    BY <1>7, <2>1
  <2> QED
    BY <1>4, <2>1, <2>2, <2>3, Zenon
<1>9. FlattenSeq(Append(u, c[b])) = FlattenSeq(u) \o c[b] /\ FlattenSeq(<<>>) = <<>>
  BY <1>6, FlattenAppend
<1>10. Contents(c, <<>>) = <<>>
  BY DEF Contents
<1> QED
  BY <1>2, <1>5, <1>8, <1>9, <1>10 DEF In

\* The buffers one after the other: what is in them is in them in turn.
LEMMA InTurn ==
  ASSUME NEW c \in [Buffers -> Seq(Nat)], NEW bs \in Seq(Buffers)
  PROVE  /\ In(c, bs) \in Seq(Nat) /\ In(c, <<>>) = <<>>
         /\ \A b \in Buffers : In(c, <<b>>) = c[b]
         /\ \A cs \in Seq(Buffers) : In(c, bs \o cs) = In(c, bs) \o In(c, cs)
         /\ Range(In(c, bs)) = UNION {Range(c[b]) : b \in Range(bs)}
<1>1. In(c, <<>>) = <<>> /\ <<>> \in Seq(Nat) /\ <<>> \in Seq(Buffers)
  <2>1. Contents(c, <<>>) = <<>>
    BY DEF Contents
  <2>2. \A x \in Seq({}) : FlattenSeq(<<>>) = <<>>
    BY FlattenAppend, EmptySeq
  <2> QED
    BY <2>1, <2>2, EmptySeq DEF In
<1>2. \A s \in Seq(Buffers), b \in Buffers : In(c, Append(s, b)) = In(c, s) \o c[b]
  BY InAppended
<1>3. \A s \in Seq(Buffers) : In(c, s) \in Seq(Nat)
  <2> DEFINE P == {s \in Seq(Buffers) : In(c, s) \in Seq(Nat)}
  <2>1. <<>> \in P
    BY <1>1
  <2>2. ASSUME NEW s \in Seq(Buffers), NEW b \in Buffers, s \in P PROVE Append(s, b) \in P
    <3>1. Append(s, b) \in Seq(Buffers) /\ c[b] \in Seq(Nat)
      BY AppendProperties
    <3>2. In(c, s) \o c[b] \in Seq(Nat)
      BY <2>2, <3>1, ConcatProperties
    <3> QED
      BY <1>2, <3>1, <3>2
  <2> HIDE DEF P
  <2>3. Seq(Buffers) \subseteq P
    BY <2>1, <2>2, SequenceInduction
  <2> QED
    BY <2>3 DEF P
<1>4. ASSUME NEW b \in Buffers PROVE In(c, <<b>>) = c[b]
  <2>1. Append(<<>>, b) = <<b>> /\ c[b] \in Seq(Nat)
    OBVIOUS
  <2>2. In(c, Append(<<>>, b)) = <<>> \o c[b]
    BY <1>1, <1>2
  <2> QED
    BY <2>1, <2>2, ConcatEmptySeq
<1>5. \A cs \in Seq(Buffers) : In(c, bs \o cs) = In(c, bs) \o In(c, cs)
  <2> DEFINE P == {s \in Seq(Buffers) : In(c, bs \o s) = In(c, bs) \o In(c, s)}
  <2>1. <<>> \in P
    BY <1>1, <1>3, ConcatEmptySeq
  <2>2. ASSUME NEW s \in Seq(Buffers), NEW b \in Buffers, s \in P PROVE Append(s, b) \in P
    <3>1. bs \o s \in Seq(Buffers) /\ bs \o Append(s, b) = Append(bs \o s, b)
      BY ConcatProperties, AppendConcat
    <3>2. In(c, bs \o Append(s, b)) = (In(c, bs) \o In(c, s)) \o c[b]
      BY <1>2, <2>2, <3>1
    <3>3. In(c, bs) \o (In(c, s) \o c[b]) = (In(c, bs) \o In(c, s)) \o c[b]
      BY <1>3, ConcatAssociative
    <3> QED
      BY <1>2, <3>2, <3>3, AppendProperties
  <2> HIDE DEF P
  <2>3. Seq(Buffers) \subseteq P
    BY <2>1, <2>2, SequenceInduction
  <2> QED
    BY <2>3 DEF P
<1>6. Range(In(c, bs)) = UNION {Range(c[b]) : b \in Range(bs)}
  <2> DEFINE P == {s \in Seq(Buffers) : Range(In(c, s)) = UNION {Range(c[b]) : b \in Range(s)}}
  <2>1. <<>> \in P
    BY <1>1 DEF Range
  <2>2. ASSUME NEW s \in Seq(Buffers), NEW b \in Buffers, s \in P PROVE Append(s, b) \in P
    <3>1. Append(s, b) \in Seq(Buffers) /\ Range(Append(s, b)) = Range(s) \cup {b}
      BY AppendRange
    <3>2. Range(In(c, s) \o c[b]) = Range(In(c, s)) \cup Range(c[b])
      BY <1>3, RangeConcatenation
    <3>3. In(c, Append(s, b)) = In(c, s) \o c[b]
      BY <1>2
    <3>4. UNION {Range(c[a]) : a \in Range(s) \cup {b}}
          = (UNION {Range(c[a]) : a \in Range(s)}) \cup Range(c[b])
      OBVIOUS
    <3> QED
      BY <2>2, <3>1, <3>2, <3>3, <3>4
  <2> HIDE DEF P
  <2>3. Seq(Buffers) \subseteq P
    BY <2>1, <2>2, SequenceInduction
  <2> QED
    BY <2>3 DEF P
<1> QED
  BY <1>1, <1>3, <1>4, <1>5, <1>6

LEMMA InOthers ==
  ASSUME NEW c, NEW d, NEW bs, \A b \in Range(bs) : d[b] = c[b]
  PROVE  In(d, bs) = In(c, bs)
<1>1. \A i \in DOMAIN bs : d[bs[i]] = c[bs[i]]
  BY DEF Range
<1>2. Contents(d, bs) = Contents(c, bs)
  BY <1>1 DEF Contents
<1> QED
  BY <1>2 DEF In

-----------------------------------------------------------------------------
(* Order. *)

Ascending(s) == \A i, j \in DOMAIN s : i < j => s[i] < s[j]

Below(s, t) == \A x \in Range(s), y \in Range(t) : x < y

LEMMA AscendingParts ==
  ASSUME NEW s \in Seq(Nat), NEW t \in Seq(Nat)
  PROVE  Ascending(s \o t) <=> Ascending(s) /\ Ascending(t) /\ Below(s, t)
<1>0. PICK u : u = s \o t
  OBVIOUS
<1>1. PICK m \in Nat, n \in Nat :
          /\ m = Len(s) /\ n = Len(t) /\ u = s \o t
          /\ DOMAIN s = 1 .. m /\ DOMAIN t = 1 .. n
  BY <1>0, LenProperties
<1>2. u \in Seq(Nat) /\ Len(u) = m + n
  BY <1>1, ConcatProperties
<1>3. DOMAIN u = 1 .. m + n
  BY <1>2, LenProperties
<1>4. \A i \in 1 .. m + n : u[i] = IF i <= m THEN s[i] ELSE t[i - m]
  BY <1>1, ConcatProperties
<1>5. (\A i \in 1 .. m : u[i] = s[i]) /\ (\A i \in 1 .. n : u[i + m] = t[i])
  <2>1. ASSUME NEW i \in 1 .. m PROVE u[i] = s[i]
    BY <1>4
  <2>2. ASSUME NEW i \in 1 .. n PROVE u[i + m] = t[i]
    <3>1. i + m \in 1 .. m + n /\ ~(i + m <= m) /\ i + m - m = i
      OBVIOUS
    <3> QED
      BY <1>4, <3>1
  <2> QED
    BY <2>1, <2>2
<1>6. ASSUME Ascending(u) PROVE Ascending(s) /\ Ascending(t) /\ Below(s, t)
  <2>1. Ascending(s)
    BY <1>1, <1>3, <1>5, <1>6 DEF Ascending
  <2>2. Ascending(t)
    <3> SUFFICES ASSUME NEW i \in 1 .. n, NEW j \in 1 .. n, i < j PROVE t[i] < t[j]
      BY <1>1 DEF Ascending
    <3>1. i + m \in 1 .. m + n /\ j + m \in 1 .. m + n /\ i + m < j + m
      OBVIOUS
    <3>2. u[i + m] < u[j + m]
      BY <1>3, <1>6, <3>1 DEF Ascending
    <3> QED
      BY <1>5, <3>2
  <2>3. ASSUME NEW i \in 1 .. m, NEW j \in 1 .. n PROVE s[i] < t[j]
    <3>1. i \in 1 .. m + n /\ j + m \in 1 .. m + n /\ i < j + m
      OBVIOUS
    <3>2. u[i] < u[j + m]
      BY <1>3, <1>6, <3>1 DEF Ascending
    <3> QED
      BY <1>5, <3>2
  <2>4. Below(s, t)
    BY <1>1, <2>3 DEF Below, Range
  <2> QED
    BY <2>1, <2>2, <2>4
<1>7. ASSUME Ascending(s), Ascending(t), Below(s, t) PROVE Ascending(u)
  <2> SUFFICES ASSUME NEW i \in 1 .. m + n, NEW j \in 1 .. m + n, i < j PROVE u[i] < u[j]
    BY <1>3 DEF Ascending
  <2>1. CASE j <= m
    <3>1. i \in 1 .. m /\ j \in 1 .. m
      BY <2>1
    <3> QED
      BY <1>1, <1>5, <1>7, <3>1 DEF Ascending
  <2>2. CASE i <= m /\ ~(j <= m)
    <3>1. i \in 1 .. m /\ j - m \in 1 .. n
      BY <2>2
    <3>2. s[i] \in Range(s) /\ t[j - m] \in Range(t)
      BY <1>1, <3>1 DEF Range
    <3>3. s[i] < t[j - m]
      BY <1>7, <3>2 DEF Below
    <3> QED
      BY <1>4, <2>2, <3>3
  <2>3. CASE ~(i <= m)
    <3>1. i - m \in 1 .. n /\ j - m \in 1 .. n /\ i - m < j - m /\ ~(j <= m)
      BY <2>3
    <3>2. t[i - m] < t[j - m]
      BY <1>1, <1>7, <3>1 DEF Ascending
    <3> QED
      BY <1>4, <2>3, <3>1, <3>2
  <2> QED
    BY <2>1, <2>2, <2>3
<1> QED
  BY <1>1, <1>6, <1>7

\* n records were accepted: s has them in order, but for the lost ones.
InOrder(s, lost, n) ==
    /\ Ascending(s)
    /\ Range(s) \cup lost = 1 .. n
    /\ Range(s) \cap lost = {}

LEMMA OneMore ==
  ASSUME NEW s \in Seq(Nat), NEW lost, NEW n \in Nat, InOrder(s, lost, n)
  PROVE  InOrder(Append(s, n + 1), lost, n + 1)
<1>1. /\ n + 1 \in Nat /\ <<n + 1>> \in Seq(Nat) /\ Append(s, n + 1) = s \o <<n + 1>>
      /\ Range(<<n + 1>>) = {n + 1}
  <2>1. n + 1 \in Nat
    OBVIOUS
  <2>2. Range(<<n + 1>>) = {n + 1}
    BY DEF Range
  <2> QED
    BY <2>1, <2>2, AppendIsConcat
<1>2. Range(Append(s, n + 1)) = Range(s) \cup {n + 1}
  BY <1>1, AppendRange
<1>3. Ascending(<<n + 1>>)
  BY DEF Ascending
<1>4. lost \subseteq 1 .. n /\ Range(s) \subseteq 1 .. n
  BY DEF InOrder
<1>5. Below(s, <<n + 1>>)
  BY <1>1, <1>4 DEF Below
<1>6. Ascending(Append(s, n + 1))
  <2>1. PICK t : t = <<n + 1>>
    OBVIOUS
  <2>2. t \in Seq(Nat) /\ Ascending(t) /\ Below(s, t) /\ Ascending(s)
    BY <1>1, <1>3, <1>5, <2>1 DEF InOrder
  <2>3. Ascending(s \o t)
    BY <2>2, AscendingParts
  <2> QED
    BY <1>1, <2>1, <2>3
<1>7. /\ Range(Append(s, n + 1)) \cup lost = 1 .. n + 1
      /\ Range(Append(s, n + 1)) \cap lost = {}
  BY <1>2, <1>4 DEF InOrder
<1> QED
  BY <1>6, <1>7 DEF InOrder

LEMMA SomeLost ==
  ASSUME NEW p \in Seq(Nat), NEW m \in Seq(Nat), NEW q \in Seq(Nat), NEW lost, NEW n \in Nat,
         InOrder(p \o (m \o q), lost, n)
  PROVE  InOrder(p \o q, lost \cup Range(m), n)
<1>1. m \o q \in Seq(Nat) /\ Range(m \o q) = Range(m) \cup Range(q)
  BY ConcatProperties, RangeConcatenation
<1>2. /\ Range(p \o (m \o q)) = Range(p) \cup Range(m) \cup Range(q)
      /\ Range(p \o q) = Range(p) \cup Range(q)
  <2>1. PICK t \in Seq(Nat) : t = m \o q
    BY <1>1
  <2>2. Range(p \o t) = Range(p) \cup Range(t) /\ Range(p \o q) = Range(p) \cup Range(q)
    BY RangeConcatenation
  <2> QED
    BY <1>1, <2>1, <2>2
<1>3. Ascending(p) /\ Ascending(m \o q) /\ Below(p, m \o q)
  BY <1>1, AscendingParts DEF InOrder
<1>4. Ascending(m) /\ Ascending(q) /\ Below(m, q)
  BY <1>3, AscendingParts
<1>5. Below(p, q) /\ Below(p, m)
  BY <1>1, <1>3 DEF Below
<1>6. Ascending(p \o q)
  BY <1>3, <1>4, <1>5, AscendingParts
<1>7. Range(p) \subseteq Nat /\ Range(m) \subseteq Nat /\ Range(q) \subseteq Nat
  BY RangeOfSeq
<1>8. (Range(p) \cup Range(q)) \cap Range(m) = {}
  BY <1>4, <1>5, <1>7 DEF Below
<1> QED
  BY <1>2, <1>6, <1>8 DEF InOrder

-----------------------------------------------------------------------------
\* What the worker relies on when it makes its two spares again: one batch
\* buffer for each spare it has given away.  It gave the second one away only
\* if next_buffer_ was missing, and next_buffer_ is missing only if a writer has
\* queued a buffer since the last round.
SparesToMake == (IF spare1 = NULL THEN 1 ELSE 0) + (IF spare2 = NULL THEN 1 ELSE 0)

Rounds ==
    /\ next = NULL => full # <<>>
    /\ wpc \in {"test", "lock", "done"} => taken = <<>>
    /\ wpc \in {"cut", "write"} => spare1 = NULL
    /\ wpc \in {"cut", "write", "refill"} => Len(taken) >= SparesToMake
    /\ wpc \in {"test", "lock", "clear", "done"} => spare1 # NULL /\ spare2 # NULL

SparesEmpty ==
    /\ spare1 # NULL => content[spare1] = <<>>
    /\ spare2 # NULL => content[spare2] = <<>>

LogInv == TypeOK /\ OneHolder /\ Rounds /\ SparesEmpty

-----------------------------------------------------------------------------
LEMMA InitLog == Init => LogInv
<1> SUFFICES ASSUME Init PROVE LogInv
  OBVIOUS
<1>1. /\ \A i \in 1..4 : FirstBuffers[i] \in Buffers
      /\ \A i, j \in 1..4 : FirstBuffers[i] = FirstBuffers[j] => i = j
  BY LogAssumption DEF Injection, IsInjective
<1>2. /\ current \in Buffers /\ next \in Buffers
      /\ spare1 \in Buffers /\ spare2 \in Buffers
      /\ current \notin {next, spare1, spare2} /\ next \notin {spare1, spare2}
      /\ spare1 # spare2
  BY <1>1 DEF Init
<1>3. /\ <<>> \in Seq(Buffers) /\ <<>> \in Seq(Nat)
      /\ content \in [Buffers -> Seq(Nat)]
      /\ jpc \in [Writers -> {"idle", "join", "joined"}]
  BY EmptySeq DEF Init
<1>4. TypeOK
  BY <1>2, <1>3 DEF Init, TypeOK, WorkerPhases
<1>5. OneHolder
  BY <1>2, EmptyRange DEF Init, OneHolder
<1>6. Rounds /\ SparesEmpty
  BY <1>2, LogAssumption DEF Init, Rounds, SparesEmpty
<1> QED
  BY <1>4, <1>5, <1>6 DEF LogInv

LEMMA RangeOfBuffers == TypeOK => /\ Range(full) \subseteq Buffers
                                  /\ Range(taken) \subseteq Buffers
  BY RangeOfSeq DEF TypeOK

\* One critical section of WriteLog, fatal or not.
LEMMA WriteKeeps ==
  ASSUME LogInv, NEW s \in DOMAIN Statements,
         WriteToCurrent(s) \/ WriteToNext(s), UNCHANGED <<backVars, wpc>>
  PROVE  /\ current' \in Buffers /\ next' \in Buffers \cup {NULL}
         /\ full' \in Seq(Buffers) /\ content' \in [Buffers -> Seq(Nat)]
         /\ records' \in Seq(DOMAIN Statements)
         /\ UNCHANGED <<dropped, file, flushed, count>>
         /\ OneHolder' /\ Rounds' /\ SparesEmpty'
<1> USE DEF LogInv, backVars
<1> DEFINE Added(b) == [content EXCEPT ![b] = Append(content[b], Len(records) + 1)]
<1>0. /\ records \in Seq(DOMAIN Statements) /\ Len(records) + 1 \in Nat
      /\ Append(records, s) \in Seq(DOMAIN Statements)
      /\ \A b \in Buffers : Added(b) \in [Buffers -> Seq(Nat)]
  BY AppendProperties, LenProperties DEF TypeOK
<1>1. CASE WriteToCurrent(s)
  <2>1. /\ UNCHANGED <<current, next, full, spare1, spare2, taken, written, wpc>>
        /\ records' = Append(records, s)
        /\ content' = Added(current) \/ content' = content
        /\ UNCHANGED <<dropped, file, flushed, count>>
    BY <1>1 DEF WriteToCurrent, Accept, frontVars
  <2>2. content' \in [Buffers -> Seq(Nat)] /\ records' \in Seq(DOMAIN Statements)
    BY <1>0, <2>1 DEF TypeOK
  <2>3. OneHolder' /\ Rounds'
    BY <2>1 DEF OneHolder, Rounds, SparesToMake
  <2>4. SparesEmpty'
    BY <2>1 DEF SparesEmpty, OneHolder, TypeOK
  <2> QED
    BY <2>1, <2>2, <2>3, <2>4 DEF TypeOK
<1>2. CASE WriteToNext(s)
  <2> DEFINE b == Replacement
  <2>1. /\ UNCHANGED <<spare1, spare2, taken, written, wpc, dropped, file, flushed, count>>
        /\ records' = Append(records, s)
        /\ content' = Added(b) \/ content' = content
        /\ current' = b /\ next' = NULL /\ full' = Append(full, current)
    BY <1>2 DEF WriteToNext, Accept
  <2>2. /\ b \in Buffers /\ b \notin {current, spare1, spare2}
        /\ b \notin Range(full) \cup Range(taken)
    <3>1. CASE next # NULL
      BY <3>1 DEF Replacement, TypeOK, OneHolder
    <3>2. CASE next = NULL
      <4>1. \E c \in Buffers : c \notin Held
        BY <1>2, <3>2 DEF WriteToNext, Replaceable
      <4>2. b \in Buffers /\ b \notin Held
        BY <3>2, <4>1 DEF Replacement
      <4> QED
        BY <4>2 DEF Held
    <3> QED
      BY <3>1, <3>2
  <2>3. /\ full' \in Seq(Buffers) /\ full' # <<>>
        /\ Range(full') = Range(full) \cup {current}
        /\ IsInjective(full')
    <3>1. /\ full \in Seq(Buffers) /\ current \in Buffers
          /\ IsInjective(full) /\ current \notin Range(full)
      BY DEF TypeOK, OneHolder
    <3> QED
      BY <2>1, <3>1, AppendRange
  <2>4. content' \in [Buffers -> Seq(Nat)] /\ records' \in Seq(DOMAIN Statements)
    BY <1>0, <2>1, <2>2 DEF TypeOK
  <2>5. OneHolder'
    <3>1. /\ IsInjective(full') /\ IsInjective(taken')
          /\ Range(full') \cap Range(taken') = {}
      BY <2>1, <2>3 DEF OneHolder
    <3>2. {current', next', spare1', spare2'} \cap (Range(full') \cup Range(taken')) = {}
      BY <2>1, <2>2, <2>3, RangeOfBuffers, LogAssumption DEF OneHolder, TypeOK
    <3>3. current' \notin {next', spare1', spare2'}
      BY <2>1, <2>2, LogAssumption
    <3> QED
      BY <2>1, <3>1, <3>2, <3>3 DEF OneHolder
  <2>6. Rounds'
    BY <2>1, <2>3 DEF Rounds, SparesToMake
  <2>7. SparesEmpty'
    BY <2>1, <2>2 DEF SparesEmpty, TypeOK
  <2> QED
    BY <2>1, <2>2, <2>3, <2>4, <2>5, <2>6, <2>7
<1> QED
  BY <1>1, <1>2

LEMMA EmptiedType ==
  ASSUME TypeOK, NEW bs
  PROVE  /\ Emptied(bs) \in [Buffers -> Seq(Nat)]
         /\ \A b \in Buffers : content[b] = <<>> => Emptied(bs)[b] = <<>>
  BY EmptySeq DEF TypeOK, Emptied

LEMMA GivenOffered == TypeOK => Given \subseteq DOMAIN Statements
<1> SUFFICES ASSUME TypeOK, NEW s \in Given PROVE s \in DOMAIN Statements
  OBVIOUS
<1>1. Len(records) < Len(Offered) /\ s \in Offered[Len(records) + 1]
  BY DEF Given
<1>2. Offered[Len(records) + 1] \in SUBSET DOMAIN Statements
  BY <1>1, LenProperties, ElementOfSeq, LogAssumption DEF TypeOK
<1> QED
  BY <1>1, <1>2

LEMMA NextLog == LogInv /\ [Next]_vars => LogInv'
<1> SUFFICES ASSUME LogInv, [Next]_vars PROVE LogInv'
  OBVIOUS
<1> USE DEF LogInv
<1> USE DEF frontVars, backVars, histVars, stopVars
<1>1. ASSUME NEW w \in Writers, WriteLog(w) PROVE LogInv'
  <2>1. PICK s \in DOMAIN Statements : WriteToCurrent(s) \/ WriteToNext(s)
    BY <1>1, GivenOffered DEF WriteLog
  <2>2. TypeOK'
    BY <1>1, <2>1, WriteKeeps DEF WriteLog, TypeOK
  <2> QED
    BY <1>1, <2>1, <2>2, WriteKeeps DEF WriteLog
<1>2. ASSUME NEW w \in Writers, WriteFatal(w) PROVE LogInv'
  <2>1. PICK s \in DOMAIN Statements : WriteToCurrent(s) \/ WriteToNext(s)
    BY <1>2, GivenOffered DEF WriteFatal
  <2>2. TypeOK'
    BY <1>2, <2>1, WriteKeeps DEF WriteFatal, TypeOK
  <2> QED
    BY <1>2, <2>1, <2>2, WriteKeeps DEF WriteFatal
<1>3. ASSUME NEW w \in Writers, Stop(w) \/ Joined(w) PROVE LogInv'
  <2>1. TypeOK'
    BY <1>3 DEF Stop, Joined, TypeOK
  <2>2. OneHolder' /\ Rounds' /\ SparesEmpty'
    BY <1>3 DEF Stop, Joined, OneHolder, Rounds, SparesToMake, SparesEmpty
  <2> QED
    BY <2>1, <2>2
<1>4. CASE TestRunning
  <2>1. TypeOK'
    BY <1>4, LenProperties DEF TestRunning, TypeOK, WorkerPhases
  <2>2. OneHolder' /\ Rounds' /\ SparesEmpty'
    BY <1>4 DEF TestRunning, OneHolder, Rounds, SparesToMake, SparesEmpty
  <2> QED
    BY <2>1, <2>2
<1>5. CASE TakeBuffers
  <2>1. /\ taken' = Append(full, current) /\ full' = <<>>
        /\ current' = spare1 /\ spare1' = NULL
        /\ next = NULL => next' = spare2 /\ spare2' = NULL
        /\ next # NULL => next' = next /\ spare2' = spare2
        /\ wpc = "lock" /\ wpc' = "cut"
        /\ UNCHANGED <<content, written, records, dropped, file, flushed, count>>
    BY <1>5 DEF TakeBuffers
  <2>2. /\ spare1 \in Buffers /\ spare2 \in Buffers
        /\ next = NULL => full # <<>>
    BY <2>1 DEF Rounds, TypeOK
  <2>3. /\ taken' \in Seq(Buffers) /\ taken' # <<>>
        /\ Len(taken') = Len(full) + 1
        /\ Range(taken') = Range(full) \cup {current}
        /\ IsInjective(taken')
    <3>1. /\ full \in Seq(Buffers) /\ current \in Buffers
          /\ IsInjective(full) /\ current \notin Range(full)
      BY DEF TypeOK, OneHolder
    <3> QED
      BY <2>1, <3>1, AppendRange
  <2>4. <<>> \in Seq(Buffers) /\ Range(full') = {} /\ IsInjective(full')
    BY <2>1, EmptySeq, EmptyRange
  <2>5. TypeOK'
    BY <1>5, <2>1, <2>2, <2>3, <2>4 DEF TakeBuffers, TypeOK, WorkerPhases
  <2>6. OneHolder'
    <3>1. {current', next', spare1', spare2'} \cap Range(taken') = {}
      BY <2>1, <2>2, <2>3, RangeOfBuffers, LogAssumption DEF OneHolder, TypeOK
    <3>2. /\ current' \notin {next', spare1', spare2'}
          /\ next' # NULL => next' \notin {spare1', spare2'}
      BY <2>1, <2>2, LogAssumption DEF OneHolder, TypeOK
    <3> QED
      BY <2>1, <2>3, <2>4, <3>1, <3>2 DEF OneHolder
  <2>7. Rounds'
    <3>1. Len(full) \in Nat /\ (next = NULL => Len(full) >= 1)
      BY <2>2, EmptySeq, LenProperties DEF TypeOK
    <3>2. Len(taken') >= SparesToMake'
      BY <2>1, <2>2, <2>3, <3>1, LogAssumption DEF SparesToMake
    <3> QED
      BY <2>1, <2>2, <3>2, LogAssumption DEF Rounds
  <2>8. SparesEmpty'
    BY <2>1 DEF SparesEmpty
  <2> QED
    BY <2>5, <2>6, <2>7, <2>8
<1>6. CASE CutBatch
  <2>1. /\ UNCHANGED <<current, next, full, spare1, spare2, written, records, file, flushed, count>>
        /\ wpc = "cut" /\ wpc' = "write"
        /\ UNCHANGED <<isRunning, holder, jpc>>
    BY <1>6 DEF CutBatch
  <2>2. Len(taken) \in Nat
    BY LenProperties DEF TypeOK
  <2>3. /\ taken' \in Seq(Buffers) /\ Range(taken') \subseteq Range(taken)
        /\ IsInjective(taken')
        /\ Len(taken') = Len(taken) \/ Len(taken') >= 2
        /\ content' \in [Buffers -> Seq(Nat)]
        /\ \A b \in Buffers : content[b] = <<>> => content'[b] = <<>>
        /\ dropped' \in SUBSET Nat
    <3>1. CASE Len(taken) > MaxBatch
      <4>1. /\ taken' = SubSeq(taken, 1, KeptOfBatch)
            /\ content' = Emptied(SubSeq(taken, KeptOfBatch + 1, Len(taken)))
            /\ dropped' = dropped \cup UNION {Range(content[b]) : b \in
                             Range(SubSeq(taken, KeptOfBatch + 1, Len(taken)))}
        BY <1>6, <3>1 DEF CutBatch, Cut
      <4>2. /\ taken' \in Seq(Buffers) /\ Len(taken') = KeptOfBatch
            /\ Range(taken') \subseteq Range(taken) /\ IsInjective(taken')
        <5>1. /\ taken \in Seq(Buffers) /\ IsInjective(taken)
              /\ KeptOfBatch \in Nat /\ KeptOfBatch <= Len(taken)
          BY <2>2, <3>1, LogAssumption DEF TypeOK, OneHolder
        <5> QED
          BY <5>1, <4>1, PrefixRange
      <4>3. Range(SubSeq(taken, KeptOfBatch + 1, Len(taken))) \subseteq Buffers
        <5>1. \A i \in KeptOfBatch + 1 .. Len(taken) : taken[i] \in Buffers
          BY <2>2, ElementOfSeq, LogAssumption DEF TypeOK
        <5>2. SubSeq(taken, KeptOfBatch + 1, Len(taken)) \in Seq(Buffers)
          BY <2>2, <5>1, SubSeqProperties, LogAssumption
        <5> QED
          BY <5>2, RangeOfSeq
      <4>4. \A b \in Buffers : Range(content[b]) \subseteq Nat
        BY RangeOfSeq DEF TypeOK
      <4>5. dropped' \in SUBSET Nat
        BY <4>1, <4>3, <4>4 DEF TypeOK
      <4> QED
        BY <4>1, <4>2, <4>5, EmptiedType, LogAssumption
    <3>2. CASE ~(Len(taken) > MaxBatch)
      BY <1>6, <3>2 DEF CutBatch, TypeOK, OneHolder
    <3> QED
      BY <3>1, <3>2
  <2>4. TypeOK'
    BY <2>1, <2>3 DEF TypeOK, WorkerPhases
  <2>5. OneHolder'
    BY <2>1, <2>3 DEF OneHolder
  <2>6. Rounds'
    BY <2>1, <2>2, <2>3 DEF Rounds, SparesToMake
  <2>7. SparesEmpty'
    BY <2>1, <2>3 DEF SparesEmpty, TypeOK
  <2> QED
    BY <2>4, <2>5, <2>6, <2>7
<1>7. CASE WriteBuffer
  <2> DEFINE all == content[taken[written + 1]]
  <2>1. /\ taken[written + 1] \in Buffers /\ all \in Seq(Nat)
        /\ file \in Seq(Nat) /\ written + 1 \in Nat /\ count + 1 \in Nat
    BY <1>7, ElementOfSeq, LenProperties DEF WriteBuffer, TypeOK
  <2>2. file' \in Seq(Nat) /\ dropped' \in SUBSET Nat
    <3>1. CASE file' = file \o all /\ UNCHANGED dropped
      BY <2>1, <3>1, ConcatProperties DEF TypeOK
    <3>2. ASSUME NEW n \in 1..Len(all), file' = file \o SubSeq(all, 1, n - 1),
                 dropped' = Range(SubSeq(all, n, Len(all)))
          PROVE  file' \in Seq(Nat) /\ dropped' \in SUBSET Nat
      <4>1. /\ Len(all) \in Nat
            /\ \A i \in 1..Len(all) : all[i] \in Nat
        BY <2>1, LenProperties, ElementOfSeq
      <4>2. SubSeq(all, 1, n - 1) \in Seq(Nat) /\ SubSeq(all, n, Len(all)) \in Seq(Nat)
        BY <3>2, <4>1, SubSeqProperties
      <4> QED
        BY <2>1, <3>2, <4>2, ConcatProperties, RangeOfSeq
    <3> QED
      BY <1>7, <3>1, <3>2 DEF WriteBuffer
  <2>3. TypeOK'
    <3>1. count' \in Nat /\ flushed' \in Nat
      <4>1. Len(file') \in Nat
        <5>1. \A g \in Seq(Nat) : Len(g) \in Nat
          BY LenProperties
        <5> QED
          BY <2>2, <5>1
      <4>2. \/ count' = 0 /\ flushed' = Len(file')
            \/ count' = count + 1 /\ flushed' = flushed
        BY <1>7 DEF WriteBuffer
      <4>3. flushed \in Nat
        BY DEF TypeOK
      <4> HIDE DEF all, LogInv
      <4>4. CASE count' = 0 /\ flushed' = Len(file')
        BY <4>1, <4>4
      <4>5. CASE count' = count + 1 /\ flushed' = flushed
        BY <2>1, <4>3, <4>5
      <4> QED
        BY <4>2, <4>4, <4>5
    <3> QED
      BY <1>7, <2>1, <2>2, <3>1 DEF WriteBuffer, TypeOK
  <2>4. OneHolder' /\ Rounds' /\ SparesEmpty'
    BY <1>7 DEF WriteBuffer, OneHolder, Rounds, SparesToMake, SparesEmpty
  <2> QED
    BY <2>3, <2>4
<1>8. CASE AllWritten
  <2>1. TypeOK'
    BY <1>8 DEF AllWritten, TypeOK, WorkerPhases
  <2>2. OneHolder' /\ Rounds' /\ SparesEmpty'
    BY <1>8 DEF AllWritten, OneHolder, Rounds, SparesToMake, SparesEmpty
  <2> QED
    BY <2>1, <2>2
<1>9. CASE Refill
  <2> DEFINE b == Last(taken)
  <2>1. /\ taken' = Front(taken) /\ taken # <<>>
        /\ content' = [content EXCEPT ![b] = <<>>]
        /\ UNCHANGED <<current, next, full, written, records, dropped, file, flushed, count>>
        /\ UNCHANGED <<isRunning, holder, jpc, wpc>>
        /\ wpc = "refill"
        /\ \/ spare1 = NULL /\ spare1' = b /\ spare2' = spare2
           \/ spare1 # NULL /\ spare2 = NULL /\ spare2' = b /\ spare1' = spare1
    BY <1>9 DEF Refill, MakeSpare
  <2>2. /\ b \in Buffers /\ b \in Range(taken)
        /\ taken' \in Seq(Buffers) /\ Len(taken') = Len(taken) - 1
        /\ Range(taken') \subseteq Range(taken)
        /\ IsInjective(taken') /\ b \notin Range(taken')
    BY <2>1, FrontLast DEF TypeOK, OneHolder
  <2>3. TypeOK'
    BY <2>1, <2>2, EmptySeq DEF TypeOK
  <2>4. OneHolder'
    <3>1. /\ IsInjective(full') /\ IsInjective(taken')
          /\ Range(full') \cap Range(taken') = {}
      BY <2>1, <2>2 DEF OneHolder
    <3>2. {current', next', spare1', spare2'} \cap (Range(full') \cup Range(taken')) = {}
      BY <2>1, <2>2 DEF OneHolder
    <3>3. /\ current' \notin {next', spare1', spare2'}
          /\ next' # NULL => next' \notin {spare1', spare2'}
          /\ spare1' # NULL => spare1' # spare2'
      BY <2>1, <2>2, LogAssumption DEF OneHolder
    <3> QED
      BY <3>1, <3>2, <3>3 DEF OneHolder
  <2>5. Rounds'
    <3>1. Len(taken) \in Nat
      BY LenProperties DEF TypeOK
    <3>2. Len(taken') >= SparesToMake'
      BY <2>1, <2>2, <3>1, LogAssumption DEF Rounds, SparesToMake
    <3> QED
      BY <2>1, <3>2 DEF Rounds
  <2>6. SparesEmpty'
    BY <2>1, <2>2 DEF SparesEmpty, TypeOK
  <2> QED
    BY <2>3, <2>4, <2>5, <2>6
<1>10. CASE Refilled
  <2>1. TypeOK'
    BY <1>10 DEF Refilled, TypeOK, WorkerPhases
  <2>2. OneHolder' /\ Rounds' /\ SparesEmpty'
    BY <1>10 DEF Refilled, OneHolder, Rounds, SparesToMake, SparesEmpty
  <2> QED
    BY <2>1, <2>2
<1>11. CASE ClearBatch
  <2>1. /\ UNCHANGED <<current, next, full, spare1, spare2, records, dropped, file, count>>
        /\ flushed' = Len(file)
        /\ taken' = <<>> /\ written' = 0 /\ content' = Emptied(taken)
        /\ wpc = "clear" /\ wpc' = "test"
        /\ UNCHANGED <<isRunning, holder, jpc>>
    BY <1>11 DEF ClearBatch
  <2>2. TypeOK'
    BY <2>1, EmptiedType, EmptySeq, LenProperties DEF TypeOK, WorkerPhases
  <2>3. OneHolder' /\ Rounds'
    BY <2>1, EmptyRange DEF OneHolder, Rounds, SparesToMake
  <2>4. SparesEmpty'
    BY <2>1, EmptiedType DEF SparesEmpty, TypeOK
  <2> QED
    BY <2>2, <2>3, <2>4
<1>12. CASE UNCHANGED vars
  <2>1. TypeOK'
    BY <1>12 DEF vars, TypeOK
  <2>2. OneHolder' /\ Rounds' /\ SparesEmpty'
    BY <1>12 DEF vars, OneHolder, Rounds, SparesToMake, SparesEmpty
  <2> QED
    BY <2>1, <2>2
<1> QED
  BY <1>1, <1>2, <1>3, <1>4, <1>5, <1>6, <1>7, <1>8, <1>9, <1>10, <1>11, <1>12
     DEF Next, WorkerStep

LEMMA LogInvariance == Spec => []LogInv
  BY InitLog, NextLog, PTL DEF Spec

-----------------------------------------------------------------------------
(* The order of the records. *)

Batch == IF wpc \in {"cut", "write"}
         THEN In(content, SubSeq(taken, written + 1, Len(taken))) ELSE <<>>
Queue == In(content, full)

\* To the provers, one sequence and then another is an operator of its own.
Cat(s, t) == s \o t

Whole == Cat(file, Cat(Batch, Cat(Queue, content[current])))

\* Empty is what nobody has filled yet, or has emptied since.
FreshIsEmpty ==
    /\ next # NULL => content[next] = <<>>
    /\ \A b \in Buffers \ Held : content[b] = <<>>

Progress ==
    /\ wpc \in {"test", "lock", "cut", "done"} => written = 0
    /\ wpc \in {"cut", "write"} => written <= Len(taken)

OrderInv ==
    /\ LogInv /\ FreshIsEmpty /\ Progress
    /\ InOrder(Whole, dropped, Len(records))

LEMMA CatIs ==
  ASSUME NEW S, NEW s \in Seq(S), NEW t \in Seq(S), NEW u \in Seq(S)
  PROVE  /\ Cat(s, t) \in Seq(S)
         /\ Cat(Cat(s, t), u) = Cat(s, Cat(t, u))
         /\ Cat(s, <<>>) = s /\ Cat(<<>>, s) = s
<1>1. s \o t \in Seq(S) /\ s \o <<>> = s /\ <<>> \o s = s
  BY ConcatProperties, ConcatEmptySeq
<1>2. (s \o t) \o u = s \o (t \o u)
  BY ConcatAssociative
<1> QED
  BY <1>1, <1>2 DEF Cat

LEMMA LastOfAll ==
  ASSUME NEW S, NEW a \in Seq(S), NEW b \in Seq(S), NEW c \in Seq(S), NEW d \in Seq(S), NEW e \in Seq(S)
  PROVE  /\ Cat(a, Cat(b, Cat(c, d))) \in Seq(S)
         /\ Cat(a, Cat(b, Cat(c, Cat(d, e)))) = Cat(Cat(a, Cat(b, Cat(c, d))), e)
         /\ Cat(a, Cat(b, Cat(Cat(c, d), e))) = Cat(Cat(a, Cat(b, Cat(c, d))), e)
<1>1. \A s, t, u \in Seq(S) : /\ Cat(s, t) \in Seq(S)
                             /\ Cat(Cat(s, t), u) = Cat(s, Cat(t, u))
  BY CatIs
<1>2. Cat(c, d) \in Seq(S) /\ Cat(b, Cat(c, d)) \in Seq(S) /\ Cat(a, Cat(b, Cat(c, d))) \in Seq(S)
  BY <1>1
<1>3. Cat(Cat(a, Cat(b, Cat(c, d))), e) = Cat(a, Cat(b, Cat(Cat(c, d), e)))
  BY <1>1, <1>2
<1>4. Cat(Cat(c, d), e) = Cat(c, Cat(d, e))
  BY <1>1
<1> QED
  BY <1>2, <1>3, <1>4

LEMMA PartsAre ==
  ASSUME LogInv
  PROVE  /\ file \in Seq(Nat) /\ Batch \in Seq(Nat) /\ Queue \in Seq(Nat)
         /\ content[current] \in Seq(Nat) /\ Len(records) \in Nat
         /\ SubSeq(taken, written + 1, Len(taken)) \in Seq(Buffers)
         /\ Range(SubSeq(taken, written + 1, Len(taken))) \subseteq Range(taken)
<1>1. /\ file \in Seq(Nat) /\ content[current] \in Seq(Nat) /\ Len(records) \in Nat
      /\ content \in [Buffers -> Seq(Nat)] /\ full \in Seq(Buffers) /\ taken \in Seq(Buffers)
      /\ written \in Nat
  BY LenProperties DEF LogInv, TypeOK
<1>2. PICK n \in Nat : n = Len(taken) /\ DOMAIN taken = 1 .. n
  BY <1>1, LenProperties
<1>3. \A i \in written + 1 .. n : taken[i] \in Range(taken)
  BY <1>1, <1>2 DEF Range
<1>4. SubSeq(taken, written + 1, n) \in Seq(Range(taken))
  BY <1>1, <1>3, SubSeqProperties
<1>5. Range(taken) \subseteq Buffers
  BY <1>1, RangeOfSeq
<1>6. /\ SubSeq(taken, written + 1, n) \in Seq(Buffers)
      /\ Range(SubSeq(taken, written + 1, n)) \subseteq Range(taken)
  BY <1>4, <1>5, SeqMonotonic, RangeOfSeq
<1>7. Queue \in Seq(Nat)
  BY <1>1, InTurn DEF Queue
<1>8. Batch \in Seq(Nat)
  BY <1>1, <1>2, <1>6, InTurn, EmptySeq DEF Batch
<1> QED
  BY <1>1, <1>2, <1>6, <1>7, <1>8

LEMMA OrderIs == LogInv => (InOrderOnce <=> InOrder(Whole, dropped, Len(records)))
<1> SUFFICES ASSUME LogInv PROVE InOrderOnce <=> InOrder(Whole, dropped, Len(records))
  OBVIOUS
<1>1. Unwritten = Cat(Cat(Batch, Queue), content[current])
  BY DEF Unwritten, InBuffers, Batch, Queue, In, Contents, Cat
<1>2. Unwritten = Cat(Batch, Cat(Queue, content[current]))
  <2>1. PICK N : N = Nat
    OBVIOUS
  <2>2. PICK b \in Seq(N), q \in Seq(N), c \in Seq(N) : b = Batch /\ q = Queue /\ c = content[current]
    BY <2>1, PartsAre
  <2>3. Cat(Cat(b, q), c) = Cat(b, Cat(q, c))
    BY CatIs
  <2> QED
    BY <1>1, <2>2, <2>3
<1>3. file \o Unwritten = Whole
  BY <1>2 DEF Whole, Cat
<1>4. DOMAIN records = 1 .. Len(records)
  BY LenProperties DEF LogInv, TypeOK
<1> QED
  BY <1>3, <1>4 DEF InOrderOnce, InOrder, Ascending

LEMMA BatchStays ==
  ASSUME LogInv, UNCHANGED <<wpc, taken, written>>,
         \A x \in Range(taken) : content'[x] = content[x]
  PROVE  Batch' = Batch
<1>1. PICK bs : bs = SubSeq(taken, written + 1, Len(taken)) /\ Range(bs) \subseteq Range(taken)
  BY PartsAre
<1>2. In(content', bs) = In(content, bs)
  BY <1>1, InOthers
<1> QED
  BY <1>1, <1>2 DEF Batch

LEMMA OrderAtWrite ==
  ASSUME OrderInv, LogInv', NEW s \in DOMAIN Statements,
         WriteToCurrent(s) \/ WriteToNext(s), UNCHANGED <<backVars, wpc>>
  PROVE  OrderInv'
<1> USE DEF OrderInv, backVars
<1>N. PICK N : N = Nat
  OBVIOUS
<1>0. PICK n \in N : n = Len(records)
  BY <1>N, PartsAre
<1>1. PICK f \in Seq(N), b \in Seq(N), q \in Seq(N), c \in Seq(N) :
          f = file /\ b = Batch /\ q = Queue /\ c = content[current]
  BY <1>N, PartsAre
<1>2. /\ UNCHANGED <<spare1, spare2, taken, written, wpc, dropped, file>>
      /\ records' = Append(records, s) /\ Len(records') = n + 1
  <2>1. /\ UNCHANGED <<spare1, spare2, taken, written, wpc, dropped, file>>
        /\ records' = Append(records, s)
    BY DEF WriteToCurrent, WriteToNext, Accept
  <2>2. records \in Seq(DOMAIN Statements)
    BY DEF LogInv, TypeOK
  <2> QED
    BY <1>0, <2>1, <2>2, AppendProperties
<1>3. Progress'
  BY <1>2 DEF Progress
<1>4. PICK w \in Seq(N) : w = Whole /\ w = Cat(f, Cat(b, Cat(q, c)))
  BY <1>1, LastOfAll, CatIs DEF Whole
<1>5. PICK m \in N, e \in Seq(N) :
          /\ m = n + 1 /\ e = <<m>> /\ \A t \in Seq(N) : Append(t, m) = Cat(t, e)
  <2>1. PICK m \in N : m = n + 1
    BY <1>N
  <2>2. <<m>> \in Seq(N) /\ \A t \in Seq(N) : Append(t, m) = t \o <<m>>
    BY AppendIsConcat
  <2> QED
    BY <2>1, <2>2 DEF Cat
<1>8. InOrder(Cat(w, e), dropped, m)
  <2>1. InOrder(w, dropped, n) /\ w \in Seq(Nat) /\ n \in Nat
    BY <1>N, <1>0, <1>4
  <2>2. InOrder(Append(w, m), dropped, m)
    BY <1>5, <2>1, OneMore
  <2> QED
    BY <1>5, <2>2
<1>6. CASE WriteToCurrent(s)
  <2>1. /\ UNCHANGED <<current, next, full>>
        /\ content' = [content EXCEPT ![current] = Append(c, m)]
    BY <1>0, <1>1, <1>5, <1>6 DEF WriteToCurrent, Accept, frontVars
  <2>2. /\ current \in Buffers /\ content \in [Buffers -> Seq(Nat)]
        /\ current \notin Range(full) \cup Range(taken) /\ current # next
    BY DEF LogInv, TypeOK, OneHolder
  <2>3. content'[current'] = Append(c, m) /\ \A x \in Buffers \ {current} : content'[x] = content[x]
    BY <2>1, <2>2
  <2>4. Range(full) \subseteq Buffers /\ Range(taken) \subseteq Buffers
    BY RangeOfBuffers DEF LogInv
  <2>5. Batch' = b
    BY <1>1, <1>2, <2>2, <2>3, <2>4, BatchStays
  <2>6. Queue' = q
    <3>1. \A x \in Range(full) : content'[x] = content[x]
      BY <2>2, <2>3, <2>4
    <3>2. In(content', full) = In(content, full)
      BY <3>1, InOthers
    <3> QED
      BY <1>1, <2>1, <3>2 DEF Queue
  <2>7. FreshIsEmpty'
    <3>1. Held' = Held
      BY <1>2, <2>1 DEF Held
    <3> QED
      BY <2>1, <2>2, <2>3, <3>1 DEF FreshIsEmpty, Held, LogInv, TypeOK
  <2>8. Whole' = Cat(w, e)
    <3>1. Append(c, m) = Cat(c, e)
      BY <1>5
    <3>2. Whole' = Cat(f, Cat(b, Cat(q, Cat(c, e))))
      BY <1>1, <1>2, <2>3, <2>5, <2>6, <3>1 DEF Whole
    <3> QED
      BY <1>4, <3>2, LastOfAll
  <2> QED
    BY <1>0, <1>2, <1>3, <1>5, <1>8, <2>7, <2>8
<1>7. CASE WriteToNext(s)
  <2> DEFINE new == Replacement
  <2>1. /\ current' = new /\ next' = NULL /\ full' = Append(full, current)
        /\ content' = [content EXCEPT ![new] = Append(content[new], m)]
    BY <1>0, <1>5, <1>7, EveryLineFits DEF WriteToNext, Accept
  <2>2. /\ new \in Buffers /\ new # current /\ new \notin Range(full) \cup Range(taken)
        /\ content[new] = <<>>
    <3>1. CASE next # NULL
      BY <3>1 DEF Replacement, LogInv, TypeOK, OneHolder, FreshIsEmpty
    <3>2. CASE next = NULL
      <4>1. \E x \in Buffers : x \notin Held
        BY <1>7, <3>2 DEF WriteToNext, Replaceable
      <4>2. new \in Buffers /\ new \notin Held
        BY <3>2, <4>1 DEF Replacement
      <4> QED
        BY <4>2 DEF Held, FreshIsEmpty
    <3> QED
      BY <3>1, <3>2
  <2> HIDE DEF new
  <2>3. content \in [Buffers -> Seq(Nat)] /\ current \in Buffers /\ full \in Seq(Buffers)
    BY DEF LogInv, TypeOK
  <2>4. Append(<<>>, m) = <<m>> /\ content'[current'] = <<m>>
        /\ \A x \in Buffers \ {new} : content'[x] = content[x]
    BY <2>1, <2>2, <2>3
  <2>5. Range(full) \subseteq Buffers /\ Range(taken) \subseteq Buffers
    BY RangeOfBuffers DEF LogInv
  <2>6. Batch' = b
    BY <1>1, <1>2, <2>2, <2>4, <2>5, PartsAre, InOthers DEF Batch
  <2>7. Queue' = Cat(q, c)
    <3>1. In(content', full) = q
      BY <1>1, <2>2, <2>4, <2>5, InOthers DEF Queue
    <3>2. In(content', Append(full, current)) = In(content', full) \o content'[current]
      BY <2>3, InAppended DEF LogInv, TypeOK
    <3> QED
      BY <1>1, <2>1, <2>2, <2>3, <2>4, <3>1, <3>2 DEF Queue, Cat
  <2>8. FreshIsEmpty'
    <3>1. Range(full') = Range(full) \cup {current}
      BY <2>1, <2>3, AppendRange
    <3>2. \A x \in Buffers \ Held' : x # new /\ (x \in Held => x = next)
      BY <1>2, <2>1, <3>1 DEF Held
    <3>3. \A x \in Buffers \ Held' : content[x] = <<>>
      BY <3>2, LogAssumption DEF FreshIsEmpty
    <3> QED
      BY <2>1, <2>4, <3>2, <3>3 DEF FreshIsEmpty
  <2>9. Whole' = Cat(w, e)
    <3>1. Whole' = Cat(f, Cat(b, Cat(Cat(q, c), e)))
      BY <1>1, <1>2, <1>5, <2>4, <2>6, <2>7 DEF Whole
    <3> QED
      BY <1>4, <3>1, LastOfAll
  <2> QED
    BY <1>0, <1>2, <1>3, <1>5, <1>8, <2>8, <2>9
<1> QED
  BY <1>6, <1>7

\* A step that moves no record, and neither accepts nor loses one.
LEMMA NothingMoves ==
  ASSUME OrderInv, LogInv', FreshIsEmpty', Progress', Whole' = Whole, UNCHANGED <<dropped, records>>
  PROVE  OrderInv'
BY DEF OrderInv

LEMMA OrderQuiet ==
  ASSUME OrderInv, LogInv',
         \/ UNCHANGED vars \/ TestRunning
         \/ \E w \in Writers : Stop(w) \/ Joined(w)
  PROVE  OrderInv'
<1> USE DEF OrderInv
<1>1. /\ UNCHANGED <<current, next, full, spare1, spare2, taken, written, content,
                     records, dropped, file>>
      /\ wpc' = wpc \/ (wpc = "test" /\ wpc' \in {"lock", "done"})
  BY DEF vars, TestRunning, Stop, Joined, frontVars, backVars, histVars
<1>2. Whole' = Whole
  BY <1>1 DEF Whole, Batch, Queue
<1>3. FreshIsEmpty'
  BY <1>1 DEF FreshIsEmpty, Held
<1>4. Progress'
  BY <1>1 DEF Progress
<1> QED
  BY <1>1, <1>2, <1>3, <1>4, NothingMoves

LEMMA OrderAtTake == ASSUME OrderInv, LogInv', TakeBuffers PROVE OrderInv'
<1> USE DEF OrderInv
<1>1. /\ taken' = Append(full, current) /\ full' = <<>> /\ current' = spare1
      /\ spare1' = NULL /\ wpc = "lock" /\ wpc' = "cut"
      /\ UNCHANGED <<written, content, records, dropped, file>>
      /\ \/ next = NULL /\ next' = spare2 /\ spare2' = NULL
         \/ next # NULL /\ next' = next /\ spare2' = spare2
  BY DEF TakeBuffers, histVars
<1>2. /\ content \in [Buffers -> Seq(Nat)] /\ full \in Seq(Buffers) /\ current \in Buffers
      /\ spare1 \in Buffers /\ spare2 \in Buffers /\ next \in Buffers \cup {NULL}
      /\ taken = <<>> /\ content[spare1] = <<>> /\ content[spare2] = <<>> /\ written = 0
  BY <1>1 DEF LogInv, TypeOK, Rounds, SparesEmpty, Progress
<1>3. /\ taken' \in Seq(Buffers) /\ taken' # <<>> /\ Range(taken') = Range(full) \cup {current}
  <2>1. full \in Seq(Buffers) /\ current \in Buffers /\ taken' = Append(full, current)
    BY <1>1, <1>2
  <2>2. Append(full, current) \in Seq(Buffers) /\ Append(full, current) # <<>>
    BY <2>1
  <2>3. Range(Append(full, current)) = Range(full) \cup {current}
    BY <2>1, AppendRange
  <2> QED
    BY <2>1, <2>2, <2>3
<1>4. Progress'
  BY <1>1, <1>2, <1>3, LenProperties DEF Progress
<1>5. FreshIsEmpty'
  <2>1. Range(taken) = {}
    BY <1>2, EmptyRange
  <2>2. Buffers \ Held' \subseteq Buffers \ Held
    BY <1>1, <1>3, <2>1, LogAssumption DEF Held
  <2>3. next' # NULL => content[next'] = <<>>
    BY <1>1, <1>2 DEF FreshIsEmpty
  <2> QED
    BY <1>1, <2>2, <2>3 DEF FreshIsEmpty
<1>6. Batch' = Cat(Queue, content[current])
  <2>1. In(content, taken') = In(content, full) \o content[current]
    BY <1>1, <1>2, InAppended
  <2>2. SubSeq(taken', 1, Len(taken')) = taken' /\ 0 + 1 = 1
    BY <1>3, SubSeqFull
  <2>3. Batch' = In(content, taken')
    BY <1>1, <1>2, <2>2 DEF Batch
  <2> QED
    BY <2>1, <2>3 DEF Queue, Cat
<1>7. Queue' = <<>> /\ content'[current'] = <<>> /\ Batch = <<>>
  BY <1>1, <1>2, InTurn DEF Queue, Batch
<1>8. Whole' = Whole
  <2>1. PICK N : N = Nat
    OBVIOUS
  <2>2. PICK f \in Seq(N), q \in Seq(N), c \in Seq(N), none \in Seq(N) :
            f = file /\ q = Queue /\ c = content[current] /\ none = <<>>
    BY <2>1, PartsAre, EmptySeq
  <2>3. Cat(f, Cat(none, Cat(q, c))) = Cat(f, Cat(Cat(q, c), Cat(none, none)))
    <3>1. \A s \in Seq(N) : Cat(s, none) = s /\ Cat(none, s) = s
      BY <2>2, CatIs
    <3>2. Cat(q, c) \in Seq(N)
      BY CatIs
    <3> QED
      BY <3>1, <3>2
  <2>4. Whole = Cat(f, Cat(none, Cat(q, c)))
    BY <1>7, <2>2 DEF Whole
  <2>5. Whole' = Cat(f, Cat(Cat(q, c), Cat(none, none)))
    BY <1>1, <1>6, <1>7, <2>2 DEF Whole
  <2> QED
    BY <2>3, <2>4, <2>5
<1> QED
  BY <1>1, <1>4, <1>5, <1>8, NothingMoves

LEMMA OrderAtAllWritten == ASSUME OrderInv, LogInv', AllWritten PROVE OrderInv'
<1> USE DEF OrderInv
<1>1. /\ wpc = "write" /\ wpc' = "refill" /\ written = Len(taken)
      /\ UNCHANGED <<current, next, full, spare1, spare2, taken, written, content,
                     records, dropped, file>>
  BY DEF AllWritten, frontVars, backVars, histVars
<1>2. Batch = <<>>
  <2>1. PICK n \in Nat : n = Len(taken)
    BY LenProperties DEF LogInv, TypeOK
  <2>2. SubSeq(taken, n + 1, n) = <<>>
    BY <2>1, SubSeqEmpty
  <2>3. In(content, <<>>) = <<>>
    BY InTurn, EmptySeq DEF LogInv, TypeOK
  <2> QED
    BY <1>1, <2>1, <2>2, <2>3 DEF Batch
<1>3. Whole' = Whole
  BY <1>1, <1>2 DEF Whole, Batch, Queue
<1>4. FreshIsEmpty' /\ Progress'
  BY <1>1 DEF FreshIsEmpty, Held, Progress
<1> QED
  BY <1>1, <1>3, <1>4, NothingMoves

\* The batch is behind the worker: what becomes of its buffers concerns nobody else.
LEMMA OrderAtRefill == ASSUME OrderInv, LogInv', Refill \/ Refilled \/ ClearBatch PROVE OrderInv'
<1> USE DEF OrderInv
<1>0. /\ content \in [Buffers -> Seq(Nat)] /\ current \in Buffers /\ current \notin Range(taken)
      /\ taken \in Seq(Buffers) /\ full \in Seq(Buffers) /\ Range(full) \subseteq Buffers
      /\ Range(full) \cap Range(taken) = {} /\ Range(taken) \subseteq Buffers
      /\ next \notin Range(taken)
  BY RangeOfBuffers DEF LogInv, TypeOK, OneHolder
<1>1. /\ UNCHANGED <<current, next, full, records, dropped, file>>
      /\ wpc \in {"refill", "clear"}
      /\ \/ wpc' = wpc /\ wpc = "refill" /\ written' = written
         \/ wpc = "refill" /\ wpc' = "clear" /\ written' = written
         \/ wpc' = "test" /\ written' = 0
      /\ content' \in [Buffers -> Seq(Nat)]
  BY DEF Refill, Refilled, ClearBatch, frontVars, backVars, histVars, LogInv, TypeOK
<1>2. \A b \in Buffers : content'[b] = content[b] \/ (b \in Range(taken) /\ content'[b] = <<>>)
  <2>1. CASE Refill
    <3>1. Last(taken) \in Range(taken) /\ content' = [content EXCEPT ![Last(taken)] = <<>>]
      BY <1>0, <2>1, FrontLast DEF Refill
    <3> QED
      BY <1>0, <3>1
  <2>2. CASE Refilled
    BY <2>2 DEF Refilled
  <2>3. CASE ClearBatch
    BY <2>3 DEF ClearBatch, Emptied
  <2> QED
    BY <2>1, <2>2, <2>3
<1>3. \A b \in Range(taken) : b \in Held' \/ content'[b] = <<>>
  <2>1. CASE Refill
    <3>1. /\ content' = [content EXCEPT ![Last(taken)] = <<>>] /\ taken # <<>>
          /\ taken' = Front(taken)
      BY <2>1 DEF Refill
    <3>2. \A b \in Range(taken) : b = Last(taken) \/ b \in Range(Front(taken))
      BY <1>0, <3>1, FrontRest
    <3> QED
      BY <1>0, <3>1, <3>2 DEF Held
  <2>2. CASE Refilled
    BY <2>2 DEF Refilled, Held, backVars
  <2>3. CASE ClearBatch
    BY <1>0, <2>3 DEF ClearBatch, Emptied
  <2> QED
    BY <2>1, <2>2, <2>3
<1>4. \A b \in Held : b \in Range(taken) \/ b = NULL \/ b \in Held'
  <2>1. CASE Refill
    BY <2>1 DEF Refill, MakeSpare, Held, frontVars
  <2>2. CASE Refilled
    BY <2>2 DEF Refilled, Held, backVars, frontVars
  <2>3. CASE ClearBatch
    BY <2>3 DEF ClearBatch, Held, frontVars
  <2> QED
    BY <2>1, <2>2, <2>3
<1>5. FreshIsEmpty'
  <2>1. ASSUME NEW b \in Buffers, b \notin Held' PROVE content'[b] = <<>>
    <3>1. CASE b \in Range(taken)
      BY <1>3, <2>1, <3>1
    <3>2. CASE b \notin Range(taken)
      <4>1. b \notin Held
        BY <1>4, <2>1, <3>2, LogAssumption
      <4> QED
        BY <1>2, <4>1 DEF FreshIsEmpty
    <3> QED
      BY <3>1, <3>2
  <2>2. next' # NULL => content'[next'] = <<>>
    BY <1>0, <1>1, <1>2 DEF FreshIsEmpty, LogInv, TypeOK
  <2> QED
    BY <2>1, <2>2 DEF FreshIsEmpty
<1>6. Progress'
  BY <1>1 DEF Progress
<1>7. Batch = <<>> /\ Batch' = <<>> /\ content'[current'] = content[current]
  BY <1>0, <1>1, <1>2 DEF Batch
<1>8. Queue' = Queue
  <2>1. \A b \in Range(full) : content'[b] = content[b]
    BY <1>0, <1>2
  <2>2. In(content', full) = In(content, full)
    BY <2>1, InOthers
  <2> QED
    BY <1>1, <2>2 DEF Queue
<1>9. Whole' = Whole
  BY <1>1, <1>7, <1>8 DEF Whole
<1> QED
  BY <1>1, <1>5, <1>6, <1>9, NothingMoves

LEMMA OrderAtCut == ASSUME OrderInv, LogInv', CutBatch PROVE OrderInv'
<1> USE DEF OrderInv
<1>1. /\ UNCHANGED <<current, next, full, spare1, spare2, written, records, file>>
      /\ wpc = "cut" /\ wpc' = "write"
  BY DEF CutBatch, frontVars
<1>2. /\ content \in [Buffers -> Seq(Nat)] /\ content' \in [Buffers -> Seq(Nat)]
      /\ taken \in Seq(Buffers) /\ full \in Seq(Buffers) /\ Range(full) \subseteq Buffers
      /\ IsInjective(taken) /\ Range(full) \cap Range(taken) = {}
      /\ current \in Buffers /\ current \notin Range(taken) /\ next \notin Range(taken)
      /\ next \in Buffers \cup {NULL}
      /\ written = 0
  BY <1>1, RangeOfBuffers DEF LogInv, TypeOK, OneHolder, Progress
<1>3. CASE ~(Len(taken) > MaxBatch)
  <2>1. UNCHANGED <<taken, dropped, content>>
    BY <1>3 DEF CutBatch
  <2>2. Whole' = Whole
    BY <1>1, <2>1 DEF Whole, Batch, Queue
  <2>3. FreshIsEmpty' /\ Progress'
    BY <1>1, <2>1 DEF FreshIsEmpty, Held, Progress
  <2> QED
    BY <1>1, <2>1, <2>2, <2>3, NothingMoves
<1>4. CASE Len(taken) > MaxBatch
  <2>1. PICK kept, lost : kept = SubSeq(taken, 1, KeptOfBatch)
                          /\ lost = SubSeq(taken, KeptOfBatch + 1, Len(taken))
    OBVIOUS
  <2>2. /\ taken' = kept /\ content' = Emptied(lost)
        /\ dropped' = dropped \cup UNION {Range(content[b]) : b \in Range(lost)}
    BY <1>4, <2>1 DEF CutBatch, Cut
  <2>3. /\ kept \in Seq(Buffers) /\ lost \in Seq(Buffers) /\ taken = kept \o lost
        /\ Range(taken) = Range(kept) \cup Range(lost) /\ Range(kept) \cap Range(lost) = {}
    <3>1. KeptOfBatch \in Nat /\ KeptOfBatch <= Len(taken)
      BY <1>2, <1>4, LenProperties, LogAssumption
    <3> QED
      BY <1>2, <2>1, <3>1, TwoParts
  <2>4. Range(kept) \subseteq Buffers /\ Range(lost) \subseteq Buffers
    BY <2>3, RangeOfSeq
  <2>5. \A b \in Buffers : content'[b] = IF b \in Range(lost) THEN <<>> ELSE content[b]
    BY <2>2 DEF Emptied
  <2>6. Progress'
    BY <1>1, <1>2, LenProperties DEF Progress, LogInv, TypeOK
  <2>7. FreshIsEmpty'
    <3>1. \A b \in Buffers \ Held' : b \in Buffers \ Held \/ b \in Range(lost)
      BY <1>1, <2>2, <2>3 DEF Held
    <3>2. \A b \in Buffers \ Held' : content'[b] = <<>>
      BY <2>5, <3>1 DEF FreshIsEmpty
    <3>3. next' # NULL => content'[next'] = <<>>
      BY <1>1, <1>2, <2>3, <2>5 DEF FreshIsEmpty
    <3> QED
      BY <3>2, <3>3 DEF FreshIsEmpty
  <2>8. Batch = Cat(In(content, kept), In(content, lost))
    <3>1. SubSeq(taken, 1, Len(taken)) = taken /\ 0 + 1 = 1
      BY <1>2, SubSeqFull
    <3>2. In(content, kept \o lost) = In(content, kept) \o In(content, lost)
      <4>1. kept \in Seq(Buffers) /\ lost \in Seq(Buffers) /\ content \in [Buffers -> Seq(Nat)]
        BY <1>2, <2>3
      <4> QED
        BY <4>1, InTurn
    <3> QED
      BY <1>1, <1>2, <2>3, <3>1, <3>2 DEF Batch, Cat
  <2>9. Batch' = In(content, kept)
    <3>1. SubSeq(kept, 1, Len(kept)) = kept /\ 0 + 1 = 1
      BY <2>3, SubSeqFull
    <3>2. Batch' = In(content', kept)
      BY <1>1, <1>2, <2>2, <3>1 DEF Batch
    <3>3. \A b \in Range(kept) : content'[b] = content[b]
      BY <2>3, <2>4, <2>5
    <3>4. In(content', kept) = In(content, kept)
      BY <3>3, InOthers
    <3> QED
      BY <3>2, <3>4
  <2>10. Queue' = Queue /\ content'[current'] = content[current]
    <3>1. \A b \in Range(full) : content'[b] = content[b]
      BY <1>2, <2>3, <2>5
    <3>2. In(content', full) = In(content, full)
      BY <3>1, InOthers
    <3> QED
      BY <1>1, <1>2, <2>3, <2>5, <3>2 DEF Queue
  <2>11. PICK N : N = Nat
    OBVIOUS
  <2>12. PICK f \in Seq(N), k \in Seq(N), l \in Seq(N), q \in Seq(N), c \in Seq(N) :
             /\ f = file /\ k = In(content, kept) /\ l = In(content, lost)
             /\ q = Queue /\ c = content[current]
    <3>1. In(content, kept) \in Seq(Nat) /\ In(content, lost) \in Seq(Nat)
      BY <1>2, <2>3, InTurn
    <3> QED
      BY <2>11, <3>1, PartsAre
  <2>13. PICK r \in Seq(N), p \in Seq(N) : r = Cat(q, c) /\ p = Cat(f, k)
    BY CatIs
  <2>14. Whole = Cat(p, Cat(l, r)) /\ Whole' = Cat(p, r)
    <3>1. \A s, t, u \in Seq(N) : /\ Cat(s, t) \in Seq(N)
                                 /\ Cat(Cat(s, t), u) = Cat(s, Cat(t, u))
      BY CatIs
    <3>2. Cat(f, Cat(Cat(k, l), r)) = Cat(p, Cat(l, r)) /\ Cat(f, Cat(k, r)) = Cat(p, r)
      BY <2>13, <3>1
    <3>3. Whole = Cat(f, Cat(Cat(k, l), r))
      BY <2>8, <2>12, <2>13 DEF Whole
    <3>4. Whole' = Cat(f, Cat(k, r))
      BY <1>1, <2>9, <2>10, <2>12, <2>13 DEF Whole
    <3> QED
      BY <3>2, <3>3, <3>4
  <2>15. dropped' = dropped \cup Range(l)
    <3>1. Range(In(content, lost)) = UNION {Range(content[b]) : b \in Range(lost)}
      BY <1>2, <2>3, InTurn
    <3> QED
      BY <2>2, <2>12, <3>1
  <2>16. InOrder(Cat(p, r), dropped \cup Range(l), Len(records))
    <3>1. InOrder(p \o (l \o r), dropped, Len(records)) /\ Len(records) \in Nat
      BY <2>14, PartsAre DEF Cat
    <3>2. InOrder(p \o r, dropped \cup Range(l), Len(records))
      BY <2>11, <3>1, SomeLost
    <3> QED
      BY <3>2 DEF Cat
  <2> QED
    BY <1>1, <2>6, <2>7, <2>14, <2>15, <2>16
<1> QED
  BY <1>3, <1>4

LEMMA OrderAtBuffer == ASSUME OrderInv, LogInv', WriteBuffer PROVE OrderInv'
<1> USE DEF OrderInv
<1>1. /\ UNCHANGED <<current, next, full, spare1, spare2, taken, content, records, wpc>>
      /\ wpc = "write" /\ written < Len(taken) /\ written' = written + 1
  BY DEF WriteBuffer, frontVars
<1>2. /\ content \in [Buffers -> Seq(Nat)] /\ taken \in Seq(Buffers) /\ written \in Nat
      /\ Len(taken) \in Nat
  BY LenProperties DEF LogInv, TypeOK
<1>3. FreshIsEmpty' /\ Progress'
  BY <1>1, <1>2 DEF FreshIsEmpty, Held, Progress
<1>4. PICK b, all : b = taken[written + 1] /\ all = content[b]
  OBVIOUS
<1>5. b \in Buffers /\ all \in Seq(Nat)
  <2>1. written + 1 \in 1 .. Len(taken)
    BY <1>1, <1>2
  <2>2. b \in Buffers
    BY <1>2, <1>4, <2>1, ElementOfSeq
  <2> QED
    BY <1>2, <1>4, <2>2
<1>6. Batch = Cat(all, Batch') /\ Batch' \in Seq(Nat)
  <2>1. PICK rest : rest = SubSeq(taken, (written + 1) + 1, Len(taken))
    OBVIOUS
  <2>2. /\ SubSeq(taken, written + 1, Len(taken)) = <<b>> \o rest
        /\ rest \in Seq(Buffers) /\ <<b>> \in Seq(Buffers)
    <3>1. written + 1 \in 1 .. Len(taken) /\ Len(taken) \in written + 1 .. Len(taken)
      BY <1>1, <1>2
    <3>2. SubSeq(taken, written + 1, Len(taken)) = <<b>> \o rest
      BY <1>2, <1>4, <2>1, <3>1, SubSeqRecursiveFirst
    <3>3. \A i \in (written + 1) + 1 .. Len(taken) : taken[i] \in Buffers
      BY <1>2, ElementOfSeq
    <3>4. rest \in Seq(Buffers)
      BY <1>2, <2>1, <3>3, SubSeqProperties
    <3>5. <<b>> \in Seq(Buffers)
      BY <1>5
    <3> QED
      BY <3>2, <3>4, <3>5
  <2>3. In(content, <<b>> \o rest) = In(content, <<b>>) \o In(content, rest)
    BY <1>2, <2>2, InTurn
  <2>4. In(content, <<b>>) = all
    BY <1>2, <1>4, <1>5, InTurn
  <2>5. In(content, rest) \in Seq(Nat)
    BY <1>2, <2>2, InTurn
  <2>6. Batch' = In(content, rest)
    BY <1>1, <2>1 DEF Batch
  <2>7. Batch = In(content, <<b>> \o rest)
    BY <1>1, <2>2 DEF Batch
  <2> QED
    BY <2>3, <2>4, <2>5, <2>6, <2>7 DEF Cat
<1>7. PICK N : N = Nat
  OBVIOUS
<1>8. PICK f \in Seq(N), rest \in Seq(N), q \in Seq(N), c \in Seq(N) :
          f = file /\ rest = Batch' /\ q = Queue /\ c = content[current]
  BY <1>6, <1>7, PartsAre
<1>9. PICK qc \in Seq(N), r \in Seq(N) : qc = Cat(q, c) /\ r = Cat(rest, qc)
  BY CatIs
<1>10. Whole = Cat(f, Cat(Cat(all, rest), qc)) /\ Whole' = Cat(file', r)
  <2>1. Queue' = Queue
    BY <1>1 DEF Queue
  <2> QED
    BY <1>1, <1>6, <1>8, <1>9, <2>1 DEF Whole
<1>11. CASE file' = file \o all /\ UNCHANGED dropped
  <2>1. PICK x \in Seq(N) : x = all
    BY <1>5, <1>7
  <2>2. Cat(f, Cat(Cat(x, rest), qc)) = Cat(Cat(f, x), r)
    <3>1. \A s, t, u \in Seq(N) : /\ Cat(s, t) \in Seq(N)
                                 /\ Cat(Cat(s, t), u) = Cat(s, Cat(t, u))
      BY CatIs
    <3> QED
      BY <1>9, <3>1
  <2>3. Whole' = Whole
    BY <1>8, <1>10, <1>11, <2>1, <2>2 DEF Cat
  <2> QED
    BY <1>1, <1>3, <1>11, <2>3, NothingMoves
<1>12. ASSUME NEW n \in 1 .. Len(all), dropped = {}, file' = file \o SubSeq(all, 1, n - 1),
              dropped' = Range(SubSeq(all, n, Len(all)))
       PROVE  OrderInv'
  <2>1. PICK k \in Nat : k = n - 1 /\ k + 1 = n /\ k <= Len(all)
    BY <1>5, LenProperties
  <2>2. PICK x \in Seq(N), y \in Seq(N) :
            /\ x = SubSeq(all, 1, n - 1) /\ y = SubSeq(all, n, Len(all)) /\ all = Cat(x, y)
    <3>1. PICK x, y : x = SubSeq(all, 1, k) /\ y = SubSeq(all, k + 1, Len(all))
      OBVIOUS
    <3>2. x \in Seq(Nat) /\ y \in Seq(Nat) /\ all = x \o y
      BY <1>5, <2>1, <3>1, TwoParts
    <3> QED
      BY <1>7, <2>1, <3>1, <3>2 DEF Cat
  <2>3. PICK p \in Seq(N) : p = Cat(f, x)
    BY CatIs
  <2>4. Cat(f, Cat(Cat(Cat(x, y), rest), qc)) = Cat(p, Cat(y, r))
    <3>1. \A s, t, u \in Seq(N) : /\ Cat(s, t) \in Seq(N)
                                 /\ Cat(Cat(s, t), u) = Cat(s, Cat(t, u))
      BY CatIs
    <3>2. Cat(Cat(x, y), rest) = Cat(x, Cat(y, rest))
      BY <3>1
    <3>3. Cat(Cat(x, Cat(y, rest)), qc) = Cat(x, Cat(Cat(y, rest), qc))
      BY <3>1
    <3>4. Cat(Cat(y, rest), qc) = Cat(y, r)
      BY <1>9, <3>1
    <3>5. Cat(f, Cat(x, Cat(y, r))) = Cat(p, Cat(y, r))
      BY <2>3, <3>1
    <3> QED
      BY <3>2, <3>3, <3>4, <3>5
  <2>5. Whole = Cat(p, Cat(y, r)) /\ Whole' = Cat(p, r)
    <3>1. file' = p
      BY <1>8, <1>12, <2>2, <2>3 DEF Cat
    <3> QED
      BY <1>10, <2>2, <2>4, <3>1
  <2>6. InOrder(Cat(p, r), dropped \cup Range(y), Len(records))
    <3>1. InOrder(p \o (y \o r), dropped, Len(records)) /\ Len(records) \in Nat
      BY <2>5, PartsAre DEF Cat
    <3>2. InOrder(p \o r, dropped \cup Range(y), Len(records))
      BY <1>7, <3>1, SomeLost
    <3> QED
      BY <3>2 DEF Cat
  <2>7. dropped' = dropped \cup Range(y)
    BY <1>12, <2>2
  <2> QED
    BY <1>1, <1>3, <2>5, <2>6, <2>7
<1> QED
  BY <1>4, <1>11, <1>12 DEF WriteBuffer

LEMMA InitOrder == Init => OrderInv
<1> SUFFICES ASSUME Init PROVE OrderInv
  OBVIOUS
<1>1. LogInv
  BY InitLog
<1>2. FreshIsEmpty
  BY <1>1 DEF Init, FreshIsEmpty, LogInv, TypeOK
<1>3. Progress
  BY DEF Init, Progress
<1>4. Whole = <<>>
  <2>1. Queue = <<>> /\ Batch = <<>> /\ file = <<>> /\ content[current] = <<>>
    BY <1>1, InTurn DEF Init, Queue, Batch, LogInv, TypeOK
  <2>2. Cat(<<>>, <<>>) = <<>>
    BY CatIs, EmptySeq
  <2> QED
    BY <2>1, <2>2 DEF Whole
<1>5. InOrder(<<>>, {}, 0)
  BY EmptyRange DEF InOrder, Ascending
<1> QED
  BY <1>1, <1>2, <1>3, <1>4, <1>5, EmptySeq DEF OrderInv, Init

LEMMA NextOrder == OrderInv /\ [Next]_vars => OrderInv'
<1> SUFFICES ASSUME OrderInv, [Next]_vars PROVE OrderInv'
  OBVIOUS
<1>1. LogInv'
  BY NextLog DEF OrderInv
<1>2. ASSUME NEW w \in Writers, WriteLog(w) \/ WriteFatal(w) PROVE OrderInv'
  <2>1. PICK s \in DOMAIN Statements : WriteToCurrent(s) \/ WriteToNext(s)
    BY <1>2, GivenOffered DEF WriteLog, WriteFatal, OrderInv, LogInv
  <2>2. UNCHANGED <<backVars, wpc>>
    BY <1>2 DEF WriteLog, WriteFatal
  <2> QED
    BY <1>1, <2>1, <2>2, OrderAtWrite
<1> QED
  BY <1>1, <1>2, OrderQuiet, OrderAtTake, OrderAtCut, OrderAtBuffer, OrderAtAllWritten,
     OrderAtRefill DEF Next, WorkerStep

-----------------------------------------------------------------------------
\* A Buffer is never in two hands: the writers' current and next buffers, the
\* queued ones, the worker's batch and its spares are all different.
THEOREM BuffersHaveOneHolder == Spec => []OneHolder
<1>1. LogInv => OneHolder
  BY DEF LogInv
<1> QED
  BY <1>1, LogInvariance, PTL

\* The assertions of Worker(), absent from a release build, are never false:
\* the worker always finds a buffer in its batch for each spare it gave away.
THEOREM WorkerAssertionsHold == Spec => []AssertionsHold
<1>1. LogInv => AssertionsHold
  <2> SUFFICES ASSUME LogInv PROVE AssertionsHold
    OBVIOUS
  <2>1. taken = <<>> => Len(taken) = 0
    BY EmptySeq
  <2>2. wpc \in {"cut", "write"} => taken # <<>>
    BY <2>1 DEF LogInv, Rounds, SparesToMake
  <2>3. wpc = "refill" /\ (spare1 = NULL \/ spare2 = NULL) => taken # <<>>
    BY <2>1 DEF LogInv, Rounds, SparesToMake
  <2> QED
    BY <2>2, <2>3 DEF LogInv, AssertionsHold, Rounds, SparesEmpty
<1> QED
  BY <1>1, LogInvariance, PTL

\* Records reach the file in the order in which they were accepted, each once,
\* and the only ones missing were in a batch cut short or in a failed write.
THEOREM RecordsKeepTheirOrder == Spec => []InOrderOnce
<1>1. OrderInv => InOrderOnce
  BY OrderIs DEF OrderInv
<1> QED
  BY <1>1, InitOrder, NextOrder, PTL DEF Spec

LEMMA WholeLines == OrderInv => LinesWhole
<1> SUFFICES ASSUME OrderInv, NEW r \in Range(file) \cup dropped
             PROVE  /\ Lines[records[r]].size < LineSize
                    /\ SizeOf(Pieces(Statements[records[r]])) + NumberSize <= LineSize
                          => Lines[records[r]].pieces = Pieces(Statements[records[r]])
                    /\ \A i \in DOMAIN Lines[records[r]].pieces :
                          Lines[records[r]].pieces[i].kind = "number" =>
                             Reads(IntToString[Lines[records[r]].pieces[i].value])
                                = Zero(Lines[records[r]].pieces[i].value)
  BY DEF LinesWhole, SizeOf
<1>1. PICK N : N = Nat
  OBVIOUS
<1>2. PICK f \in Seq(N), t \in Seq(N) : f = file /\ Whole = Cat(f, t)
  <2>1. PICK f \in Seq(N), b \in Seq(N), q \in Seq(N), c \in Seq(N) :
            f = file /\ b = Batch /\ q = Queue /\ c = content[current]
    BY <1>1, PartsAre DEF OrderInv
  <2>2. Cat(b, Cat(q, c)) \in Seq(N)
    BY CatIs
  <2> QED
    BY <2>1, <2>2 DEF Whole
<1>3. Range(file) \subseteq Range(Whole)
  BY <1>2, RangeConcatenation DEF Cat
<1>4. r \in 1 .. Len(records)
  BY <1>3 DEF OrderInv, InOrder
<1>5. records[r] \in DOMAIN Statements
  BY <1>4, ElementOfSeq DEF OrderInv, LogInv, TypeOK
<1> QED
  BY <1>5, LineIsWhole

\* A line is never longer than its buffer, keeps all it was given unless that
\* came within a number of the limit, and its numbers read back.
THEOREM LinesAreWhole == Spec => []LinesWhole
  BY WholeLines, InitOrder, NextOrder, PTL DEF Spec

=============================================================================
