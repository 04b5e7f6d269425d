--------------------------- MODULE PageCacheProofs ---------------------------
(***************************************************************************)
(* Proofs about LFUCache and about MemoryPool, which it takes its nodes    *)
(* from.  For any threads, files and capacity the lists and maps of the    *)
(* cache agree, and what it evicts was used least.  For any callers and    *)
(* size of a block a slot has one owner, and a block is overrun by fewer   *)
(* slots than there are callers, by none if they come one at a time.       *)
(***************************************************************************)
EXTENDS LFUCache, MemoryPool, FiniteSetTheorems, SequenceTheorems, TLAPS

-----------------------------------------------------------------------------
(* The pool.                                                               *)

\* PoolInit and every step keep the types, and lastSlot_ the end of currentSlot_'s block.
THEOREM PoolTypeCorrect == PoolSpec => []PoolTypeOK
<1>1. PoolInit => PoolTypeOK
  BY PoolAssumption DEF PoolInit, PoolTypeOK, NoSlot, Slot, Phases
<1>2. PoolTypeOK /\ [PoolNext]_poolVars => PoolTypeOK'
  <2> SUFFICES ASSUME PoolTypeOK, [PoolNext]_poolVars PROVE PoolTypeOK'
    OBVIOUS
  <2> USE PoolAssumption DEF PoolTypeOK, Goto, Phases
  <2>1. ASSUME NEW t \in Callers, Allocate(t) PROVE PoolTypeOK'
    BY <2>1 DEF Allocate
  <2>2. ASSUME NEW t \in Callers, PopFree(t) PROVE PoolTypeOK'
    <3>1. freeSlots # <<>> => Head(freeSlots) \in Slot /\ Tail(freeSlots) \in Seq(Slot)
      OBVIOUS
    <3> QED
      BY <2>2, <3>1 DEF PopFree
  <2>3. ASSUME NEW t \in Callers, LookCurrent(t) PROVE PoolTypeOK'
    BY <2>3 DEF LookCurrent
  <2>4. ASSUME NEW t \in Callers, Compare(t) PROVE PoolTypeOK'
    BY <2>4 DEF Compare, NoSlot, Slot
  <2>5. ASSUME NEW t \in Callers, Cut(t) PROVE PoolTypeOK'
    BY <2>5 DEF Cut, Slot
  <2>6. ASSUME NEW t \in Callers, AllocateBlock(t) PROVE PoolTypeOK'
    BY <2>6 DEF AllocateBlock, Slot
  <2>7. ASSUME NEW s \in held, DeAllocate(s) PROVE PoolTypeOK'
    <3>1. <<s>> \o freeSlots \in Seq(Slot)
      OBVIOUS
    <3> QED
      BY <2>7, <3>1 DEF DeAllocate
  <2>8. CASE UNCHANGED poolVars
    BY <2>8 DEF poolVars
  <2> QED
    BY <2>1, <2>2, <2>3, <2>4, <2>5, <2>6, <2>7, <2>8 DEF PoolNext
<1> QED
  BY <1>1, <1>2, PTL DEF PoolSpec

-----------------------------------------------------------------------------
\* Taking the head off a list, or putting a new one on, leaves it without doubles.
LEMMA TailInjective ==
    ASSUME NEW S, NEW q \in Seq(S), q # <<>>, IsInjective(q)
    PROVE  /\ IsInjective(Tail(q))
           /\ Range(Tail(q)) = Range(q) \ {Head(q)}
           /\ Head(q) \in Range(q)
<1>1. /\ Len(q) \in Nat \ {0} /\ DOMAIN q = 1 .. Len(q)
      /\ Tail(q) \in Seq(S) /\ Len(Tail(q)) = Len(q) - 1
      /\ DOMAIN Tail(q) = 1 .. Len(Tail(q))
      /\ \A i \in 1 .. Len(Tail(q)) : Tail(q)[i] = q[i + 1]
  OBVIOUS
<1>2. Head(q) = q[1]
  OBVIOUS
<1>3. IsInjective(Tail(q))
  BY <1>1 DEF IsInjective
<1>4. \A x : x \in Range(Tail(q)) <=> x \in Range(q) /\ x # q[1]
  <2> SUFFICES ASSUME NEW x PROVE x \in Range(Tail(q)) <=> x \in Range(q) /\ x # q[1]
    OBVIOUS
  <2>1. ASSUME NEW i \in 1 .. Len(Tail(q)), x = Tail(q)[i] PROVE x \in Range(q) /\ x # q[1]
    <3>1. i + 1 \in DOMAIN q /\ 1 \in DOMAIN q /\ i + 1 # 1 /\ x = q[i + 1]
      BY <1>1, <2>1
    <3> QED
      BY <3>1 DEF Range, IsInjective
  <2>2. ASSUME NEW i \in DOMAIN q, x = q[i], x # q[1] PROVE x \in Range(Tail(q))
    <3>1. i - 1 \in DOMAIN Tail(q) /\ Tail(q)[i - 1] = x
      BY <1>1, <2>2
    <3> QED
      BY <3>1 DEF Range
  <2> QED
    BY <1>1, <2>1, <2>2 DEF Range
<1>5. Head(q) \in Range(q)
  BY <1>1, <1>2 DEF Range
<1>6. Range(Tail(q)) = Range(q) \ {Head(q)}
  BY <1>2, <1>4
<1> QED
  BY <1>3, <1>5, <1>6

LEMMA ConsInjective ==
    ASSUME NEW S, NEW q \in Seq(S), NEW x \in S, x \notin Range(q), IsInjective(q)
    PROVE  /\ IsInjective(<<x>> \o q)
           /\ Range(<<x>> \o q) = Range(q) \cup {x}
<1> DEFINE r == <<x>> \o q
<1>1. /\ Len(q) \in Nat /\ DOMAIN q = 1 .. Len(q)
      /\ Len(r) = Len(q) + 1 /\ DOMAIN r = 1 .. Len(q) + 1
      /\ r[1] = x
      /\ \A i \in 2 .. Len(q) + 1 : r[i] = q[i - 1]
  OBVIOUS
<1> HIDE DEF r
<1>2. \A i \in 1 .. Len(q) + 1 : i = 1 \/ (i \in 2 .. Len(q) + 1 /\ i - 1 \in DOMAIN q)
  BY <1>1
<1>3. IsInjective(r)
  <2> SUFFICES ASSUME NEW i \in DOMAIN r, NEW j \in DOMAIN r, r[i] = r[j] PROVE i = j
    BY DEF IsInjective
  <2>1. \A k \in DOMAIN r : k # 1 => k - 1 \in DOMAIN q /\ r[k] = q[k - 1] /\ r[k] # x
    BY <1>1, <1>2 DEF Range
  <2>2. CASE i = 1 \/ j = 1
    BY <1>1, <2>1, <2>2
  <2>3. CASE i # 1 /\ j # 1
    <3>1. q[i - 1] = q[j - 1] /\ i - 1 \in DOMAIN q /\ j - 1 \in DOMAIN q
      BY <2>1, <2>3
    <3>2. i - 1 = j - 1
      BY <3>1 DEF IsInjective
    <3> QED
      BY <1>1, <3>2
  <2> QED
    BY <2>2, <2>3
<1>4. \A i \in DOMAIN q : i + 1 \in DOMAIN r /\ r[i + 1] = q[i]
  BY <1>1
<1>5. 1 \in DOMAIN r
  BY <1>1
<1>6. Range(r) = Range(q) \cup {x}
  BY <1>1, <1>2, <1>4, <1>5 DEF Range
<1> QED
  BY <1>3, <1>6 DEF r
-----------------------------------------------------------------------------
LEMMA CutBeforeTransitive ==
    ASSUME NEW a \in Slot, NEW b \in Slot, NEW c \in Slot, CutBefore(a, b), CutBefore(b, c)
    PROVE  CutBefore(a, c)
BY DEF CutBefore, Slot

\* OneOwner is inductive: a slot moves from the block to a caller, and between the
\* callers and the list, and a new block comes after all that was cut.
THEOREM SlotsHaveOneOwner == PoolSpec => []OneOwner
<1>1. PoolInit => OneOwner
  BY DEF PoolInit, OneOwner, IsInjective, Range
<1>2. PoolTypeOK /\ OneOwner /\ [PoolNext]_poolVars => OneOwner'
  <2> SUFFICES ASSUME PoolTypeOK, OneOwner, [PoolNext]_poolVars PROVE OneOwner'
    OBVIOUS
  <2>1. ASSUME UNCHANGED <<current, freeSlots, held>> PROVE OneOwner'
    BY <2>1 DEF OneOwner, CutBefore
  <2>2. ASSUME NEW t \in Callers, PopFree(t), freeSlots # <<>> PROVE OneOwner'
    <3>1. /\ IsInjective(freeSlots')
          /\ Range(freeSlots') = Range(freeSlots) \ {Head(freeSlots)}
          /\ Head(freeSlots) \in Range(freeSlots)
      BY <2>2, TailInjective DEF PopFree, OneOwner, PoolTypeOK
    <3>2. held' = held \cup {Head(freeSlots)} /\ current' = current
      BY <2>2 DEF PopFree
    <3> QED
      BY <3>1, <3>2 DEF OneOwner, CutBefore
  <2>3. ASSUME NEW new \in Slot, ~CutBefore(new, current), CutBefore(new, current'),
               current' \in Slot,
               CutBefore(current, current'),
               held' = held \cup {new}, UNCHANGED freeSlots
        PROVE  OneOwner'
    <3>1. new \notin held \cup Range(freeSlots)
      BY <2>3 DEF OneOwner
    <3>2. ASSUME NEW s \in held \cup Range(freeSlots) PROVE CutBefore(s, current')
      <4>1. s \in Slot /\ CutBefore(s, current) /\ current \in Slot
        BY <3>2 DEF PoolTypeOK, Range, OneOwner
      <4> QED
        BY <2>3, <4>1, CutBeforeTransitive
    <3> QED
      BY <2>3, <3>1, <3>2 DEF OneOwner
  <2>4. ASSUME NEW t \in Callers, Cut(t) PROVE OneOwner'
    <3>1. current \in Slot /\ current' \in Slot
      BY <2>4 DEF Cut, PoolTypeOK, Slot
    <3>2. ~CutBefore(current, current) /\ CutBefore(current, current')
      BY <2>4, <3>1 DEF Cut, CutBefore, Slot
    <3> QED
      BY <2>3, <2>4, <3>1, <3>2 DEF Cut
  <2>5. ASSUME NEW t \in Callers, AllocateBlock(t) PROVE OneOwner'
    <3> DEFINE first == [block |-> current.block + 1, index |-> 0]
    <3>1. first \in Slot /\ current \in Slot /\ current' \in Slot
      BY <2>5 DEF AllocateBlock, PoolTypeOK, Slot
    <3>2. /\ ~CutBefore(first, current)
          /\ CutBefore(first, current') /\ CutBefore(current, current')
      BY <2>5, <3>1 DEF AllocateBlock, CutBefore, Slot
    <3>3. held' = held \cup {first} /\ UNCHANGED freeSlots
      BY <2>5 DEF AllocateBlock
    <3> HIDE DEF first
    <3> QED
      BY <2>3, <3>1, <3>2, <3>3
  <2>6. ASSUME NEW s \in held, DeAllocate(s) PROVE OneOwner'
    <3>1. s \in Slot /\ freeSlots \in Seq(Slot) /\ s \notin Range(freeSlots) /\ IsInjective(freeSlots)
      BY <2>6 DEF OneOwner, PoolTypeOK
    <3>2. IsInjective(freeSlots') /\ Range(freeSlots') = Range(freeSlots) \cup {s}
      BY <2>6, <3>1, ConsInjective DEF DeAllocate
    <3>3. held' = held \ {s} /\ current' = current
      BY <2>6 DEF DeAllocate
    <3> QED
      BY <2>6, <3>2, <3>3 DEF OneOwner, CutBefore
  <2>7. CASE \E t \in Callers : PopFree(t)
    BY <2>1, <2>2, <2>7 DEF PopFree
  <2>8. CASE \E t \in Callers : Allocate(t) \/ LookCurrent(t) \/ Compare(t)
    BY <2>1, <2>8 DEF Allocate, LookCurrent, Compare
  <2>9. CASE UNCHANGED poolVars
    BY <2>1, <2>9 DEF poolVars
  <2> QED
    BY <2>4, <2>5, <2>6, <2>7, <2>8, <2>9 DEF PoolNext
<1> QED
  BY <1>1, <1>2, PoolTypeCorrect, PTL DEF PoolSpec

-----------------------------------------------------------------------------
\* The threads that may still cut a slot although the block is full: they did not
\* look, or looked before it was.
Late == {t \in Callers :
            \/ pc[t] = "cut"
            \/ /\ pc[t] = "compare"
               /\ ~(looked[t].block = current.block /\ looked[t].index >= SlotsPerBlock)}

\* The thread that cut the last slot is none of them, and none that cut a slot behind
\* the block is one again.
OverrunInv ==
    current.index >= SlotsPerBlock =>
        (current.index - SlotsPerBlock) + Cardinality(Late) < Cardinality(Callers)

LEMMA LateFinite ==
    /\ IsFiniteSet(Late) /\ Cardinality(Late) \in Nat
    /\ Cardinality(Callers) \in Nat \ {0}
<1>1. Late \subseteq Callers
  BY DEF Late
<1> QED
  BY <1>1, PoolAssumption, FS_Subset, FS_CardinalityType, FS_EmptySet

\* A set of threads with one of them missing is smaller than the set of them all.
LEMMA OneMissing ==
    ASSUME NEW P, P \subseteq Callers, NEW t \in Callers, t \notin P
    PROVE  Cardinality(P) \in Nat /\ Cardinality(P) < Cardinality(Callers)
<1>1. IsFiniteSet(Callers \ {t}) /\ Cardinality(Callers \ {t}) = Cardinality(Callers) - 1
  BY PoolAssumption, FS_RemoveElement
<1>2. Cardinality(P) <= Cardinality(Callers \ {t}) /\ IsFiniteSet(P)
  BY <1>1, FS_Subset
<1> QED
  BY <1>1, <1>2, PoolAssumption, FS_CardinalityType

\* Fewer late threads and the same block keep the bound.
LEMMA FewerLate ==
    ASSUME OverrunInv, PoolTypeOK, UNCHANGED current, Late' \subseteq Late
    PROVE  OverrunInv'
<1>1. Cardinality(Late') <= Cardinality(Late) /\ Cardinality(Late') \in Nat
  BY LateFinite, FS_Subset, FS_CardinalityType
<1> QED
  BY <1>1, LateFinite, PoolAssumption DEF OverrunInv, PoolTypeOK, Slot

\* Never more threads are late than may cut what is left and one slot each.
LEMMA LateThreadsAreBounded == PoolSpec => []OverrunInv
<1>1. PoolInit => OverrunInv
  <2> SUFFICES ASSUME PoolInit PROVE OverrunInv
    OBVIOUS
  <2>1. Late = {}
    BY DEF PoolInit, Late
  <2> QED
    BY <2>1, LateFinite, FS_EmptySet, PoolAssumption DEF PoolInit, NoSlot, OverrunInv
<1>2. PoolTypeOK /\ OverrunInv /\ [PoolNext]_poolVars => OverrunInv'
  <2> SUFFICES ASSUME PoolTypeOK, OverrunInv, [PoolNext]_poolVars PROVE OverrunInv'
    OBVIOUS
  <2>1. ASSUME NEW t \in Callers, Allocate(t) \/ PopFree(t) PROVE OverrunInv'
    <3>1. Late' \subseteq Late /\ current' = current
      BY <2>1 DEF Allocate, PopFree, Goto, PoolTypeOK, Late
    <3> QED
      BY <3>1, FewerLate
  <2>2. ASSUME NEW t \in Callers, LookCurrent(t) PROVE OverrunInv'
    <3>1. current' = current /\ (current.index >= SlotsPerBlock => Late' \subseteq Late)
      BY <2>2 DEF LookCurrent, Goto, PoolTypeOK, Late
    <3> QED
      BY <3>1, FewerLate DEF OverrunInv
  <2>3. ASSUME NEW t \in Callers, Compare(t) PROVE OverrunInv'
    <3>1. current' = current
      BY <2>3 DEF Compare
    <3>2. pc'[t] = "cut" => t \in Late
      BY <2>3, PoolAssumption DEF Compare, Goto, AtEnd, PoolTypeOK, Late, Slot
    <3>3. pc'[t] # "compare"
      BY <2>3 DEF Compare, Goto, PoolTypeOK
    <3>4. \A u \in Callers \ {t} : pc'[u] = pc[u] /\ looked'[u] = looked[u]
      BY <2>3 DEF Compare, Goto, PoolTypeOK
    <3>5. Late' \subseteq Late
      BY <3>1, <3>2, <3>3, <3>4 DEF Late
    <3> QED
      BY <3>1, <3>5, FewerLate
  <2>4. ASSUME NEW t \in Callers, Cut(t) PROVE OverrunInv'
    <3>1. Late' = Late \ {t} /\ t \in Late
      BY <2>4 DEF Cut, Goto, PoolTypeOK, Late
    <3>2. Cardinality(Late') = Cardinality(Late) - 1
      BY <3>1, LateFinite, FS_RemoveElement
    <3>3. Cardinality(Late') < Cardinality(Callers)
      BY <3>1, OneMissing DEF Late
    <3>4. current'.index = current.index + 1
      BY <2>4 DEF Cut
    <3> QED
      BY <3>2, <3>3, <3>4, LateFinite, PoolAssumption DEF OverrunInv, PoolTypeOK, Slot
  <2>5. ASSUME NEW t \in Callers, AllocateBlock(t) PROVE OverrunInv'
    <3>1. Late' \subseteq Callers /\ t \notin Late'
      BY <2>5 DEF AllocateBlock, Goto, PoolTypeOK, Late
    <3>2. Cardinality(Late') \in Nat /\ Cardinality(Late') < Cardinality(Callers)
      BY <3>1, OneMissing
    <3>3. current'.index = 1
      BY <2>5 DEF AllocateBlock
    <3> QED
      BY <3>2, <3>3, LateFinite, PoolAssumption DEF OverrunInv
  <2>6. ASSUME NEW s \in held, DeAllocate(s) PROVE OverrunInv'
    BY <2>6, FewerLate DEF DeAllocate, Late
  <2>7. CASE UNCHANGED poolVars
    BY <2>7, FewerLate DEF poolVars, Late
  <2> QED
    BY <2>1, <2>2, <2>3, <2>4, <2>5, <2>6, <2>7 DEF PoolNext
<1> QED
  BY <1>1, <1>2, PoolTypeCorrect, PTL DEF PoolSpec

-----------------------------------------------------------------------------
\* While the callers come one at a time, nothing changes between a look and what
\* follows it.
SerialInv ==
    serial =>
        /\ current.index <= SlotsPerBlock
        /\ \A t, u \in Callers : pc[t] # "idle" /\ pc[u] # "idle" => t = u
        /\ \A t \in Callers : pc[t] = "cut" => current.index < SlotsPerBlock
        /\ \A t \in Callers : pc[t] = "compare" => looked[t] = current

\* The look of a single caller is never stale.
LEMMA SerialLooksAreFresh == PoolSpec => []SerialInv
<1> USE PoolAssumption DEF Goto
<1>1. PoolInit => SerialInv
  BY DEF PoolInit, SerialInv, NoSlot
<1>2. PoolTypeOK /\ SerialInv /\ [PoolNext]_poolVars => SerialInv'
  <2> SUFFICES ASSUME PoolTypeOK, SerialInv, [PoolNext]_poolVars, serial' PROVE SerialInv'
    BY DEF SerialInv
  <2>1. ASSUME NEW t \in Callers, Allocate(t) PROVE SerialInv'
    BY <2>1 DEF Allocate, SerialInv, PoolTypeOK
  <2>2. ASSUME NEW t \in Callers, PopFree(t) PROVE SerialInv'
    BY <2>2 DEF PopFree, SerialInv, PoolTypeOK
  <2>3. ASSUME NEW t \in Callers, LookCurrent(t) PROVE SerialInv'
    BY <2>3 DEF LookCurrent, SerialInv, PoolTypeOK
  <2>4. ASSUME NEW t \in Callers, Compare(t) PROVE SerialInv'
    <3>1. looked[t] = current /\ last = current.block /\ current \in Slot
      BY <2>4 DEF Compare, SerialInv, PoolTypeOK
    <3>2. /\ pc' = [pc EXCEPT ![t] = IF current.index >= SlotsPerBlock THEN "grow" ELSE "cut"]
          /\ looked' = [looked EXCEPT ![t] = NoSlot]
          /\ current' = current /\ serial
      BY <2>4, <3>1 DEF Compare, AtEnd
    <3>3. pc'[t] \in {"grow", "cut"} /\ \A u \in Callers \ {t} : pc'[u] = pc[u] /\ pc[u] = "idle"
      BY <2>4, <3>2 DEF Compare, SerialInv, PoolTypeOK
    <3>4. pc'[t] = "cut" => current.index < SlotsPerBlock
      BY <3>1, <3>2 DEF PoolTypeOK, Slot
    <3> QED
      BY <2>4, <3>2, <3>3, <3>4 DEF SerialInv
  <2>5. ASSUME NEW t \in Callers, Cut(t) PROVE SerialInv'
    BY <2>5 DEF Cut, SerialInv, PoolTypeOK, Slot
  <2>6. ASSUME NEW t \in Callers, AllocateBlock(t) PROVE SerialInv'
    BY <2>6 DEF AllocateBlock, SerialInv, PoolTypeOK, Slot
  <2>7. ASSUME NEW s \in held, DeAllocate(s) PROVE SerialInv'
    BY <2>7 DEF DeAllocate, SerialInv
  <2>8. CASE UNCHANGED poolVars
    BY <2>8 DEF poolVars, SerialInv
  <2> QED
    BY <2>1, <2>2, <2>3, <2>4, <2>5, <2>6, <2>7, <2>8 DEF PoolNext
<1> QED
  BY <1>1, <1>2, PoolTypeCorrect, PTL DEF PoolSpec

-----------------------------------------------------------------------------
\* A block is overrun by fewer slots than there are threads, and by none if the
\* callers come one at a time.
THEOREM OverrunIsBounded == PoolSpec => []OverrunBound
<1>1. PoolTypeOK /\ OverrunInv /\ SerialInv => OverrunBound
  <2> SUFFICES ASSUME PoolTypeOK, OverrunInv, SerialInv PROVE OverrunBound
    OBVIOUS
  <2>1. current.index \in Nat /\ SlotsPerBlock \in Nat
    BY PoolAssumption DEF PoolTypeOK, Slot
  <2>2. current.index < SlotsPerBlock + Cardinality(Callers)
    BY <2>1, LateFinite DEF OverrunInv
  <2> QED
    BY <2>2 DEF OverrunBound, SerialInv
<1> QED
  BY <1>1, LateThreadsAreBounded, SerialLooksAreFresh, PoolTypeCorrect, PTL

-----------------------------------------------------------------------------
(* The cache: first what its operators do with sequences and lists.        *)

LEMMA Joined ==
    ASSUME NEW S, NEW a \in Seq(S), NEW b \in Seq(S)
    PROVE  /\ a \o b \in Seq(S)
           /\ Len(a \o b) = Len(a) + Len(b)
           /\ \A j \in 1 .. Len(a) : (a \o b)[j] = a[j]
           /\ \A j \in Len(a) + 1 .. Len(a) + Len(b) : (a \o b)[j] = b[j - Len(a)]
OBVIOUS

\* What is at each place of a sequence after an insertion, and after a removal.
LEMMA Inserted ==
    ASSUME NEW S, NEW q \in Seq(S), NEW i \in 1 .. Len(q) + 1, NEW e \in S
    PROVE  /\ InsertAt(q, i, e) \in Seq(S)
           /\ Len(InsertAt(q, i, e)) = Len(q) + 1
           /\ \A j \in 1 .. i - 1 : InsertAt(q, i, e)[j] = q[j]
           /\ InsertAt(q, i, e)[i] = e
           /\ \A j \in i + 1 .. Len(q) + 1 : InsertAt(q, i, e)[j] = q[j - 1]
<1> DEFINE a == SubSeq(q, 1, i - 1)
           b == SubSeq(q, i, Len(q))
<1>1. /\ a \in Seq(S) /\ Len(a) = i - 1
      /\ \A j \in 1 .. i - 1 : a[j] = q[j]
  OBVIOUS
<1>2. /\ b \in Seq(S) /\ Len(b) = Len(q) + 1 - i
      /\ \A j \in 1 .. Len(q) + 1 - i : b[j] = q[i + j - 1]
  OBVIOUS
<1>3. InsertAt(q, i, e) = (a \o <<e>>) \o b
  BY DEF InsertAt
<1> HIDE DEF a, b
<1>4. \A j \in i + 1 .. Len(q) + 1 : b[j - i] = q[j - 1]
  BY <1>2
<1>5. PICK c : c = a \o <<e>>
  OBVIOUS
<1>6. /\ c \in Seq(S) /\ Len(c) = i
      /\ \A j \in 1 .. i - 1 : c[j] = a[j]
      /\ c[i] = e
  BY <1>1, <1>5
<1>7. PICK d : d = c \o b
  OBVIOUS
<1>8. /\ d \in Seq(S) /\ Len(d) = i + (Len(q) + 1 - i)
      /\ \A j \in 1 .. i : d[j] = c[j]
      /\ \A j \in i + 1 .. i + (Len(q) + 1 - i) : d[j] = b[j - i]
  BY <1>2, <1>6, <1>7, Joined
<1>9. InsertAt(q, i, e) = d
  BY <1>3, <1>5, <1>7
<1>10. Len(d) = Len(q) + 1 /\ \A j \in i + 1 .. Len(q) + 1 : d[j] = q[j - 1]
  BY <1>4, <1>8
<1> QED
  BY <1>1, <1>6, <1>8, <1>9, <1>10

LEMMA Removed ==
    ASSUME NEW S, NEW q \in Seq(S), NEW i \in 1 .. Len(q)
    PROVE  /\ RemoveAt(q, i) \in Seq(S)
           /\ Len(RemoveAt(q, i)) = Len(q) - 1
           /\ \A j \in 1 .. Len(q) - 1 :
                 RemoveAt(q, i)[j] = IF j < i THEN q[j] ELSE q[j + 1]
<1>1. PICK n \in Nat : n = i - 1
  OBVIOUS
<1>2. PICK m \in Nat : m = Len(q) - i
  <2>1. Len(q) \in Nat /\ i \in Nat /\ i <= Len(q)
    OBVIOUS
  <2>2. Len(q) - i \in Nat
    BY <2>1
  <2> QED
    BY <2>2
<1>3. n + 1 = i /\ n + m = Len(q) - 1 /\ n + m + 1 = Len(q)
  BY <1>1, <1>2
<1>4. PICK a : a = SubSeq(q, 1, n)
  OBVIOUS
<1>5. PICK b : b = SubSeq(q, n + 2, Len(q))
  OBVIOUS
<1>6. /\ a \in Seq(S) /\ Len(a) = n
      /\ \A j \in 1 .. n : a[j] = q[j]
  BY <1>3, <1>4
<1>7. /\ b \in Seq(S) /\ Len(b) = m
      /\ \A j \in 1 .. m : b[j] = q[n + 1 + j]
  BY <1>3, <1>5
<1>8. PICK d : d = a \o b
  OBVIOUS
<1>9. /\ d \in Seq(S) /\ Len(d) = n + m
      /\ \A j \in 1 .. n : d[j] = a[j]
      /\ \A j \in n + 1 .. n + m : d[j] = b[j - n]
  <2>1. /\ a \o b \in Seq(S)
        /\ Len(a \o b) = Len(a) + Len(b)
        /\ \A j \in 1 .. Len(a) : (a \o b)[j] = a[j]
        /\ \A j \in Len(a) + 1 .. Len(a) + Len(b) : (a \o b)[j] = b[j - Len(a)]
    BY <1>6, <1>7, Joined
  <2> QED
    BY <1>6, <1>7, <1>8, <2>1
<1>10. \A j \in n + 1 .. n + m : j - n \in 1 .. m /\ n + 1 + (j - n) = j + 1
  OBVIOUS
<1>11. \A j \in n + 1 .. n + m : d[j] = q[j + 1]
  BY <1>7, <1>9, <1>10
<1>12. RemoveAt(q, i) = d
  <2>1. i - 1 = n /\ i + 1 = n + 2
    BY <1>1
  <2>2. RemoveAt(q, i) = SubSeq(q, 1, i - 1) \o SubSeq(q, i + 1, Len(q))
    BY DEF RemoveAt
  <2> QED
    BY <1>4, <1>5, <1>8, <2>1, <2>2
<1>13. \A j \in 1 .. n + m : d[j] = IF j < n + 1 THEN q[j] ELSE q[j + 1]
  BY <1>6, <1>9, <1>11
<1> QED
  BY <1>3, <1>9, <1>12, <1>13

\* A list of the chain is right for these hits and this order of use: whoever is in it
\* was used as often as it says, and the last used comes first.
Filed(L, h, nw) ==
    /\ L.freq > 0
    /\ IsInjective(L.nodes)
    /\ \A m \in Range(L.nodes) : h[m] = L.freq
    /\ \A j, k \in DOMAIN L.nodes : j < k => <<L.nodes[j], L.nodes[k]>> \in nw

\* The list of a node that is deleted.
Without(L, n) == [L EXCEPT !.nodes = Del(@, n)]

LEMMA DelPlaces ==
    ASSUME NEW q \in Seq(Nodes), NEW n \in Range(q)
    PROVE  \E i \in DOMAIN q :
              /\ q[i] = n
              /\ Del(q, n) \in Seq(Nodes) /\ DOMAIN Del(q, n) = 1 .. Len(q) - 1
              /\ \A j \in 1 .. Len(q) - 1 : Del(q, n)[j] = IF j < i THEN q[j] ELSE q[j + 1]
<1> DEFINE i == CHOOSE j \in DOMAIN q : q[j] = n
<1>1. \E j \in DOMAIN q : q[j] = n
  BY DEF Range
<1>2. i \in DOMAIN q /\ q[i] = n
  BY <1>1
<1>3. Del(q, n) = RemoveAt(q, i)
  BY DEF Del
<1> HIDE DEF i
<1>4. i \in 1 .. Len(q)
  BY <1>2
<1>5. PICK d : d = RemoveAt(q, i)
  OBVIOUS
<1>6. /\ d \in Seq(Nodes) /\ Len(d) = Len(q) - 1
      /\ \A j \in 1 .. Len(q) - 1 : d[j] = IF j < i THEN q[j] ELSE q[j + 1]
  BY <1>4, <1>5, Removed
<1>7. DOMAIN d = 1 .. Len(q) - 1
  BY <1>6
<1> QED
  BY <1>2, <1>3, <1>5, <1>6, <1>7

LEMMA DelKeepsFiled ==
    ASSUME NEW L \in List, NEW n \in Range(L.nodes), NEW h, NEW nw, Filed(L, h, nw)
    PROVE  /\ Without(L, n) \in List /\ Without(L, n).freq = L.freq
           /\ Filed(Without(L, n), h, nw)
           /\ Range(Without(L, n).nodes) = Range(L.nodes) \ {n}
<1>1. PICK q : q = L.nodes
  OBVIOUS
<1>2. q \in Seq(Nodes) /\ L.freq \in Nat /\ n \in Range(q)
  BY <1>1 DEF List
<1>3. PICK d : d = Del(q, n)
  OBVIOUS
<1>4. PICK i \in DOMAIN q :
         /\ q[i] = n
         /\ d \in Seq(Nodes) /\ DOMAIN d = 1 .. Len(q) - 1
         /\ \A j \in 1 .. Len(q) - 1 : d[j] = IF j < i THEN q[j] ELSE q[j + 1]
  BY <1>2, <1>3, DelPlaces
<1>5. /\ Without(L, n) = [freq |-> L.freq, nodes |-> d]
      /\ Without(L, n) \in List
  <2>1. Without(L, n) = [L EXCEPT !.nodes = d]
    BY <1>1, <1>3 DEF Without
  <2> QED
    BY <1>2, <1>4, <2>1 DEF List
<1>6. DOMAIN q = 1 .. Len(q) /\ Len(q) \in Nat
  BY <1>2
<1>7. ASSUME NEW j \in DOMAIN d
      PROVE  \E p \in DOMAIN q : p # i /\ d[j] = q[p] /\ p = IF j < i THEN j ELSE j + 1
  BY <1>4, <1>6
<1>8. IsInjective(q)
  BY <1>1 DEF Filed
<1>9. IsInjective(d)
  <2> SUFFICES ASSUME NEW j \in DOMAIN d, NEW k \in DOMAIN d, d[j] = d[k] PROVE j = k
    BY DEF IsInjective
  <2>1. PICK p \in DOMAIN q : p # i /\ d[j] = q[p] /\ p = IF j < i THEN j ELSE j + 1
    BY <1>7
  <2>2. PICK r \in DOMAIN q : r # i /\ d[k] = q[r] /\ r = IF k < i THEN k ELSE k + 1
    BY <1>7
  <2>3. p = r
    BY <1>8, <2>1, <2>2 DEF IsInjective
  <2> QED
    BY <1>4, <1>6, <2>1, <2>2, <2>3
<1>10. Range(d) = Range(q) \ {n}
  <2>1. ASSUME NEW j \in DOMAIN d PROVE d[j] \in Range(q) /\ d[j] # n
    BY <1>4, <1>7, <1>8 DEF IsInjective, Range
  <2>2. ASSUME NEW p \in DOMAIN q, q[p] # n PROVE \E j \in DOMAIN d : d[j] = q[p]
    <3>1. p # i
      BY <1>4, <2>2
    <3>2. CASE p < i
      <4>1. p \in DOMAIN d /\ d[p] = q[p]
        BY <1>4, <1>6, <3>2
      <4> QED
        BY <4>1
    <3>3. CASE p > i
      <4>1. p - 1 \in 1 .. Len(q) - 1 /\ ~(p - 1 < i) /\ (p - 1) + 1 = p
        BY <1>6, <3>3
      <4>2. d[p - 1] = q[p]
        BY <1>4, <4>1
      <4> QED
        BY <1>4, <4>1, <4>2
    <3> QED
      BY <1>6, <3>1, <3>2, <3>3
  <2> QED
    BY <2>1, <2>2 DEF Range
<1>11. ASSUME NEW j \in DOMAIN d, NEW k \in DOMAIN d, j < k PROVE <<d[j], d[k]>> \in nw
  <2>1. PICK p \in DOMAIN q : p # i /\ d[j] = q[p] /\ p = IF j < i THEN j ELSE j + 1
    BY <1>7
  <2>2. PICK r \in DOMAIN q : r # i /\ d[k] = q[r] /\ r = IF k < i THEN k ELSE k + 1
    BY <1>7
  <2>3. p < r
    BY <1>4, <1>6, <1>11, <2>1, <2>2
  <2>4. <<q[p], q[r]>> \in nw
    BY <1>1, <2>3 DEF Filed
  <2> QED
    BY <2>1, <2>2, <2>4
<1>12. \A m \in Range(d) : h[m] = L.freq
  BY <1>1, <1>10 DEF Filed
<1>13. Filed([freq |-> L.freq, nodes |-> d], h, nw)
  BY <1>9, <1>11, <1>12 DEF Filed
<1> QED
  BY <1>1, <1>5, <1>10, <1>13

\* What counts of the hits and of the order are those of the list's own nodes.
LEMMA FiledAgain ==
    ASSUME NEW L \in List, NEW h, NEW nw, Filed(L, h, nw), NEW h2, NEW nw2,
           \A m \in Range(L.nodes) : h2[m] = h[m],
           \A a, b \in Range(L.nodes) : <<a, b>> \in nw => <<a, b>> \in nw2
    PROVE  Filed(L, h2, nw2)
<1>1. ASSUME NEW j \in DOMAIN L.nodes, NEW k \in DOMAIN L.nodes, j < k
      PROVE  <<L.nodes[j], L.nodes[k]>> \in nw2
  <2>1. L.nodes[j] \in Range(L.nodes) /\ L.nodes[k] \in Range(L.nodes)
    BY DEF Range
  <2>2. <<L.nodes[j], L.nodes[k]>> \in nw
    BY <1>1 DEF Filed
  <2> QED
    BY <2>1, <2>2
<1> QED
  BY <1>1 DEF Filed

\* A node comes to the head of a list of its own frequency.
LEMMA AddKeepsFiled ==
    ASSUME NEW f \in Nat \ {0}, NEW q \in Seq(Nodes), NEW n \in Nodes, NEW h, NEW nw,
           Filed([freq |-> f, nodes |-> q], h, nw),
           n \notin Range(q), h[n] = f, \A m \in Range(q) : <<n, m>> \in nw
    PROVE  /\ Add(q, n) \in Seq(Nodes) /\ Add(q, n) # <<>>
           /\ Filed([freq |-> f, nodes |-> Add(q, n)], h, nw)
           /\ Range(Add(q, n)) = Range(q) \cup {n}
<1> DEFINE r == Add(q, n)
<1>1. /\ Len(q) \in Nat /\ DOMAIN q = 1 .. Len(q)
      /\ r \in Seq(Nodes)
      /\ Len(r) = Len(q) + 1 /\ DOMAIN r = 1 .. Len(q) + 1
      /\ r[1] = n
      /\ \A i \in 2 .. Len(q) + 1 : r[i] = q[i - 1]
  BY DEF Add
<1> HIDE DEF r
<1>2. r # <<>>
  BY <1>1
<1>3. IsInjective(q) /\ \A m \in Range(q) : h[m] = f
  BY DEF Filed
<1>4. \A j, k \in DOMAIN q : j < k => <<q[j], q[k]>> \in nw
  BY DEF Filed
<1>5. \A i \in DOMAIN r : i # 1 => i - 1 \in DOMAIN q /\ r[i] = q[i - 1] /\ r[i] \in Range(q)
  BY <1>1 DEF Range
<1>6. Range(r) = Range(q) \cup {n} /\ IsInjective(r)
  <2>1. r = <<n>> \o q
    BY DEF r, Add
  <2> QED
    BY <1>3, <2>1, ConsInjective
<1>7. ASSUME NEW j \in DOMAIN r, NEW k \in DOMAIN r, j < k PROVE <<r[j], r[k]>> \in nw
  <2>1. k # 1
    BY <1>1, <1>7
  <2>2. CASE j = 1
    BY <1>1, <1>5, <2>1, <2>2
  <2>3. CASE j # 1
    <3>1. j - 1 < k - 1
      BY <1>1, <1>7
    <3> QED
      BY <1>4, <1>5, <2>1, <2>3, <3>1
  <2> QED
    BY <2>2, <2>3
<1>8. \A m \in Range(r) : h[m] = f
  BY <1>3, <1>6
<1>9. Filed([freq |-> f, nodes |-> r], h, nw)
  BY <1>6, <1>7, <1>8 DEF Filed
<1> QED
  BY <1>1, <1>2, <1>6, <1>9 DEF r

-----------------------------------------------------------------------------
(* The chain of lists.                                                     *)

Sorted(ch) == \A i, j \in DOMAIN ch : i < j => ch[i].freq < ch[j].freq

Members(ch) == UNION {Range(ch[i].nodes) : i \in DOMAIN ch}

\* A chain all of whose lists are right.
ChainFiled(ch, h, nw) ==
    /\ ch \in Seq(List)
    /\ Sorted(ch)
    /\ \A i \in DOMAIN ch : Filed(ch[i], h, nw)

NoneEmpty(ch) == \A i \in DOMAIN ch : ch[i].nodes # <<>>

LEMMA ListTypes ==
    ASSUME NEW ch \in Seq(List), NEW i \in DOMAIN ch
    PROVE  /\ i \in Nat \ {0}
           /\ ch[i] \in List /\ ch[i].freq \in Nat /\ ch[i].nodes \in Seq(Nodes)
<1>1. ch[i] \in List /\ i \in Nat \ {0}
  OBVIOUS
<1> QED
  BY <1>1 DEF List

LEMMA MembersAre ==
    ASSUME NEW ch, NEW x
    PROVE  x \in Members(ch) <=> \E i \in DOMAIN ch : x \in Range(ch[i].nodes)
BY DEF Members

\* A node is in the list of its hits, and in no other.
LEMMA OneList ==
    ASSUME NEW ch, NEW h, NEW nw, ChainFiled(ch, h, nw),
           NEW i \in DOMAIN ch, NEW j \in DOMAIN ch, NEW n \in Range(ch[i].nodes)
    PROVE  /\ h[n] = ch[i].freq
           /\ (n \in Range(ch[j].nodes) \/ ch[j].freq = h[n]) => j = i
<1>1. h[n] = ch[i].freq
  BY DEF ChainFiled, Filed
<1>2. n \in Range(ch[j].nodes) => h[n] = ch[j].freq
  BY DEF ChainFiled, Filed
<1>3. i \in Nat /\ j \in Nat /\ ch[i].freq \in Nat /\ ch[j].freq \in Nat
  BY ListTypes DEF ChainFiled
<1>4. (i < j => ch[i].freq < ch[j].freq) /\ (j < i => ch[j].freq < ch[i].freq)
  BY DEF ChainFiled, Sorted
<1> QED
  BY <1>1, <1>2, <1>3, <1>4

\* Dropping the list that may have become empty leaves none that is.
LEMMA DropKeepsChain ==
    ASSUME NEW ch, NEW h, NEW nw, ChainFiled(ch, h, nw),
           NEW i \in 0 .. Len(ch),
           \A j \in DOMAIN ch : j # i => ch[j].nodes # <<>>
    PROVE  /\ ChainFiled(DropEmpty(ch, i), h, nw)
           /\ NoneEmpty(DropEmpty(ch, i))
           /\ Members(DropEmpty(ch, i)) = Members(ch)
<1>1. CASE ~(i > 0 /\ ch[i].nodes = <<>>)
  <2>1. DropEmpty(ch, i) = ch
    BY <1>1 DEF DropEmpty
  <2>2. NoneEmpty(ch)
    <3> SUFFICES ASSUME NEW j \in DOMAIN ch PROVE ch[j].nodes # <<>>
      BY DEF NoneEmpty
    <3>1. ch \in Seq(List)
      BY DEF ChainFiled
    <3>2. j > 0
      BY <3>1
    <3> QED
      BY <1>1, <3>2
  <2> QED
    BY <2>1, <2>2
<1>2. CASE i > 0 /\ ch[i].nodes = <<>>
  <2>1. ch \in Seq(List) /\ i \in 1 .. Len(ch) /\ i \in DOMAIN ch
    BY <1>2 DEF ChainFiled
  <2>2. PICK d : d = RemoveAt(ch, i)
    OBVIOUS
  <2>3. DropEmpty(ch, i) = d
    BY <1>2, <2>2 DEF DropEmpty
  <2>4. /\ d \in Seq(List) /\ Len(d) = Len(ch) - 1
        /\ \A j \in 1 .. Len(ch) - 1 : d[j] = IF j < i THEN ch[j] ELSE ch[j + 1]
    BY <2>1, <2>2, Removed
  <2>5. /\ DOMAIN ch = 1 .. Len(ch) /\ Len(ch) \in Nat
        /\ DOMAIN d = 1 .. Len(ch) - 1
    BY <2>1, <2>4
  <2>6. ASSUME NEW j \in DOMAIN d
        PROVE  \E p \in DOMAIN ch : p # i /\ d[j] = ch[p] /\ p = IF j < i THEN j ELSE j + 1
    BY <2>1, <2>4, <2>5
  <2>7. ASSUME NEW p \in DOMAIN ch, p # i PROVE \E j \in DOMAIN d : d[j] = ch[p]
    <3>1. CASE p < i
      <4>1. p \in DOMAIN d /\ d[p] = ch[p]
        BY <2>1, <2>4, <2>5, <3>1
      <4> QED
        BY <4>1
    <3>2. CASE p > i
      <4>1. p - 1 \in 1 .. Len(ch) - 1 /\ ~(p - 1 < i) /\ (p - 1) + 1 = p
        BY <2>1, <2>5, <3>2
      <4>2. d[p - 1] = ch[p]
        BY <2>4, <4>1
      <4> QED
        BY <2>5, <4>1, <4>2
    <3> QED
      BY <2>1, <2>5, <2>7, <3>1, <3>2
  <2>8. Sorted(d)
    <3> SUFFICES ASSUME NEW j \in DOMAIN d, NEW k \in DOMAIN d, j < k PROVE d[j].freq < d[k].freq
      BY DEF Sorted
    <3>1. PICK p \in DOMAIN ch : d[j] = ch[p] /\ p = IF j < i THEN j ELSE j + 1
      BY <2>6
    <3>2. PICK r \in DOMAIN ch : d[k] = ch[r] /\ r = IF k < i THEN k ELSE k + 1
      BY <2>6
    <3>3. p < r
      BY <2>1, <2>5, <3>1, <3>2
    <3> QED
      BY <3>1, <3>2, <3>3 DEF ChainFiled, Sorted
  <2>9. ChainFiled(d, h, nw)
    BY <2>4, <2>6, <2>8 DEF ChainFiled
  <2>10. NoneEmpty(d)
    BY <2>6 DEF NoneEmpty
  <2>11. Range(ch[i].nodes) = {}
    BY <1>2 DEF Range
  <2>12. \A x : x \in Members(d) <=> x \in Members(ch)
    <3> SUFFICES ASSUME NEW x PROVE x \in Members(d) <=> x \in Members(ch)
      OBVIOUS
    <3>1. ASSUME NEW j \in DOMAIN d, x \in Range(d[j].nodes)
          PROVE  \E p \in DOMAIN ch : x \in Range(ch[p].nodes)
      BY <2>6, <3>1
    <3>2. ASSUME NEW p \in DOMAIN ch, x \in Range(ch[p].nodes)
          PROVE  \E j \in DOMAIN d : x \in Range(d[j].nodes)
      BY <2>7, <2>11, <3>2
    <3> QED
      BY <3>1, <3>2, MembersAre
  <2>13. Members(d) = Members(ch)
    BY <2>12
  <2> QED
    BY <2>3, <2>9, <2>10, <2>13
<1> QED
  BY <1>1, <1>2

FreqAt(ch, i) == IF i = 0 THEN 0 ELSE ch[i].freq

\* Behind position i there is the list of the next frequency, the old one or an empty new
\* one, and all others are as they were.
LEMMA NextListIsThere ==
    ASSUME NEW ch \in Seq(List), Sorted(ch), \A j \in DOMAIN ch : ch[j].freq > 0,
           NEW i \in 0 .. Len(ch)
    PROVE  LET w == WithNext(ch, i)
           IN  /\ w \in Seq(List) /\ Sorted(w)
               /\ i + 1 \in DOMAIN w /\ w[i + 1].freq = FreqAt(ch, i) + 1
               /\ \A j \in DOMAIN w :
                     \/ j = i + 1 /\ w[j].nodes = <<>>
                     \/ \E p \in DOMAIN ch : w[j] = ch[p] /\ (j = i <=> p = i)
               /\ \A p \in DOMAIN ch : \E j \in DOMAIN w : w[j] = ch[p] /\ (j = i <=> p = i)
<1>1. Len(ch) \in Nat /\ DOMAIN ch = 1 .. Len(ch) /\ i \in Nat /\ i <= Len(ch)
  OBVIOUS
<1>2. PICK f : f = FreqAt(ch, i)
  OBVIOUS
<1>3. /\ f \in Nat
      /\ \A j \in DOMAIN ch : j > i => f < ch[j].freq
      /\ \A j \in DOMAIN ch : j <= i => ch[j].freq <= f
  <2>1. CASE i = 0
    BY <1>1, <1>2, <2>1 DEF FreqAt
  <2>2. CASE i # 0
    <3>1. i \in DOMAIN ch /\ f = ch[i].freq
      BY <1>1, <1>2, <2>2 DEF FreqAt
    <3>2. \A j \in DOMAIN ch : ch[j].freq \in Nat /\ j \in Nat
      BY ListTypes
    <3> QED
      BY <1>1, <3>1, <3>2 DEF Sorted
  <2> QED
    BY <2>1, <2>2
<1>4. CASE i < Len(ch) /\ ch[i + 1].freq = f + 1
  <2>1. WithNext(ch, i) = ch
    BY <1>2, <1>4 DEF WithNext, FreqAt
  <2>2. i + 1 \in DOMAIN ch
    BY <1>1, <1>4
  <2> QED
    BY <1>2, <1>4, <2>1, <2>2
<1>5. CASE ~(i < Len(ch) /\ ch[i + 1].freq = f + 1)
  <2>1. PICK e : e = [freq |-> f + 1, nodes |-> <<>>]
    OBVIOUS
  <2>2. e \in List
    BY <1>3, <2>1 DEF List
  <2>3. PICK w : w = InsertAt(ch, i + 1, e)
    OBVIOUS
  <2>4. WithNext(ch, i) = w
    BY <1>2, <1>5, <2>1, <2>3 DEF WithNext, FreqAt
  <2>5. PICK p \in Nat : p = i + 1
    BY <1>1
  <2>6. p \in 1 .. Len(ch) + 1 /\ w = InsertAt(ch, p, e) /\ p - 1 = i
    BY <1>1, <2>3, <2>5
  <2>7. /\ w \in Seq(List) /\ Len(w) = Len(ch) + 1
        /\ \A j \in 1 .. p - 1 : w[j] = ch[j]
        /\ w[p] = e
        /\ \A j \in p + 1 .. Len(ch) + 1 : w[j] = ch[j - 1]
    <3>0. p \in 1 .. Len(ch) + 1
      BY <2>6
    <3>1. /\ InsertAt(ch, p, e) \in Seq(List)
          /\ Len(InsertAt(ch, p, e)) = Len(ch) + 1
          /\ \A j \in 1 .. p - 1 : InsertAt(ch, p, e)[j] = ch[j]
          /\ InsertAt(ch, p, e)[p] = e
          /\ \A j \in p + 1 .. Len(ch) + 1 : InsertAt(ch, p, e)[j] = ch[j - 1]
      BY <2>2, <3>0, Inserted
    <3> QED
      BY <2>6, <3>1
  <2>8. DOMAIN w = 1 .. Len(ch) + 1 /\ p \in DOMAIN w
    BY <1>1, <2>6, <2>7
  <2>9. \A j \in DOMAIN ch : j > i => ch[j].freq > f + 1
    <3> SUFFICES ASSUME NEW j \in DOMAIN ch, j > i PROVE ch[j].freq > f + 1
      OBVIOUS
    <3>1. p \in DOMAIN ch /\ p <= j /\ ch[p].freq # f + 1
      BY <1>1, <1>5, <2>5
    <3>2. ch[p].freq \in Nat /\ ch[j].freq \in Nat
      BY <3>1, ListTypes
    <3>3. ch[p].freq > f + 1
      BY <1>1, <1>3, <2>5, <3>1, <3>2
    <3>4. CASE j = p
      BY <3>3, <3>4
    <3>5. CASE j # p
      <4>1. p < j
        BY <1>1, <3>1, <3>5
      <4>2. ch[p].freq < ch[j].freq
        BY <3>1, <4>1 DEF Sorted
      <4> QED
        BY <1>3, <3>2, <3>3, <4>2
    <3> QED
      BY <3>4, <3>5
  <2>10. ASSUME NEW j \in DOMAIN w
         PROVE  \/ j < p /\ j \in DOMAIN ch /\ w[j] = ch[j]
                \/ j = p /\ w[j] = e
                \/ j > p /\ j - 1 \in DOMAIN ch /\ j - 1 > i /\ w[j] = ch[j - 1]
    BY <1>1, <2>5, <2>6, <2>7, <2>8
  <2>11. Sorted(w)
    <3> SUFFICES ASSUME NEW j \in DOMAIN w, NEW k \in DOMAIN w, j < k PROVE w[j].freq < w[k].freq
      BY DEF Sorted
    <3>1. j \in Nat /\ k \in Nat /\ e.freq = f + 1
      BY <2>1, <2>8
    <3>2. CASE k < p
      <4>1. j < p
        BY <3>1, <3>2
      <4> QED
        BY <2>10, <3>1, <3>2, <4>1 DEF Sorted
    <3>3. CASE k = p
      <4>1. j < p /\ j <= i
        BY <2>5, <3>1, <3>3
      <4>2. w[j] = ch[j] /\ j \in DOMAIN ch /\ w[k] = e
        BY <2>10, <3>1, <3>3, <4>1
      <4>3. ch[j].freq <= f /\ ch[j].freq \in Nat
        BY <1>3, <4>1, <4>2, ListTypes
      <4> QED
        BY <1>3, <3>1, <4>2, <4>3
    <3>4. CASE k > p
      <4>1. k - 1 \in DOMAIN ch /\ k - 1 > i /\ w[k] = ch[k - 1]
        BY <2>5, <2>10, <3>1, <3>4
      <4>2. ch[k - 1].freq > f + 1 /\ ch[k - 1].freq \in Nat
        BY <2>9, <4>1, ListTypes
      <4>3. CASE j < p
        <5>1. w[j] = ch[j] /\ j \in DOMAIN ch /\ j < k - 1
          BY <2>5, <2>10, <3>1, <3>4, <4>3
        <5> QED
          BY <4>1, <5>1 DEF Sorted
      <4>4. CASE j = p
        BY <2>7, <3>1, <4>1, <4>2, <4>4
      <4>5. CASE j > p
        <5>1. w[j] = ch[j - 1] /\ j - 1 \in DOMAIN ch /\ j - 1 < k - 1
          BY <2>5, <2>10, <3>1, <4>5
        <5> QED
          BY <4>1, <5>1 DEF Sorted
      <4> QED
        BY <2>5, <3>1, <4>3, <4>4, <4>5
    <3> QED
      BY <2>5, <3>1, <3>2, <3>3, <3>4
  <2>12. ASSUME NEW j \in DOMAIN w
         PROVE  \/ j = i + 1 /\ w[j].nodes = <<>>
                \/ \E r \in DOMAIN ch : w[j] = ch[r] /\ (j = i <=> r = i)
    BY <1>1, <2>1, <2>5, <2>10
  <2>13. ASSUME NEW r \in DOMAIN ch
         PROVE  \E j \in DOMAIN w : w[j] = ch[r] /\ (j = i <=> r = i)
    <3>1. CASE r < p
      BY <1>1, <2>5, <2>7, <2>8, <3>1
    <3>2. CASE r >= p
      <4>1. r + 1 \in p + 1 .. Len(ch) + 1 /\ (r + 1) - 1 = r
        BY <1>1, <2>5, <3>2
      <4>2. r + 1 \in DOMAIN w /\ w[r + 1] = ch[r] /\ r + 1 # i /\ r # i
        BY <1>1, <2>5, <2>7, <2>8, <4>1
      <4> QED
        BY <4>2
    <3> QED
      BY <1>1, <2>5, <3>1, <3>2
  <2>14. i + 1 \in DOMAIN w /\ w[i + 1].freq = f + 1
    BY <2>1, <2>5, <2>7, <2>8
  <2> QED
    BY <1>2, <2>4, <2>7, <2>11, <2>12, <2>13, <2>14
<1> QED
  BY <1>4, <1>5

\* The node is in this list and in no other.
OnlyIn(ch, i, n) == \A j \in DOMAIN ch : n \in Range(ch[j].nodes) <=> j = i

\* Of these nodes n was used now: it comes before the others, for which nothing changed.
UsedNow(S, n, h, nw, h2, nw2) ==
    /\ \A m \in S \ {n} : h2[m] = h[m] /\ <<n, m>> \in nw2
    /\ \A a, b \in S \ {n} : <<a, b>> \in nw => <<a, b>> \in nw2

\* AddFreq files a node under its next frequency, at the head, and takes it out of the
\* list it was in.
LEMMA AddFreqKeepsChain ==
    ASSUME NEW ch, NEW h, NEW nw, ChainFiled(ch, h, nw), NoneEmpty(ch),
           NEW i \in 0 .. Len(ch), NEW n \in Nodes,
           OnlyIn(ch, i, n),
           NEW h2, NEW nw2, h2[n] = FreqAt(ch, i) + 1, UsedNow(Members(ch), n, h, nw, h2, nw2)
    PROVE  /\ ChainFiled(AddFreq(ch, i, n), h2, nw2)
           /\ NoneEmpty(AddFreq(ch, i, n))
           /\ Members(AddFreq(ch, i, n)) = Members(ch) \cup {n}
<1>0. /\ \A j \in DOMAIN ch : n \in Range(ch[j].nodes) <=> j = i
      /\ \A m \in Members(ch) \ {n} : h2[m] = h[m] /\ <<n, m>> \in nw2
      /\ \A a, b \in Members(ch) \ {n} : <<a, b>> \in nw => <<a, b>> \in nw2
  BY DEF OnlyIn, UsedNow
<1>1. ch \in Seq(List) /\ Sorted(ch) /\ \A j \in DOMAIN ch : ch[j].freq > 0
  BY DEF ChainFiled, Filed
<1>2. PICK f : f = FreqAt(ch, i)
  OBVIOUS
<1>3. f \in Nat /\ i \in Nat /\ i <= Len(ch) /\ Len(ch) \in Nat /\ DOMAIN ch = 1 .. Len(ch)
  <2>1. Len(ch) \in Nat /\ i \in Nat /\ i <= Len(ch) /\ DOMAIN ch = 1 .. Len(ch)
    BY <1>1
  <2>2. i # 0 => i \in DOMAIN ch
    BY <2>1
  <2> QED
    BY <1>1, <1>2, <2>1, <2>2, ListTypes DEF FreqAt
<1>4. PICK w : w = WithNext(ch, i)
  OBVIOUS
<1>5. /\ w \in Seq(List) /\ Sorted(w)
      /\ i + 1 \in DOMAIN w /\ w[i + 1].freq = f + 1
      /\ \A j \in DOMAIN w :
            \/ j = i + 1 /\ w[j].nodes = <<>>
            \/ \E p \in DOMAIN ch : w[j] = ch[p] /\ (j = i <=> p = i)
      /\ \A p \in DOMAIN ch : \E j \in DOMAIN w : w[j] = ch[p] /\ (j = i <=> p = i)
  BY <1>1, <1>2, <1>4, NextListIsThere
<1>6. ASSUME NEW j \in DOMAIN w, j # i
      PROVE  /\ Filed(w[j], h2, nw2) /\ n \notin Range(w[j].nodes)
             /\ Range(w[j].nodes) \subseteq Members(ch)
             /\ j # i + 1 => w[j].nodes # <<>>
  <2>1. CASE j = i + 1 /\ w[j].nodes = <<>>
    <3>1. w[j].freq > 0 /\ Range(w[j].nodes) = {}
      BY <1>3, <1>5, <2>1 DEF Range
    <3>2. DOMAIN w[j].nodes = {}
      BY <2>1
    <3> QED
      BY <2>1, <3>1, <3>2 DEF Filed, IsInjective
  <2>2. ASSUME NEW p \in DOMAIN ch, w[j] = ch[p], p # i
        PROVE  /\ Filed(w[j], h2, nw2) /\ n \notin Range(w[j].nodes)
               /\ Range(w[j].nodes) \subseteq Members(ch)
               /\ w[j].nodes # <<>>
    <3>1. Range(ch[p].nodes) \subseteq Members(ch) \ {n}
      BY <1>0, <2>2, MembersAre
    <3>2. Filed(ch[p], h, nw) /\ ch[p] \in List
      BY <1>1, ListTypes DEF ChainFiled
    <3>3. Filed(ch[p], h2, nw2)
      BY <1>0, <3>1, <3>2, FiledAgain
    <3> QED
      BY <2>2, <3>1, <3>3 DEF NoneEmpty
  <2> QED
    BY <1>5, <1>6, <2>1, <2>2
<1>7. i # 0 => /\ i \in DOMAIN w /\ i \in DOMAIN ch /\ w[i] = ch[i]
               /\ n \in Range(w[i].nodes) /\ Filed(w[i], h, nw)
  <2> SUFFICES ASSUME i # 0
               PROVE  /\ i \in DOMAIN w /\ i \in DOMAIN ch /\ w[i] = ch[i]
                      /\ n \in Range(w[i].nodes) /\ Filed(w[i], h, nw)
    OBVIOUS
  <2>1. i \in DOMAIN ch
    BY <1>3
  <2>2. PICK j \in DOMAIN w : w[j] = ch[i] /\ j = i
    BY <1>5, <2>1
  <2> QED
    BY <1>0, <2>1, <2>2 DEF ChainFiled
<1>8. PICK top : top = [freq |-> f + 1, nodes |-> Add(w[i + 1].nodes, n)]
  OBVIOUS
<1>9. top \in List /\ top.freq = f + 1 /\ top.nodes # <<>> /\ Filed(top, h2, nw2)
      /\ Range(top.nodes) = Range(w[i + 1].nodes) \cup {n}
  <2>1. i + 1 # i
    BY <1>3
  <2>2. PICK q : q = w[i + 1].nodes
    OBVIOUS
  <2>3. /\ q \in Seq(Nodes) /\ w[i + 1] \in List
        /\ Filed(w[i + 1], h2, nw2) /\ n \notin Range(q)
        /\ Range(q) \subseteq Members(ch)
    BY <1>5, <1>6, <2>1, <2>2, ListTypes
  <2>4. Filed([freq |-> f + 1, nodes |-> q], h2, nw2)
    BY <1>5, <2>2, <2>3 DEF Filed
  <2>5. f + 1 \in Nat \ {0} /\ h2[n] = f + 1 /\ \A m \in Range(q) : <<n, m>> \in nw2
    BY <1>0, <1>2, <1>3, <2>3
  <2>6. /\ Add(q, n) \in Seq(Nodes) /\ Add(q, n) # <<>>
        /\ Filed([freq |-> f + 1, nodes |-> Add(q, n)], h2, nw2)
        /\ Range(Add(q, n)) = Range(q) \cup {n}
    BY <2>3, <2>4, <2>5, AddKeepsFiled
  <2> QED
    BY <1>8, <2>2, <2>5, <2>6 DEF List
<1>10. PICK rest : rest = Without(w[i], n)
  OBVIOUS
<1>11. i # 0 => /\ rest \in List /\ rest.freq = w[i].freq /\ Filed(rest, h2, nw2)
                /\ Range(rest.nodes) = Range(w[i].nodes) \ {n}
  <2> SUFFICES ASSUME i # 0
               PROVE  /\ rest \in List /\ rest.freq = w[i].freq /\ Filed(rest, h2, nw2)
                      /\ Range(rest.nodes) = Range(w[i].nodes) \ {n}
    OBVIOUS
  <2>1. w[i] \in List
    BY <1>5, <1>7, ListTypes
  <2>2. /\ rest \in List /\ rest.freq = w[i].freq /\ Filed(rest, h, nw)
        /\ Range(rest.nodes) = Range(w[i].nodes) \ {n}
    BY <1>7, <1>10, <2>1, DelKeepsFiled
  <2>3. Range(rest.nodes) \subseteq Members(ch) \ {n}
    BY <1>7, <2>2, MembersAre
  <2> QED
    BY <1>0, <2>2, <2>3, FiledAgain
<1>12. PICK mv : mv = IF i = 0 THEN [w EXCEPT ![i + 1].nodes = Add(@, n)]
                      ELSE [[w EXCEPT ![i + 1].nodes = Add(@, n)] EXCEPT ![i].nodes = Del(@, n)]
  OBVIOUS
<1>13. AddFreq(ch, i, n) = DropEmpty(mv, i)
  BY <1>4, <1>12 DEF AddFreq
<1>14. /\ mv \in Seq(List) /\ DOMAIN mv = DOMAIN w /\ Len(mv) = Len(w)
       /\ mv[i + 1] = top
       /\ i # 0 => mv[i] = rest
       /\ \A j \in DOMAIN w : j # i /\ j # i + 1 => mv[j] = w[j]
  <2>1. w[i + 1] \in List /\ top = [w[i + 1] EXCEPT !.nodes = Add(@, n)]
    <3>1. w[i + 1] \in List /\ w[i + 1].freq = f + 1
      BY <1>5, ListTypes
    <3>2. ASSUME NEW L \in List, NEW q PROVE [L EXCEPT !.nodes = q] = [freq |-> L.freq, nodes |-> q]
      BY DEF List
    <3> QED
      BY <1>8, <3>1, <3>2
  <2>2. PICK nxt : nxt = [w EXCEPT ![i + 1] = top]
    OBVIOUS
  <2>3. nxt = [w EXCEPT ![i + 1].nodes = Add(@, n)]
    BY <2>1, <2>2
  <2>4. /\ nxt \in Seq(List) /\ DOMAIN nxt = DOMAIN w /\ Len(nxt) = Len(w)
        /\ nxt[i + 1] = top
        /\ \A j \in DOMAIN w : j # i + 1 => nxt[j] = w[j]
    BY <1>5, <1>9, <2>2
  <2>5. CASE i = 0
    BY <1>12, <2>3, <2>4, <2>5
  <2>6. CASE i # 0
    <3>1. i \in DOMAIN nxt /\ i # i + 1 /\ nxt[i] = w[i]
      BY <1>3, <1>7, <2>4, <2>6
    <3>2. mv = [nxt EXCEPT ![i].nodes = Del(@, n)]
      BY <1>12, <2>3, <2>6
    <3>3. rest = [nxt[i] EXCEPT !.nodes = Del(@, n)]
      BY <1>10, <3>1 DEF Without
    <3>4. mv = [nxt EXCEPT ![i] = rest]
      BY <3>2, <3>3
    <3> QED
      BY <1>11, <2>4, <2>6, <3>1, <3>4
  <2> QED
    BY <2>5, <2>6
<1>15. \A j \in DOMAIN w : mv[j].freq = w[j].freq
  BY <1>5, <1>9, <1>11, <1>14, ListTypes
<1>16. Sorted(mv)
  BY <1>5, <1>14, <1>15 DEF Sorted
<1>17. ASSUME NEW j \in DOMAIN mv PROVE Filed(mv[j], h2, nw2)
  <2>1. CASE j = i
    <3>1. i # 0
      BY <1>5, <1>14, <2>1, ListTypes
    <3> QED
      BY <1>11, <1>14, <2>1, <3>1
  <2>2. CASE j = i + 1
    BY <1>9, <1>14, <2>2
  <2>3. CASE j # i /\ j # i + 1
    BY <1>6, <1>14, <2>3
  <2> QED
    BY <2>1, <2>2, <2>3
<1>18. ChainFiled(mv, h2, nw2)
  BY <1>14, <1>16, <1>17 DEF ChainFiled
<1>19. ASSUME NEW j \in DOMAIN mv, j # i PROVE mv[j].nodes # <<>>
  BY <1>6, <1>9, <1>14, <1>19
<1>20. i \in 0 .. Len(mv)
  <2>1. i + 1 \in 1 .. Len(w)
    BY <1>5
  <2> QED
    BY <1>3, <1>5, <1>14, <2>1
<1>21. /\ ChainFiled(DropEmpty(mv, i), h2, nw2)
       /\ NoneEmpty(DropEmpty(mv, i))
       /\ Members(DropEmpty(mv, i)) = Members(mv)
  BY <1>18, <1>19, <1>20, DropKeepsChain
<1>22. \A x : x \in Members(mv) <=> x \in Members(ch) \/ x = n
  <2> SUFFICES ASSUME NEW x PROVE x \in Members(mv) <=> x \in Members(ch) \/ x = n
    OBVIOUS
  <2>1. ASSUME NEW j \in DOMAIN mv, x \in Range(mv[j].nodes) PROVE x \in Members(ch) \/ x = n
    <3>1. CASE j = i
      <4>1. i # 0
        BY <1>5, <1>14, <3>1, ListTypes
      <4> QED
        BY <1>7, <1>11, <1>14, <2>1, <3>1, <4>1, MembersAre
    <3>2. CASE j = i + 1
      <4>1. i + 1 # i
        BY <1>3
      <4> QED
        BY <1>5, <1>6, <1>9, <1>14, <2>1, <3>2, <4>1
    <3>3. CASE j # i /\ j # i + 1
      BY <1>6, <1>14, <2>1, <3>3
    <3> QED
      BY <3>1, <3>2, <3>3
  <2>2. ASSUME NEW p \in DOMAIN ch, x \in Range(ch[p].nodes), x # n
        PROVE  \E j \in DOMAIN mv : x \in Range(mv[j].nodes)
    <3>1. PICK j \in DOMAIN w : w[j] = ch[p] /\ (j = i <=> p = i)
      BY <1>5
    <3>2. j # 0
      BY <1>5, <3>1, ListTypes
    <3>3. CASE j = i
      BY <1>11, <1>14, <2>2, <3>1, <3>2, <3>3
    <3>4. CASE j = i + 1
      BY <1>9, <1>14, <2>2, <3>1, <3>4
    <3>5. CASE j # i /\ j # i + 1
      BY <1>14, <2>2, <3>1, <3>5
    <3> QED
      BY <3>3, <3>4, <3>5
  <2>3. \E j \in DOMAIN mv : n \in Range(mv[j].nodes)
    BY <1>5, <1>9, <1>14
  <2> QED
    BY <2>1, <2>2, <2>3, MembersAre
<1>23. Members(mv) = Members(ch) \cup {n}
  BY <1>22
<1> QED
  BY <1>13, <1>21, <1>23

-----------------------------------------------------------------------------
(* The cache as a whole.                                                   *)

ListsInv == ChainFiled(chain, hits, newer) /\ NoneEmpty(chain)

NodesInv == \A n \in Nodes : n \in InUse <=> keyOf[n] # NULL

MapsInv ==
    /\ DOMAIN fmap = DOMAIN kmap
    /\ \A k \in DOMAIN kmap :
          kmap[k] \in InUse /\ keyOf[kmap[k]] = k /\ fmap[k] = hits[kmap[k]]

SizeInv ==
    /\ IsFiniteSet(DOMAIN kmap)
    /\ twice = 0 => Cardinality(DOMAIN kmap) <= Capacity /\ InUse = Range(kmap)

CacheInv == TypeOK /\ ListsInv /\ NodesInv /\ MapsInv /\ SizeInv

LEMMA UsedAreMembers == InUse = Members(chain) /\ (TypeOK => InUse \subseteq Nodes)
<1>1. InUse = Members(chain)
  BY DEF InUse, Members
<1>2. ASSUME TypeOK, NEW x \in InUse PROVE x \in Nodes
  <2>1. PICK i \in DOMAIN chain : x \in Range(chain[i].nodes)
    BY <1>1, <1>2, MembersAre
  <2>2. chain[i].nodes \in Seq(Nodes)
    BY <1>2, ListTypes DEF TypeOK
  <2> QED
    BY <2>1, <2>2 DEF Range
<1> QED
  BY <1>1, <1>2

LEMMA InitCacheInv == Init => CacheInv
<1> SUFFICES ASSUME Init PROVE CacheInv
  OBVIOUS
<1>1. DOMAIN chain = {} /\ DOMAIN kmap = {} /\ DOMAIN fmap = {}
  BY DEF Init
<1>2. Members(chain) = {} /\ InUse = {} /\ Range(kmap) = {}
  BY <1>1 DEF Members, InUse, Range
<1>3. TypeOK
  <2>1. chain \in Seq(List)
    BY DEF Init
  <2> QED
    BY <1>1, <1>2, <2>1, CacheAssumption DEF Init, TypeOK
<1>4. ListsInv
  BY <1>1, <1>3 DEF ListsInv, ChainFiled, NoneEmpty, Sorted, TypeOK
<1>5. NodesInv
  BY <1>2 DEF Init, NodesInv
<1>6. MapsInv
  BY <1>1 DEF MapsInv
<1>7. SizeInv
  BY <1>1, <1>2, FS_EmptySet, CacheAssumption DEF SizeInv
<1> QED
  BY <1>3, <1>4, <1>5, <1>6, <1>7 DEF CacheInv

\* What Get finds: the node's list, and the only one it is in.
LEMMA Found ==
    ASSUME CacheInv, NEW k \in DOMAIN fmap, NEW i, i = Position(fmap[k])
    PROVE  /\ i \in DOMAIN chain /\ i # 0
           /\ kmap[k] \in Nodes /\ kmap[k] \in InUse
           /\ FreqAt(chain, i) = hits[kmap[k]] /\ hits[kmap[k]] \in Nat
           /\ OnlyIn(chain, i, kmap[k])
<1>1. PICK n : n = kmap[k]
  OBVIOUS
<1>2. /\ chain \in Seq(List) /\ ChainFiled(chain, hits, newer)
      /\ n \in InUse /\ fmap[k] = hits[n] /\ n \in Nodes
  BY <1>1, UsedAreMembers DEF CacheInv, ListsInv, MapsInv, TypeOK
<1>3. PICK p \in DOMAIN chain : n \in Range(chain[p].nodes)
  BY <1>2, UsedAreMembers, MembersAre
<1>4. hits[n] = chain[p].freq
  BY <1>2, <1>3, OneList
<1>5. chain[p].freq \in Nat /\ chain[p].freq > 0 /\ p # 0
  BY <1>2, <1>3, ListTypes DEF ChainFiled, Filed
<1>6. i = CHOOSE j \in DOMAIN chain : chain[j].freq = fmap[k]
  BY <1>2, <1>4, <1>5 DEF Position
<1>7. i \in DOMAIN chain /\ chain[i].freq = fmap[k]
  BY <1>2, <1>4, <1>6
<1>8. i = p
  BY <1>2, <1>3, <1>7, OneList
<1>9. OnlyIn(chain, i, n)
  BY <1>2, <1>3, <1>8, OneList DEF OnlyIn
<1> QED
  BY <1>1, <1>2, <1>4, <1>5, <1>8, <1>9 DEF FreqAt

LEMMA GetHitKeeps ==
    ASSUME CacheInv, NEW t \in Threads, NEW k \in Keys, GetHit(t, k)
    PROVE  CacheInv'
<1>1. PICK n : n = kmap[k]
  OBVIOUS
<1>2. PICK i : i = Position(fmap[k])
  OBVIOUS
<1>3. /\ k \in DOMAIN fmap
      /\ chain' = AddFreq(chain, i, n)
      /\ fmap' = [fmap EXCEPT ![k] = @ + 1]
      /\ newer' = Used(n, InUse \ {n})
      /\ hits' = [hits EXCEPT ![n] = @ + 1]
      /\ UNCHANGED <<kmap, keyOf, filling, twice>>
  BY <1>1, <1>2 DEF GetHit
<1>4. /\ i \in DOMAIN chain /\ i # 0 /\ n \in Nodes /\ n \in InUse
      /\ FreqAt(chain, i) = hits[n] /\ hits[n] \in Nat
      /\ OnlyIn(chain, i, n)
  BY <1>1, <1>2, <1>3, Found
<1>5. TypeOK /\ ChainFiled(chain, hits, newer) /\ NoneEmpty(chain)
      /\ InUse = Members(chain) /\ InUse \subseteq Nodes
  BY UsedAreMembers DEF CacheInv, ListsInv
<1>6. hits' \in [Nodes -> Nat] /\ hits'[n] = hits[n] + 1
      /\ \A m \in Nodes \ {n} : hits'[m] = hits[m]
  BY <1>3, <1>4, <1>5 DEF TypeOK
<1>7. /\ \A a, b \in Members(chain) \ {n} : <<a, b>> \in newer => <<a, b>> \in newer'
      /\ \A m \in Members(chain) \ {n} : <<n, m>> \in newer'
      /\ newer' \subseteq InUse \X InUse
  BY <1>3, <1>4, <1>5 DEF Used
<1>8. i \in 0 .. Len(chain)
  BY <1>4, <1>5 DEF TypeOK
<1>9. /\ ChainFiled(chain', hits', newer') /\ NoneEmpty(chain')
      /\ Members(chain') = Members(chain) \cup {n}
  <2>1. /\ hits'[n] = FreqAt(chain, i) + 1
        /\ UsedNow(Members(chain), n, hits, newer, hits', newer')
    BY <1>4, <1>5, <1>6, <1>7 DEF UsedNow
  <2>2. /\ ChainFiled(AddFreq(chain, i, n), hits', newer')
        /\ NoneEmpty(AddFreq(chain, i, n))
        /\ Members(AddFreq(chain, i, n)) = Members(chain) \cup {n}
    BY <1>4, <1>5, <1>8, <2>1, AddFreqKeepsChain
  <2> QED
    BY <1>3, <2>2
<1>10. InUse' = InUse
  BY <1>4, <1>5, <1>9 DEF InUse, Members
<1>11. fmap'[k] = fmap[k] + 1 /\ DOMAIN fmap' = DOMAIN fmap
       /\ \A x \in DOMAIN fmap \ {k} : fmap'[x] = fmap[x]
  BY <1>3
<1>12. TypeOK'
  <2>1. chain' \in Seq(List)
    BY <1>9 DEF ChainFiled
  <2>2. \A x \in DOMAIN fmap' : fmap'[x] \in Nat
    BY <1>3, <1>5, <1>11 DEF TypeOK
  <2> QED
    BY <1>3, <1>5, <1>6, <1>7, <1>10, <1>11, <2>1, <2>2 DEF TypeOK
<1>13. ListsInv'
  BY <1>9 DEF ListsInv
<1>14. NodesInv'
  BY <1>3, <1>10 DEF CacheInv, NodesInv
<1>15. MapsInv'
  <2>1. ASSUME NEW x \in DOMAIN kmap
        PROVE  kmap[x] \in InUse /\ keyOf[kmap[x]] = x /\ fmap'[x] = hits'[kmap[x]]
    <3>1. kmap[x] \in InUse /\ keyOf[kmap[x]] = x /\ fmap[x] = hits[kmap[x]] /\ x \in DOMAIN fmap
      BY <2>1 DEF CacheInv, MapsInv
    <3>2. CASE x = k
      BY <1>1, <1>6, <1>11, <3>1, <3>2
    <3>3. CASE x # k
      <4>1. kmap[x] # n
        BY <1>1, <1>3, <3>1, <3>3 DEF CacheInv, MapsInv
      <4> QED
        BY <1>5, <1>6, <1>11, <3>1, <3>3, <4>1
    <3> QED
      BY <3>2, <3>3
  <2>2. DOMAIN fmap = DOMAIN kmap
    BY DEF CacheInv, MapsInv
  <2> QED
    BY <1>3, <1>10, <1>11, <2>1, <2>2 DEF MapsInv
<1>16. SizeInv'
  BY <1>3, <1>10 DEF CacheInv, SizeInv
<1> QED
  BY <1>12, <1>13, <1>14, <1>15, <1>16 DEF CacheInv

\* The chain without the node that goes.
Evicted(v) ==
    IF v = NULL THEN chain ELSE DropEmpty([chain EXCEPT ![1].nodes = Del(@, v)], 1)

\* A full cache is not empty: there is a last node of a first list, used least of all and
\* before those that were used as often.
LEMMA VictimIsLeast ==
    ASSUME CacheInv, Cardinality(DOMAIN kmap) = Capacity
    PROVE  /\ 1 \in DOMAIN chain /\ Victim \in Range(chain[1].nodes) /\ Victim \in InUse
           /\ \A m \in InUse \ {Victim} :
                 \/ hits[Victim] < hits[m]
                 \/ hits[Victim] = hits[m] /\ <<m, Victim>> \in newer
<1>1. ChainFiled(chain, hits, newer) /\ chain \in Seq(List)
  BY DEF CacheInv, ListsInv, ChainFiled
<1>2. DOMAIN kmap # {}
  BY FS_EmptySet, CacheAssumption
<1>3. 1 \in DOMAIN chain
  <2>1. PICK k \in DOMAIN kmap : TRUE
    BY <1>2
  <2>2. kmap[k] \in InUse
    BY DEF CacheInv, MapsInv
  <2>3. PICK i \in DOMAIN chain : kmap[k] \in Range(chain[i].nodes)
    BY <2>2, UsedAreMembers, MembersAre
  <2> QED
    BY <1>1, <2>3
<1>4. PICK q : q = chain[1].nodes
  OBVIOUS
<1>5. q \in Seq(Nodes) /\ q # <<>> /\ Filed(chain[1], hits, newer) /\ chain[1].freq \in Nat
  BY <1>1, <1>3, <1>4, ListTypes DEF CacheInv, ListsInv, NoneEmpty, ChainFiled
<1>6. PICK v : v = Victim
  OBVIOUS
<1>7. Len(q) \in DOMAIN q /\ DOMAIN q = 1 .. Len(q) /\ v = q[Len(q)]
  BY <1>4, <1>5, <1>6 DEF Victim, GetLast, Last
<1>8. v \in Range(q)
  BY <1>7 DEF Range
<1>9. v \in InUse
  BY <1>3, <1>4, <1>8, UsedAreMembers, MembersAre
<1>10. ASSUME NEW m \in InUse, m # v
       PROVE  hits[v] < hits[m] \/ (hits[v] = hits[m] /\ <<m, v>> \in newer)
  <2>1. PICK i \in DOMAIN chain : m \in Range(chain[i].nodes)
    BY UsedAreMembers, MembersAre
  <2>2. hits[m] = chain[i].freq /\ hits[v] = chain[1].freq
    BY <1>1, <1>3, <1>4, <1>8, <2>1, OneList
  <2>3. CASE i = 1
    <3>1. PICK j \in DOMAIN q : m = q[j]
      BY <1>4, <2>1, <2>3 DEF Range
    <3>2. j < Len(q)
      BY <1>5, <1>7, <1>10, <3>1
    <3>3. <<q[j], q[Len(q)]>> \in newer
      BY <1>4, <1>5, <1>7, <3>2 DEF Filed
    <3> QED
      BY <1>7, <2>2, <2>3, <3>1, <3>3
  <2>4. CASE i # 1
    <3>1. 1 < i
      BY <1>1, <2>1, <2>4, ListTypes
    <3> QED
      BY <1>1, <1>3, <2>2, <3>1 DEF ChainFiled, Sorted
  <2> QED
    BY <2>3, <2>4
<1> QED
  BY <1>3, <1>4, <1>6, <1>8, <1>9, <1>10

\* Evicting leaves a chain of the other nodes.
LEMMA EvictedIsFiled ==
    ASSUME CacheInv, NEW v, v = Victim
    PROVE  /\ ChainFiled(Evicted(v), hits, newer) /\ NoneEmpty(Evicted(v))
           /\ Members(Evicted(v)) = InUse \ {v}
           /\ v = NULL \/ (v \in InUse /\ Cardinality(DOMAIN kmap) = Capacity)
<1>1. InUse \subseteq Nodes /\ NULL \notin InUse /\ InUse = Members(chain)
  BY UsedAreMembers, CacheAssumption DEF CacheInv
<1>2. ChainFiled(chain, hits, newer) /\ NoneEmpty(chain) /\ chain \in Seq(List)
  BY DEF CacheInv, ListsInv, ChainFiled
<1>3. CASE v = NULL
  <2>1. Evicted(v) = chain /\ InUse \ {v} = InUse
    BY <1>1, <1>3 DEF Evicted
  <2> QED
    BY <1>1, <1>2, <1>3, <2>1
<1>4. CASE v # NULL
  <2>1. Cardinality(DOMAIN kmap) = Capacity
    BY <1>4 DEF Victim
  <2>2. 1 \in DOMAIN chain /\ v \in Range(chain[1].nodes) /\ v \in InUse
    BY <2>1, VictimIsLeast
  <2>3. PICK L : L = Without(chain[1], v)
    OBVIOUS
  <2>4. PICK mv : mv = [chain EXCEPT ![1] = L]
    OBVIOUS
  <2>5. Evicted(v) = DropEmpty(mv, 1)
    <3>1. mv = [chain EXCEPT ![1].nodes = Del(@, v)]
      BY <2>2, <2>3, <2>4 DEF Without
    <3> QED
      BY <1>4, <3>1 DEF Evicted
  <2>6. /\ L \in List /\ L.freq = chain[1].freq /\ Filed(L, hits, newer)
        /\ Range(L.nodes) = Range(chain[1].nodes) \ {v}
    <3>1. chain[1] \in List /\ Filed(chain[1], hits, newer)
      BY <1>2, <2>2, ListTypes DEF ChainFiled
    <3> QED
      BY <2>2, <2>3, <3>1, DelKeepsFiled
  <2>7. /\ mv \in Seq(List) /\ DOMAIN mv = DOMAIN chain /\ Len(mv) = Len(chain)
        /\ mv[1] = L
        /\ \A j \in DOMAIN chain : j # 1 => mv[j] = chain[j]
    BY <1>2, <2>2, <2>4, <2>6
  <2>8. ChainFiled(mv, hits, newer)
    <3>1. \A j \in DOMAIN chain : mv[j].freq = chain[j].freq
      BY <2>6, <2>7
    <3>2. Sorted(mv)
      BY <1>2, <2>7, <3>1 DEF ChainFiled, Sorted
    <3>3. \A j \in DOMAIN mv : Filed(mv[j], hits, newer)
      BY <1>2, <2>6, <2>7 DEF ChainFiled
    <3> QED
      BY <2>7, <3>2, <3>3 DEF ChainFiled
  <2>9. \A j \in DOMAIN mv : j # 1 => mv[j].nodes # <<>>
    BY <1>2, <2>7 DEF NoneEmpty
  <2>10. 1 \in 0 .. Len(mv)
    BY <1>2, <2>2, <2>7
  <2>11. /\ ChainFiled(DropEmpty(mv, 1), hits, newer)
         /\ NoneEmpty(DropEmpty(mv, 1))
         /\ Members(DropEmpty(mv, 1)) = Members(mv)
    BY <2>8, <2>9, <2>10, DropKeepsChain
  <2>12. \A x : x \in Members(mv) <=> x \in Members(chain) /\ x # v
    <3> SUFFICES ASSUME NEW x PROVE x \in Members(mv) <=> x \in Members(chain) /\ x # v
      OBVIOUS
    <3>1. ASSUME NEW j \in DOMAIN mv, x \in Range(mv[j].nodes)
          PROVE  x \in Range(chain[j].nodes) /\ x # v
      <4>1. CASE j = 1
        BY <2>6, <2>7, <3>1, <4>1
      <4>2. CASE j # 1
        BY <1>2, <2>2, <2>7, <3>1, <4>2, OneList
      <4> QED
        BY <4>1, <4>2
    <3>2. ASSUME NEW j \in DOMAIN chain, x \in Range(chain[j].nodes), x # v
          PROVE  x \in Range(mv[j].nodes)
      BY <2>6, <2>7, <3>2
    <3> QED
      BY <2>7, <3>1, <3>2, MembersAre
  <2>13. Members(mv) = InUse \ {v}
    BY <1>1, <2>12
  <2> QED
    BY <2>1, <2>2, <2>5, <2>11, <2>13
<1> QED
  BY <1>3, <1>4

LEMMA SetKeeps ==
    ASSUME CacheInv, NEW t \in Threads, Set(t)
    PROVE  CacheInv'
<1>1. PICK k : k = filling[t]
  OBVIOUS
<1>2. PICK v : v = Victim
  OBVIOUS
<1>3. PICK n : n = CHOOSE x \in Nodes : x \notin InUse
  OBVIOUS
<1>4. PICK kmap1 : kmap1 = IF v = NULL THEN kmap ELSE Erase(kmap, keyOf[v])
  OBVIOUS
<1>5. PICK fmap1 : fmap1 = IF v = NULL THEN fmap ELSE Erase(fmap, keyOf[v])
  OBVIOUS
<1>6. /\ k # NULL /\ Nodes # InUse
      /\ twice' = IF k \in DOMAIN kmap1 THEN twice + 1 ELSE twice
      /\ chain' = AddFreq(Evicted(v), 0, n)
      /\ kmap' = Put(kmap1, k, n)
      /\ fmap' = Put(fmap1, k, 1)
      /\ keyOf' = [x \in Nodes |-> IF x = n THEN k ELSE IF x = v THEN NULL ELSE keyOf[x]]
      /\ filling' = [filling EXCEPT ![t] = NULL]
      /\ newer' = Used(n, InUse \ {v})
      /\ hits' = [x \in Nodes |-> IF x = n THEN 1 ELSE IF x = v THEN 0 ELSE hits[x]]
  BY <1>1, <1>2, <1>3, <1>4, <1>5 DEF Set, Evicted
<1>7. /\ TypeOK /\ InUse \subseteq Nodes /\ NULL \notin Nodes /\ k \in Keys
      /\ InUse = Members(chain)
  BY <1>1, <1>6, UsedAreMembers, CacheAssumption DEF CacheInv, TypeOK
<1>8. n \in Nodes /\ n \notin InUse
  BY <1>3, <1>6, <1>7
<1>9. PICK ev : ev = Evicted(v)
  OBVIOUS
<1>10. /\ ChainFiled(ev, hits, newer) /\ NoneEmpty(ev)
       /\ Members(ev) = InUse \ {v}
       /\ v = NULL \/ (v \in InUse /\ Cardinality(DOMAIN kmap) = Capacity)
  BY <1>2, <1>9, EvictedIsFiled
<1>11. hits' \in [Nodes -> Nat] /\ hits'[n] = 1 /\ \A m \in InUse \ {v} : hits'[m] = hits[m]
  <2>1. hits \in [Nodes -> Nat]
    BY <1>7 DEF TypeOK
  <2> QED
    BY <1>6, <1>7, <1>8, <2>1
<1>12. /\ ChainFiled(chain', hits', newer') /\ NoneEmpty(chain')
       /\ Members(chain') = (InUse \ {v}) \cup {n}
  <2>1. UsedNow(Members(ev), n, hits, newer, hits', newer')
    BY <1>6, <1>8, <1>10, <1>11 DEF UsedNow, Used
  <2>2. OnlyIn(ev, 0, n)
    <3>1. \A j \in DOMAIN ev : n \notin Range(ev[j].nodes)
      BY <1>8, <1>10, MembersAre
    <3>2. \A j \in DOMAIN ev : j # 0
      BY <1>10, ListTypes DEF ChainFiled
    <3> QED
      BY <3>1, <3>2 DEF OnlyIn
  <2>3. 0 \in 0 .. Len(ev) /\ hits'[n] = FreqAt(ev, 0) + 1
    <3>1. ev \in Seq(List)
      BY <1>10 DEF ChainFiled
    <3>2. 0 \in 0 .. Len(ev)
      BY <3>1
    <3> QED
      BY <1>11, <3>2 DEF FreqAt
  <2>4. /\ ChainFiled(AddFreq(ev, 0, n), hits', newer')
        /\ NoneEmpty(AddFreq(ev, 0, n))
        /\ Members(AddFreq(ev, 0, n)) = Members(ev) \cup {n}
    <3>1. PICK i : i = 0
      OBVIOUS
    <3>2. ChainFiled(ev, hits, newer) /\ NoneEmpty(ev) /\ n \in Nodes
      BY <1>8, <1>10
    <3>3. i \in 0 .. Len(ev) /\ OnlyIn(ev, i, n) /\ hits'[n] = FreqAt(ev, i) + 1
      BY <2>2, <2>3, <3>1
    <3>4. /\ ChainFiled(AddFreq(ev, i, n), hits', newer')
          /\ NoneEmpty(AddFreq(ev, i, n))
          /\ Members(AddFreq(ev, i, n)) = Members(ev) \cup {n}
      BY <2>1, <3>2, <3>3, AddFreqKeepsChain
    <3> QED
      BY <3>1, <3>4
  <2> QED
    BY <1>6, <1>9, <1>10, <2>4
<1>13. InUse' = (InUse \ {v}) \cup {n}
  BY <1>12 DEF InUse, Members
<1>14. /\ keyOf' \in [Nodes -> Keys \cup {NULL}] /\ keyOf'[n] = k
       /\ \A m \in Nodes \ {n} : keyOf'[m] = IF m = v THEN NULL ELSE keyOf[m]
  BY <1>6, <1>7, <1>8 DEF TypeOK
<1>15. /\ DOMAIN fmap1 = DOMAIN kmap1
       /\ DOMAIN kmap1 \subseteq DOMAIN kmap
       /\ v # NULL => DOMAIN kmap1 = DOMAIN kmap \ {keyOf[v]}
       /\ v = NULL => DOMAIN kmap1 = DOMAIN kmap
       /\ \A x \in DOMAIN kmap1 :
             kmap1[x] = kmap[x] /\ fmap1[x] = fmap[x] /\ kmap1[x] # v
  <2>1. DOMAIN fmap = DOMAIN kmap
        /\ \A x \in DOMAIN kmap : kmap[x] \in InUse /\ keyOf[kmap[x]] = x
    BY DEF CacheInv, MapsInv
  <2>2. CASE v = NULL
    BY <1>4, <1>5, <1>7, <2>1, <2>2
  <2>3. CASE v # NULL
    <3>1. kmap1 = Erase(kmap, keyOf[v]) /\ fmap1 = Erase(fmap, keyOf[v])
      BY <1>4, <1>5, <2>3
    <3>2. DOMAIN kmap1 = DOMAIN kmap \ {keyOf[v]} /\ DOMAIN fmap1 = DOMAIN fmap \ {keyOf[v]}
      BY <3>1 DEF Erase
    <3>3. \A x \in DOMAIN kmap \ {keyOf[v]} : kmap1[x] = kmap[x]
      BY <3>1 DEF Erase
    <3>4. \A x \in DOMAIN fmap \ {keyOf[v]} : fmap1[x] = fmap[x]
      BY <3>1 DEF Erase
    <3> QED
      BY <2>1, <2>3, <3>2, <3>3, <3>4
  <2> QED
    BY <2>2, <2>3
<1>16. /\ DOMAIN kmap' = DOMAIN kmap1 \cup {k} /\ kmap'[k] = n
       /\ \A x \in DOMAIN kmap1 \ {k} : kmap'[x] = kmap[x]
  <2>1. /\ DOMAIN kmap' = DOMAIN kmap1 \cup {k} /\ kmap'[k] = n
        /\ \A x \in DOMAIN kmap1 \ {k} : kmap'[x] = kmap1[x]
    <3>1. kmap' = Put(kmap1, k, n)
      BY <1>6
    <3>2. /\ DOMAIN Put(kmap1, k, n) = DOMAIN kmap1 \cup {k}
          /\ Put(kmap1, k, n)[k] = n
          /\ \A x \in DOMAIN kmap1 \ {k} : Put(kmap1, k, n)[x] = kmap1[x]
      BY DEF Put
    <3> QED
      BY <3>1, <3>2
  <2> QED
    BY <1>15, <2>1
<1>17. /\ DOMAIN fmap' = DOMAIN kmap1 \cup {k} /\ fmap'[k] = 1
       /\ \A x \in DOMAIN kmap1 \ {k} : fmap'[x] = fmap[x]
  <2>1. /\ DOMAIN fmap' = DOMAIN fmap1 \cup {k} /\ fmap'[k] = 1
        /\ \A x \in DOMAIN fmap1 \ {k} : fmap'[x] = fmap1[x]
    <3>1. fmap' = Put(fmap1, k, 1)
      BY <1>6
    <3>2. /\ DOMAIN Put(fmap1, k, 1) = DOMAIN fmap1 \cup {k}
          /\ Put(fmap1, k, 1)[k] = 1
          /\ \A x \in DOMAIN fmap1 \ {k} : Put(fmap1, k, 1)[x] = fmap1[x]
      BY DEF Put
    <3> QED
      BY <3>1, <3>2
  <2> QED
    BY <1>15, <2>1
<1>18. TypeOK'
  <2>1. chain' \in Seq(List)
    BY <1>12 DEF ChainFiled
  <2>2. DOMAIN kmap' \subseteq Keys /\ \A x \in DOMAIN kmap' : kmap'[x] \in Nodes
    BY <1>7, <1>8, <1>15, <1>16 DEF TypeOK
  <2>3. DOMAIN fmap' \subseteq Keys /\ \A x \in DOMAIN fmap' : fmap'[x] \in Nat
    <3>1. DOMAIN fmap = DOMAIN kmap
      BY DEF CacheInv, MapsInv
    <3> QED
      BY <1>7, <1>15, <1>17, <3>1 DEF TypeOK
  <2>4. newer' \subseteq InUse' \X InUse'
    BY <1>6, <1>13 DEF Used
  <2>5. filling' \in [Threads -> Keys \cup {NULL}] /\ twice' \in Nat
    BY <1>6, <1>7 DEF TypeOK
  <2> QED
    BY <1>11, <1>14, <2>1, <2>2, <2>3, <2>4, <2>5 DEF TypeOK
<1>19. ListsInv'
  BY <1>12 DEF ListsInv
<1>20. NodesInv'
  <2>1. \A m \in Nodes : m \in InUse <=> keyOf[m] # NULL
    BY DEF CacheInv, NodesInv
  <2> QED
    BY <1>6, <1>8, <1>13, <1>14, <2>1 DEF NodesInv
<1>21. MapsInv'
  <2>1. ASSUME NEW x \in DOMAIN kmap'
        PROVE  kmap'[x] \in InUse' /\ keyOf'[kmap'[x]] = x /\ fmap'[x] = hits'[kmap'[x]]
    <3>1. CASE x = k
      BY <1>11, <1>13, <1>14, <1>16, <1>17, <3>1
    <3>2. CASE x # k
      <4>1. /\ x \in DOMAIN kmap1 /\ x \in DOMAIN kmap
            /\ kmap'[x] = kmap[x] /\ fmap'[x] = fmap[x] /\ kmap[x] # v
        BY <1>15, <1>16, <1>17, <3>2
      <4>2. kmap[x] \in InUse /\ keyOf[kmap[x]] = x /\ fmap[x] = hits[kmap[x]]
        BY <4>1 DEF CacheInv, MapsInv
      <4>3. kmap[x] # n /\ kmap[x] \in Nodes
        BY <1>7, <1>8, <4>2
      <4> QED
        BY <1>11, <1>13, <1>14, <4>1, <4>2, <4>3
    <3> QED
      BY <3>1, <3>2
  <2> QED
    BY <1>16, <1>17, <2>1 DEF MapsInv
<1>22. SizeInv'
  <2>1. IsFiniteSet(DOMAIN kmap)
    BY DEF CacheInv, SizeInv
  <2>2. IsFiniteSet(DOMAIN kmap1)
    BY <1>15, <2>1, FS_Subset
  <2>3. IsFiniteSet(DOMAIN kmap')
    BY <1>16, <2>2, FS_AddElement
  <2>4. ASSUME twice' = 0 PROVE Cardinality(DOMAIN kmap') <= Capacity /\ InUse' = Range(kmap')
    <3>1. twice = 0 /\ k \notin DOMAIN kmap1
      BY <1>6, <1>7, <2>4 DEF TypeOK
    <3>2. Cardinality(DOMAIN kmap) <= Capacity /\ InUse = Range(kmap)
      BY <3>1 DEF CacheInv, SizeInv
    <3>3. Cardinality(DOMAIN kmap') = Cardinality(DOMAIN kmap1) + 1
      BY <1>16, <2>2, <3>1, FS_AddElement
    <3>4. Cardinality(DOMAIN kmap) \in Nat /\ Cardinality(DOMAIN kmap1) \in Nat /\ Capacity \in Nat
      BY <2>1, <2>2, FS_CardinalityType, CacheAssumption
    <3>5. Cardinality(DOMAIN kmap1) < Capacity
      <4>1. CASE v = NULL
        <5>1. Cardinality(DOMAIN kmap) # Capacity
          <6>1. ASSUME Cardinality(DOMAIN kmap) = Capacity PROVE FALSE
            <7>1. v \in InUse
              BY <1>2, <6>1, VictimIsLeast
            <7> QED
              BY <1>7, <4>1, <7>1
          <6> QED
            BY <6>1
        <5> QED
          BY <1>15, <3>2, <3>4, <4>1, <5>1
      <4>2. CASE v # NULL
        <5>1. v \in Range(kmap)
          BY <1>10, <3>2, <4>2
        <5>2. PICK x \in DOMAIN kmap : kmap[x] = v
          BY <5>1 DEF Range
        <5>3. keyOf[v] \in DOMAIN kmap
          BY <5>2 DEF CacheInv, MapsInv
        <5>4. Cardinality(DOMAIN kmap1) = Cardinality(DOMAIN kmap) - 1
          BY <1>15, <2>1, <4>2, <5>3, FS_RemoveElement
        <5> QED
          BY <3>2, <3>4, <5>4
      <4> QED
        BY <4>1, <4>2
    <3>6. ASSUME NEW m \in InUse \ {v} PROVE m \in Range(kmap')
      <4>1. PICK x \in DOMAIN kmap : kmap[x] = m
        BY <3>2, <3>6 DEF Range
      <4>2. x \in DOMAIN kmap1
        <5>1. CASE v = NULL
          BY <1>15, <5>1
        <5>2. CASE v # NULL
          <6>1. v \in Range(kmap)
            BY <1>10, <3>2, <5>2
          <6>2. PICK y \in DOMAIN kmap : kmap[y] = v
            BY <6>1 DEF Range
          <6>3. x # keyOf[v]
            BY <3>6, <4>1, <6>2 DEF CacheInv, MapsInv
          <6> QED
            BY <1>15, <5>2, <6>3
        <5> QED
          BY <5>1, <5>2
      <4>3. x # k
        BY <3>1, <4>2
      <4>4. x \in DOMAIN kmap' /\ kmap'[x] = m
        BY <1>16, <4>1, <4>2, <4>3
      <4> QED
        BY <4>4 DEF Range
    <3>7. n \in Range(kmap')
      BY <1>16 DEF Range
    <3>8. ASSUME NEW x \in DOMAIN kmap' PROVE kmap'[x] \in InUse'
      BY <1>21, <3>8 DEF MapsInv
    <3>9. InUse' = Range(kmap')
      <4>1. \A m \in Range(kmap') : m \in InUse'
        BY <3>8 DEF Range
      <4> QED
        BY <1>13, <3>6, <3>7, <4>1
    <3> QED
      BY <3>3, <3>4, <3>5, <3>9
  <2> QED
    BY <2>3, <2>4 DEF SizeInv
<1> QED
  BY <1>18, <1>19, <1>20, <1>21, <1>22 DEF CacheInv

LEMMA CacheInvHolds == Spec => []CacheInv
<1>1. CacheInv /\ [Next]_vars => CacheInv'
  <2> SUFFICES ASSUME CacheInv, [Next]_vars PROVE CacheInv'
    OBVIOUS
  <2>1. ASSUME NEW t \in Threads, NEW k \in Keys, GetHit(t, k) PROVE CacheInv'
    BY <2>1, GetHitKeeps
  <2>2. ASSUME NEW t \in Threads, Set(t) PROVE CacheInv'
    BY <2>2, SetKeeps
  <2>3. ASSUME UNCHANGED <<chain, kmap, fmap, keyOf, newer, hits, twice>>,
               filling' \in [Threads -> Keys \cup {NULL}]
        PROVE  CacheInv'
    <3>1. InUse' = InUse
      BY <2>3 DEF InUse
    <3>2. TypeOK'
      BY <2>3, <3>1 DEF CacheInv, TypeOK
    <3>3. ListsInv'
      BY <2>3 DEF CacheInv, ListsInv
    <3>4. NodesInv' /\ MapsInv' /\ SizeInv'
      BY <2>3, <3>1 DEF CacheInv, NodesInv, MapsInv, SizeInv
    <3> QED
      BY <3>2, <3>3, <3>4 DEF CacheInv
  <2>4. filling \in [Threads -> Keys \cup {NULL}]
    BY DEF CacheInv, TypeOK
  <2>5. ASSUME NEW t \in Threads, NEW k \in Keys, GetMiss(t, k) PROVE CacheInv'
    BY <2>3, <2>4, <2>5 DEF GetMiss
  <2>6. ASSUME NEW t \in Threads, OpenFails(t) PROVE CacheInv'
    BY <2>3, <2>4, <2>6 DEF OpenFails
  <2>7. CASE UNCHANGED vars
    BY <2>3, <2>4, <2>7 DEF vars
  <2> QED
    BY <2>1, <2>2, <2>5, <2>6, <2>7 DEF Next
<1> QED
  BY <1>1, InitCacheInv, PTL DEF Spec

\* The lists and the maps of the cache are one cache on every path of Get and Set,
\* also when several threads store the file all of them missed; and as long as none was
\* stored twice there are no more files than the capacity (lfu_cache.cpp:99-195).
THEOREM ListsAndMapsAgree == Spec => []CacheIsConsistent
<1>1. CacheInv => CacheIsConsistent
  <2> SUFFICES ASSUME CacheInv PROVE CacheIsConsistent
    OBVIOUS
  <2>1. ChainInOrder
    BY DEF CacheInv, ListsInv, NodesInv, ChainFiled, NoneEmpty, Sorted, Filed, ChainInOrder
  <2>2. MapsAgree
    <3>1. ASSUME NEW k \in DOMAIN kmap
          PROVE  /\ keyOf[kmap[k]] = k
                 /\ \E i \in DOMAIN chain :
                       chain[i].freq = fmap[k] /\ kmap[k] \in Range(chain[i].nodes)
      <4>1. kmap[k] \in InUse /\ keyOf[kmap[k]] = k /\ fmap[k] = hits[kmap[k]]
        BY <3>1 DEF CacheInv, MapsInv
      <4>2. PICK i \in DOMAIN chain : kmap[k] \in Range(chain[i].nodes)
        BY <4>1, UsedAreMembers, MembersAre
      <4>3. hits[kmap[k]] = chain[i].freq
        BY <4>2, OneList DEF CacheInv, ListsInv
      <4> QED
        BY <4>1, <4>2, <4>3
    <3> QED
      BY <3>1 DEF CacheInv, MapsInv, MapsAgree
  <2>3. SizeBound
    <3> SUFFICES ASSUME twice = 0
                 PROVE  Cardinality(InUse) <= Capacity /\ InUse = Range(kmap)
      BY DEF SizeBound
    <3>1. /\ IsFiniteSet(DOMAIN kmap)
          /\ Cardinality(DOMAIN kmap) <= Capacity /\ InUse = Range(kmap)
      BY DEF CacheInv, SizeInv
    <3>2. [k \in DOMAIN kmap |-> kmap[k]] \in Surjection(DOMAIN kmap, Range(kmap))
      BY DEF Surjection, Range
    <3>3. IsFiniteSet(Range(kmap)) /\ Cardinality(Range(kmap)) <= Cardinality(DOMAIN kmap)
      BY <3>1, <3>2, FS_Surjection
    <3>4. Cardinality(Range(kmap)) \in Nat /\ Cardinality(DOMAIN kmap) \in Nat
      BY <3>1, <3>3, FS_CardinalityType
    <3> QED
      BY <3>1, <3>3, <3>4, CacheAssumption
  <2> QED
    BY <2>1, <2>2, <2>3 DEF CacheIsConsistent
<1> QED
  BY <1>1, CacheInvHolds, PTL

\* What Set evicts was used least of all that is in the cache, and longest ago of those
\* (lfu_cache.cpp:155-175), whatever the threads looked up and stored before.
THEOREM LeastUsedIsEvicted == Spec => EvictsLeastUsed
<1>1. CacheInv /\ [Next]_vars =>
        [\A n \in Nodes : keyOf[n] # NULL /\ keyOf'[n] = NULL =>
            \A m \in InUse \ {n} :
                hits[n] < hits[m] \/ (hits[n] = hits[m] /\ <<m, n>> \in newer)]_vars
  <2> SUFFICES ASSUME CacheInv, Next, NEW n \in Nodes, keyOf[n] # NULL, keyOf'[n] = NULL,
                      NEW m \in InUse \ {n}
               PROVE  hits[n] < hits[m] \/ (hits[n] = hits[m] /\ <<m, n>> \in newer)
    BY DEF vars
  <2>1. PICK t \in Threads : Set(t)
    BY DEF Next, GetHit, GetMiss, OpenFails
  <2>2. n = Victim /\ Victim # NULL
    <3>1. /\ filling[t] # NULL
          /\ \E x : keyOf' = [y \in Nodes |-> IF y = x THEN filling[t]
                                              ELSE IF y = Victim THEN NULL ELSE keyOf[y]]
      BY <2>1 DEF Set
    <3>2. n = Victim
      BY <3>1
    <3> QED
      BY <3>2, CacheAssumption
  <2>3. Cardinality(DOMAIN kmap) = Capacity
    BY <2>2 DEF Victim
  <2> QED
    BY <2>2, <2>3, VictimIsLeast
<1> QED
  BY <1>1, CacheInvHolds, PTL DEF Spec, EvictsLeastUsed
=============================================================================
