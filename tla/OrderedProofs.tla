--------------------------- MODULE OrderedProofs ---------------------------
(***************************************************************************)
(* Proofs about the two structures that keep an order: TimerHeap, then     *)
(* SkipList.  They share nothing but this module.                          *)
(*                                                                         *)
(* That no connection is closed early rests on Lag: since a timer was      *)
(* made, the clock it is compared with has not gone further than time has, *)
(* because all it does besides is to fall to zero.                         *)
(***************************************************************************)
EXTENDS TimerHeap, SkipList, FiniteSetTheorems, SequenceTheorems, WellFoundedInduction, TLAPS

Lag == \A t \in heap : clock + t.timeout + t.born <= now + t.expire

TimerInv == TimerTypeOK /\ OneTimer /\ Lag

LEMMA InitTimerInv == TimerInit => TimerInv
  BY TimeAssumption DEF TimerInit, TimerInv, TimerTypeOK, OneTimer, Lag

LEMMA TimerTypes ==
  ASSUME NEW t \in Timer
  PROVE  /\ t.conn \in Conns /\ t.expire \in Nat /\ t.deleted \in BOOLEAN
         /\ t.born \in Nat /\ t.timeout \in Nat
  BY TimeAssumption DEF Timer

\* A released heap holds the same timers but for their deleted flags, and none
\* that is live for the connection.
LEMMA ReleasedTimers ==
  ASSUME NEW c \in Conns, heap \subseteq Timer, NEW r \in Released(c)
  PROVE  /\ r \in Timer
         /\ \E t \in heap : /\ r.conn = t.conn /\ r.expire = t.expire
                            /\ r.born = t.born /\ r.timeout = t.timeout
                            /\ ~r.deleted => r = t /\ t.conn # c
<1>1. PICK t \in heap : r = IF t.conn = c THEN [t EXCEPT !.deleted = TRUE] ELSE t
  BY DEF Released
<1>2. t \in Timer
  OBVIOUS
<1>3. CASE t.conn = c
  <2>1. r = [t EXCEPT !.deleted = TRUE]
    BY <1>1, <1>3
  <2>2. r \in Timer /\ r.deleted /\ r.conn = t.conn /\ r.expire = t.expire
            /\ r.born = t.born /\ r.timeout = t.timeout
    BY <2>1, <1>2 DEF Timer
  <2> QED
    BY <2>2
<1>4. CASE t.conn # c
  <2>1. r = t
    BY <1>1, <1>4
  <2> QED
    BY <2>1, <1>2, <1>4
<1> QED
  BY <1>3, <1>4

\* The three facts survive a heap whose timers are those of a released one.
LEMMA ReleasedInv ==
  ASSUME NEW c \in Conns, TimerInv, heap' = Released(c),
         now' = now, clock' = clock, open \ {c} \subseteq open', open' \subseteq Conns,
         pc' \in {"wait", "events", "expire"}
  PROVE  TimerInv'
<1>1. TimerTypeOK'
  BY ReleasedTimers DEF TimerInv, TimerTypeOK
<1>2. OneTimer'
  <2> SUFFICES ASSUME NEW t \in Released(c), NEW u \in Released(c),
                      ~t.deleted, ~u.deleted, t.conn = u.conn
               PROVE  t = u /\ t.conn \in open'
    BY DEF OneTimer
  <2>1. t \in heap /\ u \in heap /\ t.conn # c
    BY ReleasedTimers DEF TimerInv, TimerTypeOK
  <2> QED
    BY <2>1 DEF TimerInv, OneTimer
<1>3. Lag'
  BY ReleasedTimers DEF TimerInv, TimerTypeOK, Lag
<1> QED
  BY <1>1, <1>2, <1>3 DEF TimerInv

LEMMA NextTimerInv == TimerInv /\ [TimerNext]_timerVars => TimerInv'
<1> SUFFICES ASSUME TimerInv, [TimerNext]_timerVars PROVE TimerInv'
  OBVIOUS
<1> USE TimeAssumption
<1>1. CASE Tick
  <2>1. TimerTypeOK'
    BY <1>1 DEF Tick, TimerInv, TimerTypeOK
  <2>2. OneTimer'
    BY <1>1 DEF Tick, TimerInv, OneTimer
  <2>3. Lag'
    <3> SUFFICES ASSUME NEW t \in heap
                 PROVE  clock' + t.timeout + t.born <= now' + t.expire
      BY <1>1 DEF Tick, Lag
    <3>1. t.timeout \in Nat /\ t.born \in Nat /\ t.expire \in Nat
      BY TimerTypes DEF TimerInv, TimerTypeOK
    <3>2. clock \in Nat /\ now \in Nat /\ clock' <= clock + 1 /\ now' = now + 1
            /\ clock' \in Nat
      BY <1>1 DEF Tick, TimerInv, TimerTypeOK
    <3>3. clock + t.timeout + t.born <= now + t.expire
      BY DEF TimerInv, Lag
    <3> QED
      BY <3>1, <3>2, <3>3
  <2> QED
    BY <2>1, <2>2, <2>3 DEF TimerInv
<1>2. ASSUME NEW c \in Conns, NEW t \in Timeouts, Touch(c, t) PROVE TimerInv'
  <2> DEFINE n == NewTimer(c, t)
  <2>1. n \in Timer /\ n.conn = c /\ n.expire = clock + t /\ n.born = now
            /\ n.timeout = t
    BY DEF NewTimer, Timer, TimerInv, TimerTypeOK
  <2>2. heap' = Released(c) \cup {n} /\ UNCHANGED <<now, clock>>
            /\ open' = open \cup {c} /\ pc' = "events"
    BY <1>2 DEF Touch
  <2> HIDE DEF n
  <2>3. TimerTypeOK'
    BY <2>1, <2>2, ReleasedTimers DEF TimerInv, TimerTypeOK
  <2>4. OneTimer'
    <3> SUFFICES ASSUME NEW v \in heap', NEW u \in heap',
                        ~v.deleted, ~u.deleted, v.conn = u.conn
                 PROVE  v = u /\ v.conn \in open'
      BY DEF OneTimer
    <3>1. \A r \in Released(c) : ~r.deleted => r \in heap /\ r.conn # c
      BY ReleasedTimers DEF TimerInv, TimerTypeOK
    <3>2. CASE v = n
      BY <2>1, <2>2, <3>1, <3>2
    <3>3. CASE v # n
      <4>1. v \in heap /\ u \in heap
        BY <2>1, <2>2, <3>1, <3>3
      <4> QED
        BY <4>1, <2>2 DEF TimerInv, OneTimer
    <3> QED
      BY <3>2, <3>3
  <2>5. Lag'
    <3> SUFFICES ASSUME NEW r \in heap' PROVE clock + r.timeout + r.born <= now + r.expire
      BY <2>2 DEF Lag
    <3>1. CASE r = n
      BY <3>1, <2>1 DEF TimerInv, TimerTypeOK, Timer
    <3>2. CASE r # n
      BY <3>2, <2>2, ReleasedTimers DEF TimerInv, TimerTypeOK, Lag
    <3> QED
      BY <3>1, <3>2
  <2> QED
    BY <2>3, <2>4, <2>5 DEF TimerInv
<1>3. ASSUME NEW c \in Conns, Close(c) PROVE TimerInv'
  BY <1>3, ReleasedInv DEF Close, TimerInv, TimerTypeOK
<1>4. ASSUME NEW c \in Conns, Keep(c) PROVE TimerInv'
  BY <1>4, ReleasedInv DEF Keep, TimerInv, TimerTypeOK
<1>5. CASE HandleExpire \/ ExpireDone \/ UNCHANGED timerVars
  BY <1>5 DEF HandleExpire, ExpireDone, timerVars, TimerInv, TimerTypeOK, OneTimer, Lag
<1>6. ASSUME NEW t \in heap, PopTimer(t) PROVE TimerInv'
  <2>1. heap' \subseteq heap /\ t \notin heap' /\ UNCHANGED <<now, clock, pc>>
            /\ open' = IF t.deleted THEN open ELSE open \ {t.conn}
    BY <1>6 DEF PopTimer
  <2>2. TimerTypeOK'
    BY <2>1 DEF TimerInv, TimerTypeOK
  <2>3. OneTimer'
    <3> SUFFICES ASSUME NEW v \in heap', NEW u \in heap',
                        ~v.deleted, ~u.deleted, v.conn = u.conn
                 PROVE  v = u /\ v.conn \in open'
      BY DEF OneTimer
    <3>1. v \in heap /\ u \in heap /\ v # t
      BY <2>1
    <3>2. v = u /\ v.conn \in open
      BY <3>1 DEF TimerInv, OneTimer
    <3>3. ~t.deleted => v.conn # t.conn
      BY <3>1 DEF TimerInv, OneTimer
    <3> QED
      BY <3>2, <3>3, <2>1
  <2>4. Lag'
    BY <2>1 DEF TimerInv, Lag
  <2> QED
    BY <2>2, <2>3, <2>4 DEF TimerInv
<1> QED
  BY <1>1, <1>2, <1>3, <1>4, <1>5, <1>6 DEF TimerNext

LEMMA TimerInvHolds == TimerSpec => []TimerInv
  BY InitTimerInv, NextTimerInv, PTL DEF TimerSpec

-----------------------------------------------------------------------------
\* Types of the timers, for any connections, timeouts and period.
THEOREM TimerTypeCorrect == TimerSpec => []TimerTypeOK
  BY TimerInvHolds, PTL DEF TimerInv

\* No connection has two live timers, and none has one after it is closed.
THEOREM OneLiveTimer == TimerSpec => []OneTimer
  BY TimerInvHolds, PTL DEF TimerInv

\* HandleExpire closes no connection before its timeout, for any timeouts, period
\* and history: the wrap of the clock makes timers late, never early.
THEOREM NeverClosedEarly == TimerSpec => NeverEarly
<1> DEFINE Early == \A c \in open \ open' :
              pc = "expire" => \E t \in heap :
                  t.conn = c /\ ~t.deleted /\ now >= t.born + t.timeout
<1>1. TimerInv /\ [TimerNext]_timerVars => [Early]_timerVars
  <2> SUFFICES ASSUME TimerInv, TimerNext, NEW c \in open \ open', pc = "expire"
               PROVE  \E t \in heap :
                         t.conn = c /\ ~t.deleted /\ now >= t.born + t.timeout
    BY DEF timerVars
  <2>1. PICK t \in heap : PopTimer(t)
    BY DEF TimerNext, Tick, Touch, Close, Keep, HandleExpire, ExpireDone
  <2>2. ~t.deleted /\ t.conn = c /\ clock >= t.expire
    BY <2>1 DEF PopTimer, Expired
  <2>3. now >= t.born + t.timeout
    <3>1. t.timeout \in Nat /\ t.born \in Nat /\ t.expire \in Nat
      BY TimerTypes DEF TimerInv, TimerTypeOK
    <3>2. clock \in Nat /\ now \in Nat
      BY TimeAssumption DEF TimerInv, TimerTypeOK
    <3>3. clock + t.timeout + t.born <= now + t.expire
      BY DEF TimerInv, Lag
    <3> QED
      BY <3>1, <3>2, <3>3, <2>2
  <2> QED
    BY <2>2, <2>3
<1> QED
  BY TimerInvHolds, <1>1, PTL DEF TimerSpec, NeverEarly

\* HandleExpireEvent leaves no timer that its clock shows to be expired.
THEOREM ExpiredArePopped == TimerSpec => NoneExpiredLeft
<1> DEFINE None == pc = "expire" /\ pc' = "wait" => \A t \in heap : clock < t.expire
<1>1. TimerInv /\ [TimerNext]_timerVars => [None]_timerVars
  <2> SUFFICES ASSUME TimerInv, TimerNext, pc = "expire", pc' = "wait", NEW t \in heap
               PROVE  clock < t.expire
    BY DEF timerVars
  <2>1. ExpireDone
    BY DEF TimerNext, Tick, Touch, Close, Keep, HandleExpire, PopTimer
  <2>2. PICK u \in heap : OnTop(u) /\ ~Expired(u)
    BY <2>1 DEF ExpireDone
  <2> QED
    BY <2>2, TimeAssumption DEF OnTop, Expired, TimerInv, TimerTypeOK, Timer
<1> QED
  BY TimerInvHolds, <1>1, PTL DEF TimerSpec, NoneExpiredLeft

-----------------------------------------------------------------------------
(* Numbers.                                                                *)

LEMMA LeastNumber ==
  ASSUME NEW S \in SUBSET Nat, S # {}
  PROVE  \E m \in S : \A k \in S : m <= k
<1> DEFINE Less == {ss \in Nat \X Nat : ss[1] < ss[2]}
<1>1. IsWellFoundedOn(Less, Nat)
  BY NatLessThanWellFounded DEF OpToRel
<1>2. PICK m \in S : \A k \in S : <<k, m>> \notin Less
  <2> HIDE DEF Less
  <2> QED
    BY <1>1, WFMin
<1>3. ASSUME NEW k \in S, k < m PROVE FALSE
  <2>1. <<k, m>> \in Nat \X Nat /\ <<k, m>>[1] < <<k, m>>[2]
    BY <1>3
  <2>2. <<k, m>> \in Less
    BY <2>1, Zenon
  <2> QED
    BY <2>2, <1>2, Zenon
<1> QED
  BY <1>3

LEMMA StepByStep ==
  ASSUME NEW S, 0 \in S, \A k \in Nat : k \in S => k + 1 \in S
  PROVE  Nat \subseteq S
<1> SUFFICES ASSUME Nat \ S # {} PROVE FALSE
  OBVIOUS
<1>1. PICK m \in Nat \ S : \A k \in Nat \ S : m <= k
  BY LeastNumber
<1>2. m - 1 \in Nat /\ m = (m - 1) + 1 /\ m - 1 \in S
  BY <1>1
<1> QED
  BY <1>1, <1>2

LEMMA MaxIs ==
  ASSUME NEW b \in Nat, NEW S \in SUBSET (-1 .. b), S # {}
  PROVE  Max(S) \in S /\ \A x \in S : x <= Max(S)
<1> DEFINE D == {b - x : x \in S}
<1>1. D \in SUBSET Nat /\ D # {}
  <2>1. \A x \in S : b - x \in Nat
    OBVIOUS
  <2>2. PICK x \in S : TRUE
    OBVIOUS
  <2> QED
    BY <2>1, <2>2
<1>2. PICK m \in D : \A d \in D : m <= d
  BY <1>1, LeastNumber
<1>3. PICK x \in S : m = b - x
  BY <1>2
<1>4. \A y \in S : x >= y
  <2> TAKE y \in S
  <2>1. b - y \in D
    OBVIOUS
  <2>2. m <= b - y
    BY <1>2, <2>1
  <2> QED
    BY <1>3, <2>2
<1>5. \E z \in S : \A y \in S : z >= y
  BY <1>4
<1>6. Max(S) = CHOOSE z \in S : \A y \in S : z >= y
  BY DEF Max
<1>7. Max(S) \in S /\ \A y \in S : Max(S) >= y
  BY <1>5, <1>6, Zenon
<1> QED
  BY <1>7

-----------------------------------------------------------------------------
(* SkipList.  Between two steps of a writer, level i holds Members(i): the  *)
(* nodes it is meant for, less the levels on which the writer has still to *)
(* link the new one, or has already taken off the old one.  Every pointer  *)
(* of a level leads to the next member of it; that is kept by each write   *)
(* to one pointer, and with no writer makes the levels what they should be.*)

\* The node a writer is linking in, or taking out.
Handled == IF writer.op \in {"insert", "delete", "free"} THEN {writer.key} ELSE {}

\* The nodes that are linked on a level.
Members(i) ==
    {k \in live : level[k] >= i
        /\ ~(writer.op = "insert" /\ k = writer.key /\ i >= writer.at)
        /\ ~(writer.op = "delete" /\ k = writer.key /\ i < writer.at)
        /\ ~(writer.op = "free" /\ k = writer.key)}

\* Whatever a pointer leads to is linked on its level, and greater.
Upwards ==
    \A i \in Levels : \A n \in Keys \cup {Header} :
        /\ forward[n][i] \in Members(i) \cup {Null}
        /\ n < forward[n][i]

\* No pointer passes over a node of its level.
PassesNone(fwd, S, i) ==
    \A n \in S \cup {Header} : \A k \in S : k <= n \/ fwd[n][i] <= k

NonePassed == \A i \in Levels : PassesNone(forward, Members(i), i)

\* A node that is not linked on a level has no pointer there, unless a writer has
\* it in hand.
Bare ==
    \A i \in Levels : \A n \in Keys :
        n \notin Members(i) \cup Handled => forward[n][i] = Null

\* n is where a node with this key belongs behind.
Precedes(n, S, key) ==
    /\ n \in S \cup {Header} /\ n < key
    /\ \A k \in S : k < key => k <= n

WriterIsRight ==
    /\ Handled \subseteq live
    /\ writer.op \in {"insert", "delete"} =>
          /\ writer.update \in [Levels -> Keys \cup {Header}]
          /\ \A i \in Levels : writer.at <= i =>
                Precedes(writer.update[i], Members(i), writer.key)
    /\ writer.op = "insert" =>
          /\ writer.at <= level[writer.key]
          /\ \A i \in Levels : writer.at <= i => forward[writer.key][i] = Null

LevelsAreBounded == \A k \in live : level[k] <= curLevel

\* Nodes that were counted, and not taken off yet.
Counted ==
    Cardinality(live) =
        elementCount + (IF writer.op = "insert" THEN 1 ELSE IF writer.op = "shrink" THEN -1 ELSE 0)

ListInv ==
    /\ TypeOK /\ Upwards /\ NonePassed /\ Bare /\ WriterIsRight
    /\ LevelsAreBounded /\ Counted

\* What a walker knows of the list.
ReaderIsRight ==
    /\ phase = "load" => reader = Idle /\ dumper = [d \in Dumpers |-> Idle]
    /\ reader.pc \in {"walk", "last"} =>
          /\ reader.key \in Keys
          /\ reader.key \in Members(0) => reader.there
          /\ ~reader.disturbed =>
                /\ writer = NoWriter /\ (reader.there => reader.key \in Members(0))
                /\ reader.cur \in Members(reader.at) \cup {Header} /\ reader.cur < reader.key
          /\ ~reader.disturbed /\ reader.pc = "last" =>
                reader.at = 0 /\ reader.key <= forward[reader.cur][0]
          /\ reader.cur \in Keys \cup {Header}
          /\ ~reader.deleted => reader.cur \in live \cup {Header}

DumpersAreRight ==
    \A d \in Dumpers :
        /\ dumper[d].pc = "walk" /\ ~dumper[d].deleted => dumper[d].cur \in live \cup {Null}
        /\ dumper[d].pc = "undefined" => dumper[d].deleted

WalkInv == ReaderIsRight /\ DumpersAreRight /\ SearchIsRight

-----------------------------------------------------------------------------
(* What a chain of pointers holds.                                         *)

Ascends(c) == \A m, n \in DOMAIN c : m < n => c[m] < c[n]

LEMMA InFront ==
  ASSUME NEW S \in SUBSET Int, NEW s \in Seq(S), NEW x \in S, Ascends(s), \A y \in Range(s) : x < y
  PROVE  <<x>> \o s \in Seq(S) /\ Ascends(<<x>> \o s) /\ Range(<<x>> \o s) = {x} \cup Range(s)
<1>1. PICK n \in Nat : n = Len(s) /\ DOMAIN s = 1 .. n
  BY LenProperties
<1>2. PICK c : c = <<x>> \o s
  OBVIOUS
<1>3. <<x>> \in Seq(S) /\ Len(<<x>>) = 1 /\ <<x>>[1] = x
  OBVIOUS
<1>4. c \in Seq(S) /\ Len(c) = 1 + n
      /\ \A i \in 1 .. 1 + n : c[i] = IF i <= 1 THEN <<x>>[i] ELSE s[i - 1]
  BY <1>1, <1>2, <1>3, ConcatProperties
<1>5. DOMAIN c = 1 .. 1 + n
  BY <1>4, LenProperties
<1>6. c[1] = x /\ \A i \in 2 .. 1 + n : c[i] = s[i - 1] /\ i - 1 \in 1 .. n
  BY <1>1, <1>3, <1>4
<1>7. \A i \in 1 .. n : i + 1 \in 2 .. 1 + n /\ c[i + 1] = s[i]
  BY <1>1, <1>6
<1>8. Range(c) = {x} \cup Range(s)
  <2>1. ASSUME NEW y \in Range(c) PROVE y \in {x} \cup Range(s)
    <3>1. PICK i \in 1 .. 1 + n : y = c[i]
      BY <1>5 DEF Range
    <3>2. CASE i = 1
      BY <1>6, <3>1, <3>2
    <3>3. CASE i # 1
      <4>1. i \in 2 .. 1 + n
        BY <3>3, <1>1
      <4> QED
        BY <1>1, <1>6, <3>1, <4>1 DEF Range
    <3> QED
      BY <3>2, <3>3
  <2>2. ASSUME NEW y \in Range(s) PROVE y \in Range(c)
    <3>1. PICK i \in 1 .. n : y = s[i]
      BY <1>1 DEF Range
    <3>2. i + 1 \in 1 .. 1 + n /\ c[i + 1] = y
      BY <1>1, <1>7, <3>1
    <3> QED
      BY <1>5, <3>2 DEF Range
  <2>3. x \in Range(c)
    BY <1>1, <1>5, <1>6 DEF Range
  <2> QED
    BY <2>1, <2>2, <2>3
<1>9. Ascends(c)
  <2> SUFFICES ASSUME NEW i \in 1 .. 1 + n, NEW j \in 1 .. 1 + n, i < j PROVE c[i] < c[j]
    BY <1>5 DEF Ascends
  <2>1. j \in 2 .. 1 + n /\ c[j] = s[j - 1] /\ j - 1 \in 1 .. n
    BY <1>1, <1>6
  <2>2. CASE i = 1
    BY <1>1, <1>6, <2>1, <2>2 DEF Range
  <2>3. CASE i # 1
    <3>1. c[i] = s[i - 1] /\ i - 1 \in 1 .. n /\ i - 1 < j - 1
      BY <1>1, <1>6, <2>1, <2>3
    <3> QED
      BY <1>1, <2>1, <3>1 DEF Ascends
  <2> QED
    BY <2>2, <2>3
<1> QED
  BY <1>2, <1>4, <1>8, <1>9

Pointers == [Keys \cup {Header} -> [Levels -> Keys \cup {Null}]]

\* f is the function ChainOf is defined by.
Unfolds(f, fwd, i) ==
    f = [n \in Keys \cup {Header} |->
            IF fwd[n][i] = Null THEN <<>> ELSE <<fwd[n][i]>> \o f[fwd[n][i]]]

Rises(fwd, i) == \A n \in Keys \cup {Header} : n < fwd[n][i]

LEMMA KeyIsNumber ==
  /\ Null \in Nat /\ Header \in Int /\ Header < Null
  /\ \A k \in Keys : k \in Nat /\ Header < k /\ k < Null
  BY ListAssumption DEF Header

LEMMA ChainExists ==
  ASSUME NEW fwd \in Pointers, NEW i \in Levels, Rises(fwd, i)
  PROVE  \E f : Unfolds(f, fwd, i)
<1> DEFINE Near(k) == {n \in Keys \cup {Header} : Null - n <= k}
           Partly(g, k) == g = [n \in Near(k) |->
                IF fwd[n][i] = Null THEN <<>> ELSE <<fwd[n][i]>> \o g[fwd[n][i]]]
           S == {k \in Nat : \E g : Partly(g, k)}
<1>1. 0 \in S
  <2> DEFINE g == [n \in {} |-> <<>>]
  <2>1. Near(0) = {}
    BY KeyIsNumber
  <2>2. Partly(g, 0)
    BY <2>1
  <2> QED
    BY <2>2
<1>2. ASSUME NEW k \in Nat, k \in S PROVE k + 1 \in S
  <2>1. PICK g : Partly(g, k)
    BY <1>2
  <2> DEFINE h == [n \in Near(k + 1) |->
                IF fwd[n][i] = Null THEN <<>> ELSE <<fwd[n][i]>> \o g[fwd[n][i]]]
  <2>2. \A n \in Near(k + 1) : fwd[n][i] # Null => fwd[n][i] \in Near(k)
    <3> SUFFICES ASSUME NEW n \in Keys \cup {Header}, Null - n <= k + 1, fwd[n][i] # Null
                 PROVE  fwd[n][i] \in Near(k)
      OBVIOUS
    <3>1. fwd[n][i] \in Keys /\ n < fwd[n][i]
      BY DEF Pointers, Rises
    <3> QED
      BY <3>1, KeyIsNumber
  <2>3. \A n \in Near(k) : n \in Near(k + 1) /\ h[n] = g[n]
    <3>1. \A n \in Near(k) : n \in Near(k + 1)
      BY KeyIsNumber
    <3>2. \A n \in Near(k) : g[n] = IF fwd[n][i] = Null THEN <<>> ELSE <<fwd[n][i]>> \o g[fwd[n][i]]
      <4> HIDE DEF Near
      <4> QED
        BY <2>1
    <3> HIDE DEF Near
    <3> QED
      BY <3>1, <3>2
  <2>4. Partly(h, k + 1)
    <3>1. \A n \in Near(k + 1) :
             (IF fwd[n][i] = Null THEN <<>> ELSE <<fwd[n][i]>> \o g[fwd[n][i]])
             = (IF fwd[n][i] = Null THEN <<>> ELSE <<fwd[n][i]>> \o h[fwd[n][i]])
      <4> HIDE DEF Near, h
      <4> QED
        BY <2>2, <2>3
    <3> HIDE DEF Near
    <3> QED
      BY <3>1, Zenon
  <2>5. k + 1 \in Nat
    OBVIOUS
  <2> HIDE DEF Partly, h
  <2> QED
    BY <2>4, <2>5
<1>3. Null + 1 \in S
  <2> HIDE DEF S
  <2>1. Nat \subseteq S
    BY <1>1, <1>2, StepByStep
  <2> QED
    BY <2>1, KeyIsNumber
<1>4. PICK f : Partly(f, Null + 1)
  BY <1>3
<1>5. Near(Null + 1) = Keys \cup {Header}
  BY KeyIsNumber DEF Header
<1> QED
  BY <1>4, <1>5 DEF Unfolds

\* A chain holds the nodes of its level, in their order.
LEMMA ChainIs ==
  ASSUME NEW fwd \in Pointers, NEW i \in Levels, NEW S \in SUBSET Keys, Rises(fwd, i),
         \A n \in Keys \cup {Header} : fwd[n][i] \in S \cup {Null},
         PassesNone(fwd, S, i)
  PROVE  /\ ChainOf(fwd, i) \in Seq(Keys) /\ Ascends(ChainOf(fwd, i))
         /\ Range(ChainOf(fwd, i)) = S
<1> DEFINE f == CHOOSE g : Unfolds(g, fwd, i)
           Right(n) == f[n] \in Seq(Keys) /\ Ascends(f[n]) /\ Range(f[n]) = {k \in S : n < k}
           T == {j \in Nat : \A n \in S \cup {Header} : Null - n <= j => Right(n)}
<1>1. ChainOf(fwd, i) = f[Header]
  BY DEF ChainOf, Unfolds
<1>2. Unfolds(f, fwd, i)
  BY ChainExists
<1> HIDE DEF f
<1>3. \A n \in S \cup {Header} :
         f[n] = IF fwd[n][i] = Null THEN <<>> ELSE <<fwd[n][i]>> \o f[fwd[n][i]]
  BY <1>2 DEF Unfolds
<1>4. 0 \in T
  BY KeyIsNumber
<1>5. ASSUME NEW j \in Nat, j \in T PROVE j + 1 \in T
  <2> SUFFICES ASSUME NEW n \in S \cup {Header}, Null - n <= j + 1 PROVE Right(n)
    OBVIOUS
  <2>1. \A k \in S : k <= n \/ fwd[n][i] <= k
    BY DEF PassesNone
  <2>2. CASE fwd[n][i] = Null
    <3>1. f[n] = <<>>
      BY <1>3, <2>2
    <3>2. {k \in S : n < k} = {}
      BY <2>1, <2>2, KeyIsNumber
    <3>3. <<>> \in Seq(Keys) /\ Range(<<>>) = {} /\ Ascends(<<>>)
      BY DEF Range, Ascends
    <3> QED
      BY <3>1, <3>2, <3>3
  <2>3. CASE fwd[n][i] # Null
    <3>1. PICK m \in S : m = fwd[n][i] /\ n < m
      BY <2>3 DEF Rises
    <3>2. f[n] = <<m>> \o f[m]
      BY <1>3, <2>3, <3>1
    <3>3. Null - m <= j
      BY <3>1, KeyIsNumber
    <3>4. Right(m)
      BY <1>5, <3>3
    <3>5. {k \in S : n < k} = {m} \cup {k \in S : m < k}
      BY <2>1, <3>1, KeyIsNumber
    <3>6. /\ <<m>> \o f[m] \in Seq(Keys) /\ Ascends(<<m>> \o f[m])
          /\ Range(<<m>> \o f[m]) = {m} \cup Range(f[m])
      <4>1. Keys \in SUBSET Int /\ m \in Keys /\ \A y \in Range(f[m]) : m < y
        BY <3>4, KeyIsNumber
      <4> QED
        BY <3>4, <4>1, InFront
    <3> QED
      BY <3>2, <3>4, <3>5, <3>6
  <2> QED
    BY <2>2, <2>3
<1>6. Null + 1 \in T
  <2> HIDE DEF T
  <2>1. Nat \subseteq T
    BY <1>4, <1>5, StepByStep
  <2> QED
    BY <2>1, KeyIsNumber
<1>7. Right(Header)
  BY <1>6, KeyIsNumber DEF Header
<1>8. {k \in S : Header < k} = S
  BY KeyIsNumber
<1> QED
  BY <1>1, <1>7, <1>8
-----------------------------------------------------------------------------
(* The list: types.                                                        *)

LEMMA InitList_ == Init => ListInv
<1> SUFFICES ASSUME Init PROVE ListInv
  OBVIOUS
<1> USE DEF Init, InitList, NoWriter, Idle
<1>1. TypeOK
  <2>1. 0 \in Levels
    BY ListAssumption DEF Levels
  <2>2. /\ forward \in [Keys \cup {Header} -> [Levels -> Keys \cup {Null}]]
        /\ level \in [Keys -> Levels] /\ value \in [Keys -> Values] /\ live \subseteq Keys
        /\ curLevel \in Levels /\ elementCount \in Int /\ writer \in Writer
    BY <2>1, ListAssumption DEF Writer
  <2>3. /\ reader \in Walker({"idle", "walk", "last", "done", "undefined"})
        /\ dumper \in [Dumpers -> Walker({"idle", "walk", "undefined"})]
    BY <2>1 DEF Walker
  <2>4. <<>> \in Text
    BY DEF Text
  <2>5. lastPair \in Text \X Text
    BY <2>4
  <2> QED
    BY <2>2, <2>3, <2>5, ListAssumption DEF TypeOK
<1>2. Handled = {} /\ \A i \in Levels : Members(i) = {}
  BY DEF Handled, Members
<1>3. Upwards
  BY <1>2, KeyIsNumber DEF Upwards
<1>4. NonePassed /\ Bare
  BY <1>2 DEF NonePassed, PassesNone, Bare
<1>5. WriterIsRight /\ LevelsAreBounded
  BY <1>2 DEF WriterIsRight, LevelsAreBounded
<1>6. Counted
  BY FS_EmptySet DEF Counted
<1> QED
  BY <1>1, <1>3, <1>4, <1>5, <1>6 DEF ListInv

LEMMA Chains ==
  ASSUME ListInv, NEW i \in Levels
  PROVE  Chain(i) \in Seq(Keys) /\ Ascends(Chain(i)) /\ Range(Chain(i)) = Members(i)
<1>1. /\ forward \in Pointers /\ Members(i) \in SUBSET Keys /\ Rises(forward, i)
      /\ \A n \in Keys \cup {Header} : forward[n][i] \in Members(i) \cup {Null}
      /\ PassesNone(forward, Members(i), i)
  BY DEF ListInv, TypeOK, Pointers, Members, Rises, Upwards, NonePassed
<1> QED
  BY <1>1, ChainIs DEF Chain

\* The same of the list a step leaves behind.
LEMMA ChainsNext ==
  ASSUME ListInv', NEW i \in Levels
  PROVE  ChainOf(forward', i) \in Seq(Keys) /\ Range(ChainOf(forward', i)) = Members(i)'
<1>1. /\ forward' \in Pointers /\ Members(i)' \in SUBSET Keys /\ Rises(forward', i)
      /\ \A n \in Keys \cup {Header} : forward'[n][i] \in Members(i)' \cup {Null}
      /\ PassesNone(forward', Members(i)', i)
  BY DEF ListInv, TypeOK, Pointers, Members, Rises, Upwards, NonePassed
<1> QED
  BY <1>1, ChainIs

LEMMA ZeroLevel == 0 \in Levels /\ MaxLevel \in Levels /\ Levels \subseteq Nat
  BY ListAssumption DEF Levels

LEMMA IdleMembers ==
  ASSUME ListInv, writer = NoWriter
  PROVE  /\ Handled = {} /\ \A i \in Levels : Members(i) = {k \in live : level[k] >= i}
         /\ Members(0) = live
<1>1. Handled = {} /\ \A i \in Levels : Members(i) = {k \in live : level[k] >= i}
  BY DEF Handled, Members, NoWriter
<1>2. \A k \in live : level[k] >= 0
  <2>1. \A k \in live : level[k] \in Nat
    BY ZeroLevel DEF ListInv, TypeOK
  <2> QED
    BY <2>1
<1> QED
  BY <1>1, <1>2, ZeroLevel

LEMMA UpdateIs ==
  ASSUME ListInv, writer = NoWriter, NEW key \in Keys
  PROVE  /\ Update(key) \in [Levels -> Keys \cup {Header}]
         /\ \A i \in Levels : Precedes(Update(key)[i], Members(i), key)
<1> SUFFICES ASSUME NEW i \in Levels
             PROVE  /\ Update(key)[i] \in Keys \cup {Header}
                    /\ Precedes(Update(key)[i], Members(i), key)
  BY DEF Update
<1>1. Members(i) \subseteq Keys
  BY DEF Members, ListInv, TypeOK
<1>2. CASE i > curLevel
  <2>1. Update(key)[i] = Header
    BY <1>2 DEF Update
  <2>2. Members(i) = {}
    <3> SUFFICES ASSUME NEW k \in live, level[k] >= i PROVE FALSE
      BY IdleMembers
    <3>1. level[k] <= curLevel
      BY DEF ListInv, LevelsAreBounded
    <3>2. level[k] \in Nat /\ i \in Nat /\ curLevel \in Nat
      BY ZeroLevel DEF ListInv, TypeOK
    <3> QED
      BY <1>2, <3>1, <3>2
  <2> QED
    BY <2>1, <2>2, KeyIsNumber DEF Precedes
<1>3. CASE ~(i > curLevel)
  <2> DEFINE B == {Header} \cup {k \in Members(i) : k < key}
  <2>1. Update(key)[i] = Max(B)
    BY <1>3, Chains DEF Update
  <2>2. B \in SUBSET (-1 .. Null) /\ B # {}
    BY <1>1, KeyIsNumber DEF Header
  <2>3. Max(B) \in B /\ \A x \in B : x <= Max(B)
    <3> HIDE DEF B
    <3> QED
      BY <2>2, MaxIs, KeyIsNumber
  <2> QED
    BY <1>1, <2>1, <2>3, KeyIsNumber DEF Precedes
<1> QED
  BY <1>2, <1>3

\* What InsertElement starts with when the key is not in the list.
StartsInsert(key) ==
    /\ key \notin live
    /\ \E randomLevel \in Levels :
          /\ writer' = [op |-> "insert", key |-> key, update |-> Update(key), at |-> 0]
          /\ curLevel' = IF randomLevel > curLevel THEN randomLevel ELSE curLevel
          /\ level' = [level EXCEPT ![key] = randomLevel]
          /\ live' = live \cup {key}
          /\ forward' = [forward EXCEPT ![key] = [i \in Levels |-> Null]]
    /\ UNCHANGED elementCount

LEMMA ExistsIs ==
  ASSUME ListInv, writer = NoWriter, NEW key
  PROVE  Exists(key) <=> key \in live
  BY Chains, IdleMembers, ZeroLevel DEF Exists

LEMMA InsertIs ==
  ASSUME ListInv, NEW key \in Keys, NEW v, InsertElement(key, v)
  PROVE  /\ writer = NoWriter
         /\ \/ UNCHANGED <<forward, level, live, curLevel, writer, elementCount>>
            \/ StartsInsert(key)
  BY ExistsIs DEF InsertElement, StartsInsert

LEMMA Finite ==
  ASSUME TypeOK
  PROVE  IsFiniteSet(live) /\ Cardinality(live) \in Nat
<1>1. live \subseteq 0 .. Null - 1 /\ 0 \in Int /\ Null - 1 \in Int
  BY ListAssumption DEF TypeOK
<1>2. IsFiniteSet(0 .. Null - 1)
  BY <1>1, FS_Interval
<1> QED
  BY <1>1, <1>2, FS_Subset, FS_CardinalityType

LEMMA StartInsertKeeps ==
  ASSUME ListInv, TypeOK', writer = NoWriter, NEW key \in Keys, StartsInsert(key)
  PROVE  ListInv'
<1>1. PICK h \in Levels :
          /\ writer' = [op |-> "insert", key |-> key, update |-> Update(key), at |-> 0]
          /\ curLevel' = IF h > curLevel THEN h ELSE curLevel
          /\ level' = [level EXCEPT ![key] = h]
          /\ live' = live \cup {key}
          /\ forward' = [forward EXCEPT ![key] = [i \in Levels |-> Null]]
  BY DEF StartsInsert
<1>2. key \notin live /\ elementCount' = elementCount
  BY DEF StartsInsert
<1>3. /\ forward \in Pointers /\ level \in [Keys -> Levels] /\ live \subseteq Keys
      /\ curLevel \in Nat /\ h \in Nat /\ \A i \in Levels : i \in Nat
  BY ZeroLevel DEF ListInv, TypeOK, Pointers
<1>4. /\ writer'.op = "insert" /\ writer'.key = key /\ writer'.at = 0
      /\ writer'.update = Update(key)
  BY <1>1
<1>5. Handled = {} /\ Handled' = {key}
  BY <1>4, IdleMembers DEF Handled
<1>6. \A k \in live : level'[k] = level[k] /\ k # key
  BY <1>1, <1>2, <1>3
<1>7. ASSUME NEW i \in Levels PROVE Members(i)' = Members(i)
  <2>1. i >= 0 /\ ~(i < 0)
    BY <1>3
  <2>2. Members(i)' = {k \in live : level'[k] >= i}
    BY <1>1, <1>4, <1>6, <2>1 DEF Members
  <2> QED
    BY <1>6, <2>2, IdleMembers
<1>8. /\ forward'[key] = [i \in Levels |-> Null]
      /\ \A n \in Keys \cup {Header} : n # key => forward'[n] = forward[n]
  BY <1>1, <1>3 DEF Pointers
<1>9. Upwards'
  <2> SUFFICES ASSUME NEW i \in Levels, NEW n \in Keys \cup {Header}
               PROVE  forward'[n][i] \in Members(i)' \cup {Null} /\ n < forward'[n][i]
    BY DEF Upwards
  <2>1. CASE n = key
    BY <1>8, <2>1, KeyIsNumber
  <2>2. CASE n # key
    BY <1>7, <1>8, <2>2 DEF ListInv, Upwards
  <2> QED
    BY <2>1, <2>2
<1>10. NonePassed'
  <2> SUFFICES ASSUME NEW i \in Levels PROVE PassesNone(forward', Members(i), i)
    BY <1>7 DEF NonePassed
  <2>1. \A n \in Members(i) \cup {Header} : n \in Keys \cup {Header} /\ n # key
    BY <1>2, <1>3, KeyIsNumber DEF Members
  <2> QED
    BY <1>8, <2>1 DEF ListInv, NonePassed, PassesNone
<1>11. Bare'
  BY <1>5, <1>7, <1>8, KeyIsNumber DEF ListInv, Bare
<1>12. WriterIsRight'
  <2>1. \A i \in Levels : Precedes(Update(key)[i], Members(i)', key)
    BY <1>7, UpdateIs
  <2>2. level'[key] = h /\ 0 <= h
    BY <1>1, <1>3
  <2> QED
    BY <1>1, <1>4, <1>5, <1>8, <2>1, <2>2, UpdateIs DEF WriterIsRight
<1>13. LevelsAreBounded'
  <2> SUFFICES ASSUME NEW k \in live' PROVE level'[k] <= curLevel'
    BY DEF LevelsAreBounded
  <2>1. CASE k = key
    BY <1>1, <1>3, <2>1
  <2>2. CASE k # key
    <3>1. level'[k] = level[k] /\ level[k] <= curLevel /\ level[k] \in Nat
      BY <1>1, <1>3, <2>2 DEF ListInv, LevelsAreBounded
    <3> QED
      BY <1>1, <1>3, <3>1
  <2> QED
    BY <2>1, <2>2
<1>14. Counted'
  <2>1. Cardinality(live') = Cardinality(live) + 1
    BY <1>1, <1>2, Finite, FS_AddElement DEF ListInv
  <2>2. Cardinality(live) = elementCount
    BY Finite DEF ListInv, Counted, NoWriter, TypeOK
  <2> QED
    BY <1>2, <1>4, <2>1, <2>2 DEF Counted
<1> QED
  BY <1>9, <1>10, <1>11, <1>12, <1>13, <1>14 DEF ListInv

LEMMA LinkKeeps ==
  ASSUME ListInv, TypeOK', Link
  PROVE  ListInv'
<1> DEFINE key == writer.key
           j == writer.at
           b == writer.update[j]
<1>1. /\ writer.op = "insert" /\ key \in live /\ key \in Keys /\ j \in Levels
      /\ Precedes(b, Members(j), key) /\ j <= level[key] /\ Handled = {key}
      /\ \A i \in Levels : j <= i => forward[key][i] = Null /\ Precedes(writer.update[i], Members(i), key)
      /\ writer.update \in [Levels -> Keys \cup {Header}]
  <2>1. writer.op = "insert" /\ writer \in Writer /\ WriterIsRight /\ live \subseteq Keys
    BY DEF Link, ListInv, TypeOK
  <2>2. Handled = {key} /\ key \in live /\ key \in Keys /\ j \in Levels
    BY <2>1 DEF WriterIsRight, Handled, Writer
  <2>3. \A i \in Levels : j <= i => forward[key][i] = Null /\ Precedes(writer.update[i], Members(i), key)
    BY <2>1 DEF WriterIsRight
  <2>4. j <= j
    <3>1. j \in Nat
      BY <2>2, ZeroLevel
    <3> QED
      BY <3>1
  <2>5. writer.update \in [Levels -> Keys \cup {Header}] /\ j <= level[key]
    BY <2>1 DEF WriterIsRight
  <2> QED
    BY <2>1, <2>2, <2>3, <2>4, <2>5
<1>2. /\ forward \in Pointers /\ level \in [Keys -> Levels] /\ live \subseteq Keys
      /\ \A i \in Levels : i \in Nat /\ Members(i) \subseteq Keys
      /\ b \in Keys \cup {Header} /\ b < key /\ b # key /\ b \in Int
  <2>1. /\ forward \in Pointers /\ level \in [Keys -> Levels] /\ live \subseteq Keys
        /\ \A i \in Levels : i \in Nat /\ Members(i) \subseteq Keys
    BY ZeroLevel DEF ListInv, TypeOK, Pointers, Members
  <2>2. b \in Keys \cup {Header} /\ b < key
    BY <1>1 DEF Precedes
  <2>3. b \in Int /\ key \in Int
    BY <1>1, <2>2, KeyIsNumber
  <2> QED
    BY <2>1, <2>2, <2>3
<1>3. forward' = [forward EXCEPT ![key][j] = forward[b][j], ![b][j] = key]
  BY DEF Link, Linked
<1>4. /\ forward'[key][j] = forward[b][j] /\ forward'[b][j] = key
      /\ \A n \in Keys \cup {Header}, i \in Levels :
            i # j \/ n \notin {key, b} => forward'[n][i] = forward[n][i]
  BY <1>1, <1>2, <1>3 DEF Pointers
<1>5. UNCHANGED <<level, live, curLevel>>
  BY DEF Link
<1>6. \/ j = level[key] /\ writer' = NoWriter /\ elementCount' = elementCount + 1
      \/ /\ j < level[key] /\ elementCount' = elementCount
         /\ writer'.op = "insert" /\ writer'.key = key /\ writer'.at = j + 1
         /\ writer'.update = writer.update
  <2>1. j \in Nat /\ level[key] \in Nat
    BY <1>1, <1>2
  <2> QED
    BY <1>1, <2>1 DEF Link, ListInv, TypeOK, Writer
<1>7. key \notin Members(j) /\ \A i \in Levels : j <= i => key \notin Members(i)
  BY <1>1, <1>2 DEF Members
<1> HIDE DEF key, j, b
<1>8. ASSUME NEW i \in Levels
      PROVE  Members(i)' = IF i = j THEN Members(i) \cup {key} ELSE Members(i)
  <2>1. i \in Nat /\ j \in Nat /\ level[key] \in Nat
    BY <1>1, <1>2
  <2>2. Members(i) = {k \in live : level[k] >= i /\ ~(k = key /\ i >= j)}
    BY <1>1 DEF Members, key, j
  <2>3. Members(i)' = {k \in live : level[k] >= i /\ ~(k = key /\ i >= j /\ i # j)}
    <3>1. CASE j = level[key] /\ writer' = NoWriter
      <4>1. Members(i)' = {k \in live : level[k] >= i}
        BY <1>5, <3>1 DEF Members, NoWriter
      <4>2. level[key] >= i => ~(i >= j /\ i # j)
        BY <2>1, <3>1
      <4> QED
        BY <4>1, <4>2
    <3>2. CASE ~(j = level[key] /\ writer' = NoWriter)
      <4>1. Members(i)' = {k \in live : level[k] >= i /\ ~(k = key /\ i >= j + 1)}
        BY <1>5, <1>6, <3>2 DEF Members
      <4>2. i >= j + 1 <=> i >= j /\ i # j
        BY <2>1
      <4> QED
        BY <4>1, <4>2
    <3> QED
      BY <3>1, <3>2
  <2>4. CASE i = j
    <3>1. Members(i)' = {k \in live : level[k] >= i}
      BY <2>3, <2>4
    <3>2. level[key] >= i /\ key \in live
      BY <1>1, <2>1, <2>4 DEF key, j
    <3>3. Members(i) = {k \in live : level[k] >= i} \ {key}
      BY <2>1, <2>2, <2>4
    <3> QED
      BY <2>4, <3>1, <3>2, <3>3
  <2>5. CASE i # j
    BY <2>2, <2>3, <2>5
  <2> QED
    BY <2>4, <2>5
<1>9. /\ b \in Members(j) \cup {Header} /\ \A k \in Members(j) : k < key => k <= b
      /\ \A n \in Members(j) \cup {Header} : \A k \in Members(j) : k <= n \/ forward[n][j] <= k
      /\ \A n \in Keys \cup {Header} : forward[n][j] \in Members(j) \cup {Null} /\ n < forward[n][j]
  BY <1>1 DEF Precedes, ListInv, NonePassed, PassesNone, Upwards, key, j, b
<1>10. key < forward[b][j]
  <2>1. CASE forward[b][j] = Null
    BY <1>1, <2>1, KeyIsNumber DEF key
  <2>2. CASE forward[b][j] # Null
    <3>1. forward[b][j] \in Members(j) /\ b < forward[b][j] /\ forward[b][j] # key
      BY <1>2, <1>7, <1>9, <2>2
    <3>2. PICK x \in Members(j) : x = forward[b][j]
      BY <3>1
    <3>3. x \in Int /\ key \in Int /\ b \in Int
      <4>1. x \in Keys /\ key \in Keys /\ b \in Keys \cup {Header}
        BY <1>1, <1>2
      <4> QED
        BY <4>1, KeyIsNumber
    <3>4. ~(x < key)
      BY <1>9, <3>1, <3>2, <3>3
    <3> QED
      BY <3>1, <3>2, <3>3, <3>4
  <2> QED
    BY <2>1, <2>2
<1>11. Upwards'
  <2> SUFFICES ASSUME NEW i \in Levels, NEW n \in Keys \cup {Header}
               PROVE  forward'[n][i] \in Members(i)' \cup {Null} /\ n < forward'[n][i]
    BY DEF Upwards
  <2>1. CASE i = j /\ n = key
    BY <1>2, <1>4, <1>8, <1>9, <1>10, <2>1
  <2>2. CASE i = j /\ n = b
    BY <1>2, <1>4, <1>8, <2>2
  <2>3. CASE i # j \/ n \notin {key, b}
    <3>1. forward[n][i] \in Members(i) \cup {Null} /\ n < forward[n][i]
      BY DEF ListInv, Upwards
    <3> QED
      BY <1>4, <1>8, <2>3, <3>1
  <2> QED
    BY <2>1, <2>2, <2>3
<1>12. NonePassed'
  <2> SUFFICES ASSUME NEW i \in Levels, NEW n \in Members(i)' \cup {Header}, NEW k \in Members(i)'
               PROVE  k <= n \/ forward'[n][i] <= k
    BY DEF NonePassed, PassesNone
  <2>1. CASE i # j
    <3>1. n \in Members(i) \cup {Header} /\ k \in Members(i) /\ n \in Keys \cup {Header}
      BY <1>2, <1>8, <2>1
    <3>2. k <= n \/ forward[n][i] <= k
      BY <3>1 DEF ListInv, NonePassed, PassesNone
    <3> QED
      BY <1>4, <2>1, <3>1, <3>2
  <2>2. CASE i = j
    <3>1. /\ n \in Members(j) \cup {key, Header} /\ k \in Members(j) \cup {key}
          /\ n \in Keys \cup {Header} /\ k \in Keys /\ key \in Keys
      BY <1>1, <1>2, <1>8, <2>2 DEF key, j
    <3>2. n \in Int /\ k \in Int /\ key \in Int /\ b \in Int
      BY <1>2, <3>1, KeyIsNumber
    <3>3. CASE n = key
      <4>1. CASE k = key
        BY <3>2, <3>3, <4>1
      <4>2. CASE k # key
        <5>1. k \in Members(j) /\ (k <= b \/ forward[b][j] <= k)
          BY <1>9, <3>1, <4>2
        <5> QED
          BY <1>2, <1>4, <2>2, <3>2, <3>3, <5>1
      <4> QED
        BY <4>1, <4>2
    <3>4. CASE n = b
      <4>1. forward'[n][i] = key
        BY <1>4, <2>2, <3>4
      <4>2. CASE k = key
        BY <3>2, <4>1, <4>2
      <4>3. CASE k # key
        BY <1>9, <3>1, <3>2, <3>4, <4>1, <4>3
      <4> QED
        BY <4>2, <4>3
    <3>5. CASE n # key /\ n # b
      <4>1. forward'[n][i] = forward[n][j] /\ n \in Members(j) \cup {Header}
        BY <1>2, <1>4, <2>2, <3>1, <3>5
      <4>2. CASE k \in Members(j)
        BY <1>9, <4>1, <4>2
      <4>3. CASE k = key /\ n < key
        <5>1. n <= b /\ n < b
          <6>1. n <= b
            BY <1>2, <1>9, <4>1, <4>3, KeyIsNumber
          <6> QED
            BY <3>2, <3>5, <6>1
        <5>2. b \in Members(j) /\ b \in Keys
          BY <1>2, <1>9, <3>1, <5>1, KeyIsNumber
        <5>3. forward[n][j] <= b
          BY <1>9, <3>2, <4>1, <5>1, <5>2
        <5>4. forward[n][j] \in Int
          <6>1. forward[n][j] \in Members(j) \cup {Null} /\ Members(j) \subseteq Keys
            BY <1>1, <1>2, <1>9, <3>1
          <6> QED
            BY <6>1, KeyIsNumber
        <5> QED
          BY <1>2, <3>2, <4>1, <4>3, <5>3, <5>4
      <4> QED
        BY <3>1, <3>2, <4>2, <4>3
    <3> QED
      BY <3>3, <3>4, <3>5
  <2> QED
    BY <2>1, <2>2
<1>13. Bare'
  <2> SUFFICES ASSUME NEW i \in Levels, NEW n \in Keys, n \notin Members(i)' \cup Handled'
               PROVE  forward'[n][i] = Null
    BY DEF Bare
  <2>1. n \notin Members(i)
    BY <1>8
  <2>2. CASE n # key
    <3>1. forward[n][i] = Null
      BY <1>1, <2>1, <2>2 DEF ListInv, Bare, key
    <3>2. i # j \/ n \notin {key, b}
      BY <1>9, <2>1, <2>2, KeyIsNumber
    <3> QED
      BY <1>4, <3>1, <3>2
  <2>3. CASE n = key
    <3>1. j = level[key] /\ writer' = NoWriter
      BY <1>6, <2>3 DEF Handled
    <3>2. i # j
      BY <1>8, <2>3
    <3>3. j <= i
      <4>1. Members(i)' = {k \in live : level[k] >= i}
        BY <1>5, <3>1 DEF Members, NoWriter
      <4>2. ~(level[key] >= i)
        BY <1>1, <2>3, <4>1 DEF key
      <4> QED
        BY <1>1, <1>2, <3>1, <4>2 DEF key, j
    <3>4. forward[key][i] = Null
      BY <1>1, <3>3 DEF key, j
    <3> QED
      BY <1>4, <2>3, <3>2, <3>4
  <2> QED
    BY <2>2, <2>3
<1>14. WriterIsRight'
  <2>1. CASE j = level[key] /\ writer' = NoWriter
    BY <2>1 DEF WriterIsRight, NoWriter, Handled
  <2>2. CASE ~(j = level[key] /\ writer' = NoWriter)
    <3>1. /\ j < level[key] /\ writer'.op = "insert" /\ writer'.key = key
          /\ writer'.at = j + 1 /\ writer'.update = writer.update
      BY <1>6, <2>2
    <3>2. j \in Nat /\ level[key] \in Nat /\ \A i \in Levels : i \in Nat
      BY <1>1, <1>2 DEF key, j
    <3>3. ASSUME NEW i \in Levels, j + 1 <= i
          PROVE  Precedes(writer.update[i], Members(i)', key) /\ forward'[key][i] = Null
      <4>1. j <= i /\ i # j
        BY <3>2, <3>3
      <4>2. Members(i)' = Members(i)
        BY <1>8, <4>1
      <4>3. Precedes(writer.update[i], Members(i), key) /\ forward[key][i] = Null
        BY <1>1, <4>1 DEF key, j
      <4>4. key \in Keys
        BY <1>1 DEF key
      <4> QED
        BY <1>4, <4>1, <4>2, <4>3, <4>4
    <3>4. j + 1 <= level[key]
      BY <3>1, <3>2
    <3>5. Handled' = {key} /\ key \in live'
      BY <1>1, <1>5, <3>1 DEF Handled, key
    <3> QED
      BY <1>1, <1>5, <3>1, <3>3, <3>4, <3>5 DEF WriterIsRight
  <2> QED
    BY <2>1, <2>2
<1>15. LevelsAreBounded'
  BY <1>5 DEF ListInv, LevelsAreBounded
<1>16. Counted'
  <2>1. Cardinality(live) = elementCount + 1 /\ elementCount \in Int
    BY <1>1 DEF ListInv, Counted, TypeOK
  <2>2. CASE j = level[key] /\ writer' = NoWriter
    <3>1. elementCount' = elementCount + 1
      BY <1>1, <1>2, <1>6, <2>2 DEF key, j
    <3> QED
      BY <1>5, <2>1, <2>2, <3>1 DEF Counted, NoWriter
  <2>3. CASE ~(j = level[key] /\ writer' = NoWriter)
    BY <1>5, <1>6, <2>1, <2>3 DEF Counted
  <2> QED
    BY <2>2, <2>3
<1> QED
  BY <1>11, <1>12, <1>13, <1>14, <1>15, <1>16 DEF ListInv

LEMMA StartDeleteKeeps ==
  ASSUME ListInv, TypeOK', NEW key \in Keys, DeleteElement(key)
  PROVE  ListInv'
<1>1. /\ writer = NoWriter /\ key \in live
      /\ writer' = [op |-> "delete", key |-> key, update |-> Update(key), at |-> 0]
      /\ UNCHANGED <<forward, level, live, curLevel, elementCount>>
  BY ExistsIs DEF DeleteElement, list
<1>2. /\ writer'.op = "delete" /\ writer'.key = key /\ writer'.at = 0
      /\ writer'.update = Update(key) /\ writer.op = "none"
  BY <1>1 DEF NoWriter
<1>3. Handled = {} /\ Handled' = {key}
  BY <1>1, <1>2, IdleMembers DEF Handled
<1>4. \A i \in Levels : Members(i)' = Members(i)
  <2>1. \A i \in Levels : ~(i < 0)
    <3>1. \A i \in Levels : i \in Nat
      BY ZeroLevel
    <3> QED
      BY <3>1
  <2> QED
    BY <1>1, <1>2, <2>1 DEF Members
<1>5. Upwards' /\ NonePassed' /\ Bare'
  BY <1>1, <1>3, <1>4 DEF ListInv, Upwards, NonePassed, PassesNone, Bare
<1>6. WriterIsRight'
  BY <1>1, <1>2, <1>3, <1>4, UpdateIs DEF WriterIsRight
<1>7. LevelsAreBounded' /\ Counted'
  BY <1>1, <1>2 DEF ListInv, LevelsAreBounded, Counted
<1> QED
  BY <1>5, <1>6, <1>7 DEF ListInv

LEMMA UnlinkKeeps ==
  ASSUME ListInv, TypeOK', Unlink
  PROVE  ListInv'
<1> DEFINE key == writer.key
           j == writer.at
           b == writer.update[j]
<1>1. /\ writer.op = "delete" /\ key \in live /\ key \in Keys /\ j \in Levels
      /\ Precedes(b, Members(j), key) /\ Handled = {key}
      /\ \A i \in Levels : j <= i => Precedes(writer.update[i], Members(i), key)
      /\ writer.update \in [Levels -> Keys \cup {Header}]
  <2>1. writer.op = "delete" /\ writer \in Writer /\ WriterIsRight /\ live \subseteq Keys
    BY DEF Unlink, ListInv, TypeOK
  <2>2. Handled = {key} /\ key \in live /\ key \in Keys /\ j \in Levels
    BY <2>1 DEF WriterIsRight, Handled, Writer
  <2>3. \A i \in Levels : j <= i => Precedes(writer.update[i], Members(i), key)
    BY <2>1 DEF WriterIsRight
  <2>4. j <= j
    <3>1. j \in Nat
      BY <2>2, ZeroLevel
    <3> QED
      BY <3>1
  <2>5. writer.update \in [Levels -> Keys \cup {Header}]
    BY <2>1 DEF WriterIsRight
  <2> QED
    BY <2>1, <2>2, <2>3, <2>4, <2>5
<1>2. /\ forward \in Pointers /\ level \in [Keys -> Levels] /\ live \subseteq Keys
      /\ \A i \in Levels : i \in Nat /\ Members(i) \subseteq Keys
      /\ b \in Keys \cup {Header} /\ b < key /\ b # key /\ b \in Int /\ key \in Int
      /\ curLevel \in Nat
  <2>1. /\ forward \in Pointers /\ level \in [Keys -> Levels] /\ live \subseteq Keys
        /\ (\A i \in Levels : i \in Nat /\ Members(i) \subseteq Keys) /\ curLevel \in Nat
    BY ZeroLevel DEF ListInv, TypeOK, Pointers, Members
  <2>2. b \in Keys \cup {Header} /\ b < key
    BY <1>1 DEF Precedes
  <2>3. b \in Int /\ key \in Int
    BY <1>1, <2>2, KeyIsNumber
  <2> QED
    BY <2>1, <2>2, <2>3
<1>3. UNCHANGED <<level, live, curLevel, elementCount>>
  BY DEF Unlink
<1>4. /\ b \in Members(j) \cup {Header} /\ \A k \in Members(j) : k < key => k <= b
      /\ \A n \in Members(j) \cup {Header} : \A k \in Members(j) : k <= n \/ forward[n][j] <= k
      /\ \A n \in Keys \cup {Header} : forward[n][j] \in Members(j) \cup {Null} /\ n < forward[n][j]
  BY <1>1 DEF Precedes, ListInv, NonePassed, PassesNone, Upwards
<1>5. \A i \in Levels : Members(i) = {k \in live : level[k] >= i /\ ~(k = key /\ i < j)}
  BY <1>1 DEF Members
<1>6. CASE ToUnlink(writer)
  <2>1. /\ forward[b][j] = key
        /\ forward' = [forward EXCEPT ![b][j] = forward[key][j]]
        /\ writer' = [writer EXCEPT !.op = IF j = MaxLevel THEN "free" ELSE @,
                                     !.at = IF j = MaxLevel THEN @ ELSE @ + 1]
    BY <1>6 DEF Unlink, ToUnlink
  <2>2. /\ writer'.key = key /\ writer'.update = writer.update
        /\ \/ j = MaxLevel /\ writer'.op = "free"
           \/ j # MaxLevel /\ writer'.op = "delete" /\ writer'.at = j + 1
    <3>1. writer \in Writer
      BY DEF ListInv, TypeOK
    <3> QED
      BY <1>1, <2>1, <3>1 DEF Writer
  <2>3. /\ forward'[b][j] = forward[key][j]
        /\ \A n \in Keys \cup {Header}, i \in Levels : i # j \/ n # b => forward'[n][i] = forward[n][i]
    BY <1>1, <1>2, <2>1 DEF Pointers
  <2>4. Handled' = {key}
    BY <2>2 DEF Handled
  <2>5. ASSUME NEW i \in Levels
        PROVE  Members(i)' = IF i = j THEN Members(i) \ {key} ELSE Members(i)
    <3>1. i \in Nat /\ j \in Nat /\ MaxLevel \in Nat /\ i <= MaxLevel
      BY <1>1, <1>2, ListAssumption DEF Levels
    <3>2. Members(i)' = {k \in live : level[k] >= i /\ ~(k = key /\ i <= j)}
      <4>1. CASE j = MaxLevel /\ writer'.op = "free"
        <5>1. i <= j
          BY <3>1, <4>1
        <5> QED
          BY <1>3, <2>2, <4>1, <5>1 DEF Members
      <4>2. CASE j # MaxLevel /\ writer'.op = "delete" /\ writer'.at = j + 1
        <5>1. i < j + 1 <=> i <= j
          BY <3>1
        <5> QED
          BY <1>3, <2>2, <4>2, <5>1 DEF Members
      <4> QED
        BY <2>2, <4>1, <4>2
    <3>3. CASE i = j
      <4>1. ~(i < j) /\ i <= j
        BY <3>1, <3>3
      <4> QED
        BY <1>5, <3>2, <3>3, <4>1
    <3>4. CASE i # j
      <4>1. i < j <=> i <= j
        BY <3>1, <3>4
      <4> QED
        BY <1>5, <3>2, <3>4, <4>1
    <3> QED
      BY <3>3, <3>4
  <2> HIDE DEF key, j, b
  <2>6. key \in Keys /\ j \in Levels /\ Members(j) \subseteq Keys /\ b \in Int
    BY <1>1, <1>2 DEF key, j
  <2>7. key \in Members(j)
    <3>1. key # Null
      BY <2>6, KeyIsNumber
    <3> QED
      BY <1>2, <1>4, <2>1, <3>1
  <2>8. ASSUME NEW n \in Keys \cup {Header}, forward[n][j] = key PROVE n = b
    <3>1. n \in Int /\ key \in Int /\ n < key
      BY <1>4, <2>6, <2>8, KeyIsNumber
    <3>2. n \in Members(j) \cup {Header}
      <4> SUFFICES ASSUME n \notin Members(j), n # Header PROVE FALSE
        OBVIOUS
      <4>1. n \notin Handled
        BY <1>1, <3>1 DEF key
      <4>2. forward[n][j] = Null
        BY <2>6, <4>1 DEF ListInv, Bare
      <4> QED
        BY <2>6, <2>8, <4>2, KeyIsNumber
    <3>3. n <= b
      BY <1>2, <1>4, <2>6, <3>1, <3>2, KeyIsNumber
    <3>4. CASE n < b
      <4>1. b \in Members(j)
        BY <1>4, <3>1, <3>4, <2>6, KeyIsNumber
      <4>2. forward[n][j] <= b
        BY <1>4, <2>6, <3>1, <3>2, <3>4, <4>1
      <4> QED
        BY <1>2, <2>6, <2>8, <3>1, <4>2
    <3> QED
      BY <2>6, <3>1, <3>3, <3>4
  <2>9. forward[key][j] \in (Members(j) \ {key}) \cup {Null} /\ b < forward[key][j]
    <3>1. forward[key][j] \in Members(j) \cup {Null} /\ key < forward[key][j]
      BY <1>4, <2>6
    <3>2. forward[key][j] \in Int /\ key \in Int
      BY <2>6, <3>1, KeyIsNumber
    <3> QED
      BY <1>2, <2>6, <3>1, <3>2
  <2>10. Upwards'
    <3> SUFFICES ASSUME NEW i \in Levels, NEW n \in Keys \cup {Header}
                 PROVE  forward'[n][i] \in Members(i)' \cup {Null} /\ n < forward'[n][i]
      BY DEF Upwards
    <3>1. forward[n][i] \in Members(i) \cup {Null} /\ n < forward[n][i]
      BY DEF ListInv, Upwards
    <3>2. CASE i = j /\ n = b
      BY <2>3, <2>5, <2>9, <3>2
    <3>3. CASE i = j /\ n # b
      <4>1. forward[n][i] # key
        BY <2>8, <3>3
      <4> QED
        BY <2>3, <2>5, <3>1, <3>3, <4>1
    <3>4. CASE i # j
      BY <2>3, <2>5, <3>1, <3>4
    <3> QED
      BY <3>2, <3>3, <3>4
  <2>11. NonePassed'
    <3> SUFFICES ASSUME NEW i \in Levels, NEW n \in Members(i)' \cup {Header}, NEW k \in Members(i)'
                 PROVE  k <= n \/ forward'[n][i] <= k
      BY DEF NonePassed, PassesNone
    <3>1. n \in Members(i) \cup {Header} /\ k \in Members(i) /\ n \in Keys \cup {Header}
      BY <1>2, <2>5
    <3>2. k <= n \/ forward[n][i] <= k
      BY <3>1 DEF ListInv, NonePassed, PassesNone
    <3>3. CASE i # j \/ n # b
      BY <2>3, <3>1, <3>2, <3>3
    <3>4. CASE i = j /\ n = b
      <4>1. k # key /\ k \in Int /\ key \in Int
        BY <2>5, <2>6, <3>1, <3>4, KeyIsNumber
      <4>2. key \in Members(j) \cup {Header} /\ (k <= key \/ forward[key][j] <= k)
        BY <1>4, <2>7, <3>1, <3>4
      <4>3. k <= b \/ key <= k
        BY <2>1, <3>2, <3>4
      <4> QED
        BY <2>3, <3>4, <4>1, <4>2, <4>3
    <3> QED
      BY <3>3, <3>4
  <2>12. Bare'
    <3> SUFFICES ASSUME NEW i \in Levels, NEW n \in Keys, n \notin Members(i)' \cup {key}
                 PROVE  forward'[n][i] = Null
      BY <2>4 DEF Bare
    <3>1. n \notin Members(i) \cup Handled
      BY <1>1, <2>5 DEF key
    <3>2. forward[n][i] = Null
      BY <3>1 DEF ListInv, Bare
    <3>3. i # j \/ n # b
      BY <1>4, <3>1, KeyIsNumber
    <3> QED
      BY <2>3, <3>2, <3>3
  <2>13. WriterIsRight'
    <3>1. Handled' \subseteq live' /\ writer'.op # "insert"
      BY <1>1, <1>3, <2>2, <2>4 DEF key
    <3>2. ASSUME NEW i \in Levels, writer'.op = "delete", writer'.at <= i
          PROVE  Precedes(writer'.update[i], Members(i)', key)
      <4>1. i \in Nat /\ j \in Nat /\ j + 1 <= i
        BY <1>2, <2>2, <2>6, <3>2
      <4>2. j <= i /\ i # j
        BY <4>1
      <4>3. Precedes(writer.update[i], Members(i), key)
        BY <1>1, <4>2 DEF key, j
      <4> QED
        BY <2>2, <2>5, <4>2, <4>3
    <3> QED
      BY <1>1, <2>2, <3>1, <3>2 DEF WriterIsRight
  <2>14. LevelsAreBounded' /\ Counted'
    BY <1>1, <1>3, <2>2 DEF ListInv, LevelsAreBounded, Counted
  <2> QED
    BY <2>10, <2>11, <2>12, <2>13, <2>14 DEF ListInv
<1>7. CASE ~ToUnlink(writer)
  <2>1. forward' = forward /\ writer' = [writer EXCEPT !.op = "free"]
    BY <1>7 DEF Unlink
  <2>2. writer'.key = key /\ writer'.op = "free"
    <3>1. writer \in Writer
      BY DEF ListInv, TypeOK
    <3> QED
      BY <2>1, <3>1 DEF Writer
  <2>3. Handled' = {key}
    BY <2>2 DEF Handled
  <2>4. key \notin Members(j)
    <3> SUFFICES ASSUME key \in Members(j) PROVE FALSE
      OBVIOUS
    <3>1. j <= curLevel
      <4>1. level[key] >= j /\ level[key] <= curLevel /\ level[key] \in Nat /\ j \in Nat
        BY <1>1, <1>2, <1>5 DEF ListInv, LevelsAreBounded
      <4> QED
        BY <1>2, <4>1
    <3>2. forward[b][j] # key
      BY <1>7, <3>1 DEF ToUnlink
    <3>3. PICK x : x = forward[b][j]
      OBVIOUS
    <3>4. x \in Members(j) \cup {Null} /\ b < x
      BY <1>2, <1>4, <3>3
    <3>5. x \in Int
      <4>1. Members(j) \subseteq Keys
        BY <1>1, <1>2
      <4> QED
        BY <3>4, <4>1, KeyIsNumber
    <3>6. key <= b \/ x <= key
      BY <1>4, <3>3
    <3>7. x < key
      BY <1>2, <3>2, <3>3, <3>5, <3>6
    <3>8. x \in Members(j)
      BY <1>1, <3>4, <3>7, <3>5, KeyIsNumber
    <3> QED
      BY <1>2, <1>4, <3>4, <3>5, <3>7, <3>8
  <2>5. \A i \in Levels : key \notin Members(i)
    <3> SUFFICES ASSUME NEW i \in Levels, key \in Members(i) PROVE FALSE
      OBVIOUS
    <3>1. i \in Nat /\ j \in Nat /\ level[key] \in Nat
      BY <1>1, <1>2
    <3>2. level[key] >= i /\ ~(i < j)
      BY <1>5
    <3>3. level[key] >= j /\ ~(j < j)
      BY <3>1, <3>2
    <3>4. key \in Members(j)
      BY <1>1, <1>5, <3>3
    <3> QED
      BY <2>4, <3>4
  <2>6. ASSUME NEW i \in Levels PROVE Members(i)' = Members(i)
    <3>1. Members(i)' = {k \in live : level[k] >= i /\ k # key}
      BY <1>3, <2>2 DEF Members
    <3>2. Members(i) = {k \in live : level[k] >= i /\ ~(k = key /\ i < j)}
      BY <1>5
    <3>3. key \notin Members(i)
      BY <2>5
    <3> HIDE DEF key, j
    <3> QED
      BY <3>1, <3>2, <3>3
  <2>7. Upwards' /\ NonePassed' /\ Bare'
    BY <1>1, <2>1, <2>3, <2>6 DEF ListInv, Upwards, NonePassed, PassesNone, Bare
  <2>8. WriterIsRight' /\ LevelsAreBounded' /\ Counted'
    BY <1>1, <1>3, <2>2, <2>3 DEF ListInv, WriterIsRight, LevelsAreBounded, Counted
  <2> QED
    BY <2>7, <2>8 DEF ListInv
<1> QED
  BY <1>6, <1>7

LEMMA FreeKeeps ==
  ASSUME ListInv, TypeOK', Free
  PROVE  ListInv'
<1> DEFINE key == writer.key
<1>1. /\ writer.op = "free" /\ key \in live /\ key \in Keys /\ Handled = {key}
      /\ writer \in Writer
  BY DEF Free, ListInv, WriterIsRight, Handled, TypeOK
<1>2. /\ live' = live \ {key} /\ forward' = [forward EXCEPT ![key] = [i \in Levels |-> Null]]
      /\ level' = [level EXCEPT ![key] = 0] /\ writer' = [writer EXCEPT !.op = "shrink"]
      /\ UNCHANGED <<curLevel, elementCount>>
  BY DEF Free
<1>3. /\ forward \in Pointers /\ level \in [Keys -> Levels] /\ live \subseteq Keys
      /\ writer'.op = "shrink" /\ Handled' = {}
  BY <1>1, <1>2 DEF ListInv, TypeOK, Pointers, Writer, Handled
<1>4. /\ forward'[key] = [i \in Levels |-> Null]
      /\ \A n \in Keys \cup {Header} : n # key => forward'[n] = forward[n]
      /\ \A n \in Keys : n # key => level'[n] = level[n]
  BY <1>1, <1>2, <1>3 DEF Pointers
<1> HIDE DEF key
<1>5. ASSUME NEW i \in Levels PROVE Members(i)' = Members(i) /\ key \notin Members(i)
  <2>1. Members(i) = {k \in live : level[k] >= i /\ k # key}
    BY <1>1 DEF Members, key
  <2>2. Members(i)' = {k \in live \ {key} : level'[k] >= i}
    BY <1>2, <1>3 DEF Members
  <2> QED
    BY <1>3, <1>4, <2>1, <2>2
<1>6. Upwards'
  <2> SUFFICES ASSUME NEW i \in Levels, NEW n \in Keys \cup {Header}
               PROVE  forward'[n][i] \in Members(i)' \cup {Null} /\ n < forward'[n][i]
    BY DEF Upwards
  <2>1. CASE n = key
    BY <1>1, <1>4, <2>1, KeyIsNumber DEF key
  <2>2. CASE n # key
    BY <1>4, <1>5, <2>2 DEF ListInv, Upwards
  <2> QED
    BY <2>1, <2>2
<1>7. NonePassed'
  <2> SUFFICES ASSUME NEW i \in Levels PROVE PassesNone(forward', Members(i), i)
    BY <1>5 DEF NonePassed
  <2>1. \A n \in Members(i) \cup {Header} : n \in Keys \cup {Header} /\ n # key
    BY <1>1, <1>3, <1>5, KeyIsNumber DEF Members, key
  <2> QED
    BY <1>4, <2>1 DEF ListInv, NonePassed, PassesNone
<1>8. Bare'
  BY <1>1, <1>3, <1>4, <1>5 DEF ListInv, Bare, key
<1>9. WriterIsRight' /\ LevelsAreBounded'
  <2>1. \A k \in live' : level'[k] <= curLevel'
    BY <1>2, <1>3, <1>4 DEF ListInv, LevelsAreBounded
  <2> QED
    BY <1>3, <2>1 DEF WriterIsRight, LevelsAreBounded
<1>10. Counted'
  <2>1. Cardinality(live') = Cardinality(live) - 1
    BY <1>1, <1>2, Finite, FS_RemoveElement DEF ListInv, key
  <2>2. Cardinality(live) = elementCount /\ elementCount \in Int
    BY <1>1, Finite DEF ListInv, Counted, TypeOK
  <2> QED
    BY <1>2, <1>3, <2>1, <2>2 DEF Counted
<1> QED
  BY <1>6, <1>7, <1>8, <1>9, <1>10 DEF ListInv

LEMMA ShrunkLevel ==
  ASSUME TypeOK
  PROVE  LET top == Max({0} \cup {i \in 0..curLevel : forward[Header][i] # Null})
         IN  /\ top \in Levels
             /\ \A i \in 0..curLevel : forward[Header][i] # Null => i <= top
<1> DEFINE B == {0} \cup {i \in 0..curLevel : forward[Header][i] # Null}
<1>1. curLevel \in Nat /\ curLevel <= MaxLevel /\ MaxLevel \in Nat
  BY ListAssumption DEF TypeOK, Levels
<1>2. B \in SUBSET (-1 .. curLevel) /\ B # {} /\ B \subseteq Levels
  BY <1>1 DEF Levels
<1> HIDE DEF B
<1>3. Max(B) \in B /\ \A x \in B : x <= Max(B)
  BY <1>1, <1>2, MaxIs
<1> QED
  BY <1>2, <1>3 DEF B

LEMMA ShrinkKeeps ==
  ASSUME ListInv, TypeOK', Shrink
  PROVE  ListInv'
<1>1. /\ writer.op = "shrink" /\ writer' = NoWriter /\ elementCount' = elementCount - 1
      /\ UNCHANGED <<forward, level, live>>
      /\ curLevel' = Max({0} \cup {i \in 0..curLevel : forward[Header][i] # Null})
  BY DEF Shrink
<1>2. Handled = {} /\ Handled' = {} /\ \A i \in Levels : Members(i)' = Members(i)
  BY <1>1 DEF Handled, Members, NoWriter
<1>3. Upwards' /\ NonePassed' /\ Bare'
  BY <1>1, <1>2 DEF ListInv, Upwards, NonePassed, PassesNone, Bare
<1>4. WriterIsRight'
  BY <1>1, <1>2 DEF WriterIsRight, NoWriter
<1>5. LevelsAreBounded'
  <2> SUFFICES ASSUME NEW k \in live PROVE level[k] <= curLevel'
    BY <1>1 DEF LevelsAreBounded
  <2>1. /\ k \in Keys /\ level[k] \in Levels /\ level[k] \in Nat /\ curLevel \in Nat
        /\ level[k] <= curLevel
    BY ZeroLevel DEF ListInv, TypeOK, LevelsAreBounded
  <2>2. PICK i \in Levels : i = level[k] /\ i \in 0 .. curLevel
    BY <2>1
  <2>3. k \in Members(i)
    BY <1>1, <2>1, <2>2 DEF Members
  <2>4. k <= Header \/ forward[Header][i] <= k
    BY <2>3 DEF ListInv, NonePassed, PassesNone
  <2>5. forward[Header][i] # Null
    BY <2>1, <2>4, KeyIsNumber
  <2> QED
    BY <1>1, <2>2, <2>5, ShrunkLevel DEF ListInv
<1>6. Counted'
  <2>1. Cardinality(live) = elementCount - 1 /\ elementCount \in Int
    BY <1>1 DEF ListInv, Counted, TypeOK
  <2> QED
    BY <1>1, <2>1 DEF Counted, NoWriter
<1> QED
  BY <1>3, <1>4, <1>5, <1>6 DEF ListInv

LEMMA RestartKeeps ==
  ASSUME ListInv, TypeOK', Restart
  PROVE  ListInv'
<1>1. /\ forward' = [n \in Keys \cup {Header} |-> [i \in Levels |-> Null]]
      /\ live' = {} /\ elementCount' = 0 /\ writer' = NoWriter
  BY DEF Restart
<1>2. Handled' = {} /\ \A i \in Levels : Members(i)' = {}
  BY <1>1 DEF Handled, Members, NoWriter
<1>3. Upwards'
  BY <1>1, <1>2, KeyIsNumber DEF Upwards
<1>4. NonePassed' /\ Bare'
  BY <1>1, <1>2 DEF NonePassed, PassesNone, Bare
<1>5. WriterIsRight' /\ LevelsAreBounded'
  BY <1>1, <1>2 DEF WriterIsRight, LevelsAreBounded, NoWriter
<1>6. Counted'
  BY <1>1, FS_EmptySet DEF Counted, NoWriter
<1> QED
  BY <1>3, <1>4, <1>5, <1>6 DEF ListInv

LEMMA SameList ==
  ASSUME ListInv, TypeOK', UNCHANGED <<forward, level, live, curLevel, elementCount, writer>>
  PROVE  ListInv' /\ \A i \in Levels : Members(i)' = Members(i)
<1>1. Handled' = Handled /\ \A i \in Levels : Members(i)' = Members(i)
  BY DEF Handled, Members
<1> QED
  BY <1>1 DEF ListInv, Upwards, NonePassed, PassesNone, Bare, WriterIsRight, Precedes,
              LevelsAreBounded, Counted

-----------------------------------------------------------------------------
(* The types.                                                              *)

ListTypes ==
    /\ forward \in [Keys \cup {Header} -> [Levels -> Keys \cup {Null}]]
    /\ level \in [Keys -> Levels] /\ value \in [Keys -> Values] /\ live \subseteq Keys
    /\ curLevel \in Levels /\ elementCount \in Int
    /\ writer \in Writer

WalkTypes ==
    /\ reader \in Walker({"idle", "walk", "last", "done", "undefined"})
    /\ dumper \in [Dumpers -> Walker({"idle", "walk", "undefined"})]

StreamTypes ==
    /\ file \in Seq(Text) /\ isOpen \in BOOLEAN /\ mixed \in BOOLEAN
    /\ clean \in BOOLEAN /\ saved \subseteq Text \X Values

LoadTypes ==
    phase \in {"load", "run"} /\ loading \in Seq(Text) /\ lastPair \in Text \X Text

StoreTypes == StreamTypes /\ LoadTypes

LEMMA TypesAre == TypeOK <=> ListTypes /\ WalkTypes /\ StoreTypes
  BY DEF TypeOK, ListTypes, WalkTypes, StoreTypes, StreamTypes, LoadTypes

LEMMA TypesNext == TypeOK' <=> ListTypes' /\ WalkTypes' /\ StoreTypes'
  BY DEF TypeOK, ListTypes, WalkTypes, StoreTypes, StreamTypes, LoadTypes

LEMMA IdleIsWalker ==
  /\ Idle \in Walker({"idle", "walk", "last", "done", "undefined"})
  /\ Idle \in Walker({"idle", "walk", "undefined"})
  BY ZeroLevel DEF Idle, Walker

LEMMA NoWriterIsWriter == NoWriter \in Writer
  BY ZeroLevel DEF NoWriter, Writer

LEMMA DisturbsTypes ==
  ASSUME WalkTypes, NEW deletes \in BOOLEAN, Disturbs(deletes)
  PROVE  WalkTypes'
<1>1. reader' \in Walker({"idle", "walk", "last", "done", "undefined"})
  <2>1. CASE reader.pc \in {"walk", "last"}
    <3>1. PICK t : t = (reader.key \in Range(ChainOf(forward', 0)))
      OBVIOUS
    <3>2. t \in BOOLEAN
      BY <3>1
    <3>3. reader' = [reader EXCEPT !.disturbed = TRUE, !.deleted = @ \/ deletes,
                                   !.there = @ \/ t]
      BY <2>1, <3>1 DEF Disturbs
    <3> QED
      BY <3>2, <3>3 DEF WalkTypes, Walker
  <2>2. CASE reader.pc \notin {"walk", "last"}
    BY <2>2 DEF Disturbs, WalkTypes
  <2> QED
    BY <2>1, <2>2
<1>2. dumper' \in [Dumpers -> Walker({"idle", "walk", "undefined"})]
  <2>1. ASSUME NEW w \in Walker({"idle", "walk", "undefined"})
        PROVE  [w EXCEPT !.disturbed = TRUE, !.deleted = @ \/ deletes] \in Walker({"idle", "walk", "undefined"})
    BY DEF Walker
  <2> QED
    BY <2>1 DEF Disturbs, WalkTypes
<1> QED
  BY <1>1, <1>2 DEF WalkTypes

LEMMA InsertTypes ==
  ASSUME ListInv, NEW key \in Keys, NEW v \in Values, InsertElement(key, v)
  PROVE  ListTypes' /\ WalkTypes'
<1>1. ListTypes /\ WalkTypes
  BY TypesAre DEF ListInv
<1>2. WalkTypes'
  BY <1>1, DisturbsTypes DEF InsertElement
<1>3. value' \in [Keys -> Values]
  BY <1>1 DEF InsertElement, ListTypes
<1>4. writer = NoWriter /\ (UNCHANGED <<forward, level, live, curLevel, writer, elementCount>> \/ StartsInsert(key))
  BY InsertIs
<1>5. CASE UNCHANGED <<forward, level, live, curLevel, writer, elementCount>>
  BY <1>1, <1>2, <1>3, <1>5 DEF ListTypes
<1>6. CASE StartsInsert(key)
  <2>1. Update(key) \in [Levels -> Keys \cup {Header}]
    BY <1>4, UpdateIs
  <2>2. PICK h \in Levels :
          /\ writer' = [op |-> "insert", key |-> key, update |-> Update(key), at |-> 0]
          /\ curLevel' = IF h > curLevel THEN h ELSE curLevel
          /\ level' = [level EXCEPT ![key] = h]
          /\ live' = live \cup {key}
          /\ forward' = [forward EXCEPT ![key] = [i \in Levels |-> Null]]
    BY <1>6 DEF StartsInsert
  <2>3. writer' \in Writer
    BY <2>1, <2>2, ZeroLevel DEF Writer
  <2>4. forward' \in [Keys \cup {Header} -> [Levels -> Keys \cup {Null}]]
    BY <1>1, <2>2 DEF ListTypes
  <2>5. level' \in [Keys -> Levels] /\ live' \subseteq Keys /\ curLevel' \in Levels
    BY <1>1, <2>2 DEF ListTypes
  <2>6. elementCount' \in Int
    BY <1>1, <1>6 DEF StartsInsert, ListTypes
  <2> QED
    BY <1>2, <1>3, <2>3, <2>4, <2>5, <2>6 DEF ListTypes
<1> QED
  BY <1>4, <1>5, <1>6

-----------------------------------------------------------------------------
(* Texts.                                                                  *)

\* The first delimiter of a line that has one.
LEMMA DelimiterIs ==
  ASSUME NEW line \in Text, HasDelimiter(line)
  PROVE  /\ Delimiter(line) \in 1 .. Len(line) /\ line[Delimiter(line)] = Colon
         /\ \A j \in 1 .. Len(line) : line[j] = Colon => Delimiter(line) <= j
<1>1. PICK n \in Nat : n = Len(line) /\ DOMAIN line = 1 .. n
  BY LenProperties DEF Text
<1> DEFINE S == {i \in 1 .. n : line[i] = Colon}
<1>2. S \in SUBSET Nat
  OBVIOUS
<1>3. S # {}
  BY <1>1 DEF HasDelimiter, Range
<1>4. PICK m \in S : \A k \in S : m <= k
  <2> HIDE DEF S
  <2> QED
    BY <1>2, <1>3, LeastNumber
<1>5. \E i \in DOMAIN line : line[i] = Colon /\ \A j \in DOMAIN line : line[j] = Colon => i <= j
  BY <1>1, <1>4
<1>6. Delimiter(line) \in DOMAIN line /\ line[Delimiter(line)] = Colon
      /\ \A j \in DOMAIN line : line[j] = Colon => Delimiter(line) <= j
  BY <1>5 DEF Delimiter
<1> QED
  BY <1>1, <1>6

LEMMA PartOfText ==
  ASSUME NEW S, NEW s \in Seq(S), NEW a \in Nat \ {0}, NEW b \in Int, b <= Len(s)
  PROVE  SubSeq(s, a, b) \in Seq(S)
<1>1. \A i \in a .. b : i \in 1 .. Len(s)
  BY LenProperties
<1>2. \A i \in a .. b : s[i] \in S
  BY <1>1, ElementOfSeq
<1> QED
  BY <1>2, SubSeqProperties

\* The same, with what it is.
LEMMA PartIs ==
  ASSUME NEW S, NEW s \in Seq(S), NEW a \in Nat \ {0}, NEW b \in Nat, b <= Len(s),
         NEW t \in Seq(S), Len(t) = 1 + b - a, a <= b + 1,
         \A i \in 1 .. Len(t) : s[a + i - 1] = t[i]
  PROVE  SubSeq(s, a, b) = t
<1>1. \A i \in a .. b : i \in 1 .. Len(s)
  BY LenProperties
<1>2. \A i \in a .. b : s[i] \in S
  BY <1>1, ElementOfSeq
<1>3. PICK p : p = SubSeq(s, a, b)
  OBVIOUS
<1>4. /\ p \in Seq(S) /\ Len(p) = IF a <= b THEN b - a + 1 ELSE 0
      /\ \A i \in 1 .. b - a + 1 : p[i] = s[a + i - 1]
  BY <1>2, <1>3, SubSeqProperties
<1>5. Len(p) = Len(t) /\ \A i \in 1 .. Len(t) : p[i] = t[i]
  BY <1>4
<1> QED
  BY <1>3, <1>4, <1>5, SeqEqual

LEMMA SplitIs ==
  ASSUME NEW line \in Text, HasDelimiter(line)
  PROVE  Split(line) \in Text \X Text
<1>1. PICK d \in 1 .. Len(line) : d = Delimiter(line)
  BY DelimiterIs
<1>2. Len(line) \in Nat
  BY LenProperties DEF Text
<1>3. SubSeq(line, 1, d - 1) \in Text /\ SubSeq(line, d + 1, Len(line)) \in Text
  BY <1>2, PartOfText DEF Text
<1> QED
  BY <1>1, <1>3 DEF Split

LEMMA IntervalIs ==
  ASSUME NEW n \in Nat
  PROVE  IsFiniteSet(1 .. n) /\ Cardinality(1 .. n) = n
<1>1. /\ IsFiniteSet(1 .. n)
      /\ Cardinality(1 .. n) = IF 1 > n THEN 0 ELSE n - 1 + 1
  BY FS_Interval
<1> QED
  BY <1>1

LEMMA CountIs ==
  ASSUME NEW text \in Text
  PROVE  /\ \A i \in Nat : LineAt(text, i) \in Nat
         /\ \A n \in Int : UpTo(text, n) \in Nat /\ UpTo(text, n) <= Len(text)
<1>1. ASSUME NEW i \in Nat PROVE LineAt(text, i) \in Nat
  <2>1. IsFiniteSet(1 .. (i - 1))
    BY FS_Interval
  <2>2. Cardinality({j \in 1 .. (i - 1) : text[j] = Newline}) \in Nat
    BY <2>1, FS_Subset, FS_CardinalityType
  <2> QED
    BY <2>2 DEF LineAt
<1>2. ASSUME NEW n \in Int PROVE UpTo(text, n) \in Nat /\ UpTo(text, n) <= Len(text)
  <2>1. Len(text) \in Nat
    BY LenProperties DEF Text
  <2>2. IsFiniteSet(1 .. Len(text)) /\ Cardinality(1 .. Len(text)) = Len(text)
    BY <2>1, IntervalIs
  <2>3. {i \in 1 .. Len(text) : LineAt(text, i) <= n} \subseteq 1 .. Len(text)
    OBVIOUS
  <2>4. /\ Cardinality({i \in 1 .. Len(text) : LineAt(text, i) <= n}) \in Nat
        /\ Cardinality({i \in 1 .. Len(text) : LineAt(text, i) <= n}) <= Len(text)
    BY <2>2, <2>3, FS_Subset, FS_CardinalityType
  <2> QED
    BY <2>4 DEF UpTo
<1> QED
  BY <1>1, <1>2

LEMMA LinesAreTexts ==
  ASSUME NEW text \in Text
  PROVE  LinesOf(text) \in Seq(Text)
<1>1. PICK last \in Nat : last = LineAt(text, Len(text) + 1)
  <2>1. Len(text) + 1 \in Nat
    BY LenProperties DEF Text
  <2> QED
    BY <2>1, CountIs
<1>2. ASSUME NEW n \in 1 .. last
      PROVE  SubSeq(text, UpTo(text, n - 1) + 1, UpTo(text, n) - IF n = last THEN 0 ELSE 1) \in Text
  <2>1. PICK a \in Nat, c \in Nat : a = UpTo(text, n - 1) /\ c = UpTo(text, n) /\ c <= Len(text)
    <3>1. n - 1 \in Int /\ n \in Int
      OBVIOUS
    <3> QED
      BY <3>1, CountIs
  <2>2. PICK b \in Int : b = c - IF n = last THEN 0 ELSE 1
    OBVIOUS
  <2>3. b <= Len(text) /\ a + 1 \in Nat \ {0}
    BY <2>1, <2>2, LenProperties DEF Text
  <2>4. SubSeq(text, a + 1, b) \in Text
    BY <2>3, PartOfText DEF Text
  <2> QED
    BY <2>1, <2>2, <2>4
<1>3. LinesOf(text) \in [1 .. last -> Text]
  BY <1>1, <1>2 DEF LinesOf
<1> QED
  BY <1>3

\* A text with no newline is a line.
LEMMA OneLine ==
  ASSUME NEW text \in Text, Newline \notin Range(text)
  PROVE  LinesOf(text) = <<text>>
<1>1. PICK len \in Nat : len = Len(text) /\ DOMAIN text = 1 .. len
  BY LenProperties DEF Text
<1>2. ASSUME NEW i \in 1 .. len + 1 PROVE LineAt(text, i) = 1
  <2>1. \A j \in 1 .. (i - 1) : text[j] # Newline
    BY <1>1 DEF Range
  <2>2. {j \in 1 .. (i - 1) : text[j] = Newline} = {}
    BY <2>1
  <2> QED
    BY <2>2, FS_EmptySet DEF LineAt
<1>3. UpTo(text, 0) = 0
  <2>1. {i \in 1 .. len : LineAt(text, i) <= 0} = {}
    BY <1>2
  <2> QED
    BY <1>1, <2>1, FS_EmptySet DEF UpTo
<1>4. UpTo(text, 1) = len
  <2>1. {i \in 1 .. len : LineAt(text, i) <= 1} = 1 .. len
    BY <1>2
  <2> QED
    BY <1>1, <2>1, IntervalIs DEF UpTo
<1>5. SubSeq(text, 1, len) = text
  BY <1>1, SubSeqFull DEF Text
<1>6. LinesOf(text) = [n \in 1 .. 1 |->
         SubSeq(text, UpTo(text, n - 1) + 1, UpTo(text, n) - IF n = 1 THEN 0 ELSE 1)]
  <2>1. LineAt(text, Len(text) + 1) = 1
    BY <1>1, <1>2
  <2> QED
    BY <2>1 DEF LinesOf
<1>7. \A n \in 1 .. 1 :
         SubSeq(text, UpTo(text, n - 1) + 1, UpTo(text, n) - IF n = 1 THEN 0 ELSE 1) = text
  <2> TAKE n \in 1 .. 1
  <2>1. n = 1 /\ n - 1 = 0
    OBVIOUS
  <2> QED
    BY <1>3, <1>4, <1>5, <2>1
<1>8. LinesOf(text) = [n \in 1 .. 1 |-> text]
  BY <1>6, <1>7
<1> QED
  BY <1>8

\* What is written for a pair of the form the file can hold is read as that pair.
LEMMA PlainIsRead ==
  ASSUME NEW key \in Text, NEW v \in Text, Plain(<<key, v>>),
         NEW line, line = key \o <<Colon>> \o v
  PROVE  /\ line \in Text /\ LinesOf(line) = <<line>>
         /\ HasPair(line) /\ Split(line) = <<key, v>>
<1>1. PICK m \in Nat, n \in Nat : /\ m = Len(key) /\ DOMAIN key = 1 .. m
                                  /\ n = Len(v) /\ DOMAIN v = 1 .. n
  BY LenProperties DEF Text
<1>2. /\ \A i \in 1 .. m : key[i] # Colon /\ key[i] # Newline
      /\ \A i \in 1 .. n : v[i] # Newline
      /\ key # <<>> /\ v # <<>>
  BY <1>1 DEF Plain, Range
<1>3. <<Colon>> \in Seq(Char) /\ Len(<<Colon>>) = 1 /\ <<Colon>>[1] = Colon /\ Colon # Newline
  BY ListAssumption
<1>4. PICK f \in Seq(Char) : /\ f = key \o <<Colon>> /\ Len(f) = m + 1
                             /\ \A i \in 1 .. m : f[i] = key[i]
                             /\ f[m + 1] = Colon
  <2>1. /\ key \o <<Colon>> \in Seq(Char) /\ Len(key \o <<Colon>>) = m + 1
        /\ \A i \in 1 .. m + 1 : (key \o <<Colon>>)[i] = IF i <= m THEN key[i] ELSE <<Colon>>[i - m]
    BY <1>1, <1>3, ConcatProperties DEF Text
  <2>2. PICK f \in Seq(Char) : f = key \o <<Colon>>
    BY <2>1
  <2>3. /\ Len(f) = m + 1
        /\ \A i \in 1 .. m + 1 : f[i] = IF i <= m THEN key[i] ELSE <<Colon>>[i - m]
    BY <2>1, <2>2
  <2>4. \A i \in 1 .. m : f[i] = key[i]
    BY <2>3
  <2>5. f[m + 1] = Colon
    <3>1. m + 1 \in 1 .. m + 1 /\ ~(m + 1 <= m) /\ m + 1 - m = 1
      OBVIOUS
    <3> QED
      BY <1>3, <2>3, <3>1
  <2> QED
    BY <2>2, <2>3, <2>4, <2>5
<1>5. /\ line \in Seq(Char) /\ Len(line) = m + 1 + n
      /\ \A i \in 1 .. m + 1 : line[i] = f[i]
      /\ \A i \in 1 .. n : line[m + 1 + i] = v[i]
  <2>1. /\ f \o v \in Seq(Char) /\ Len(f \o v) = (m + 1) + n
        /\ \A i \in 1 .. (m + 1) + n : (f \o v)[i] = IF i <= m + 1 THEN f[i] ELSE v[i - (m + 1)]
    BY <1>1, <1>4, ConcatProperties DEF Text
  <2>2. \A i \in 1 .. m + 1 : i \in 1 .. (m + 1) + n /\ i <= m + 1
    OBVIOUS
  <2>3. \A i \in 1 .. n : /\ m + 1 + i \in 1 .. (m + 1) + n /\ ~(m + 1 + i <= m + 1)
                          /\ (m + 1 + i) - (m + 1) = i
    OBVIOUS
  <2> QED
    BY <1>4, <2>1, <2>2, <2>3
<1>6. line[m + 1] = Colon /\ \A i \in 1 .. m : line[i] = key[i]
  BY <1>4, <1>5
<1>7. DOMAIN line = 1 .. m + 1 + n /\ m + 1 \in 1 .. m + 1 + n
  BY <1>5, LenProperties
<1>8. HasDelimiter(line)
  BY <1>6, <1>7 DEF HasDelimiter, Range
<1>9. Newline \notin Range(line)
  <2> SUFFICES ASSUME NEW i \in 1 .. m + 1 + n, line[i] = Newline PROVE FALSE
    BY <1>7 DEF Range
  <2>1. i \in 1 .. m \/ i = m + 1 \/ \E j \in 1 .. n : i = m + 1 + j
    <3>1. i > m + 1 => i - (m + 1) \in 1 .. n /\ i = m + 1 + (i - (m + 1))
      OBVIOUS
    <3> QED
      BY <3>1
  <2> QED
    BY <1>2, <1>3, <1>5, <1>6, <2>1
<1>10. Delimiter(line) = m + 1
  <2>1. /\ Delimiter(line) \in 1 .. m + 1 + n /\ line[Delimiter(line)] = Colon
        /\ \A j \in 1 .. m + 1 + n : line[j] = Colon => Delimiter(line) <= j
    BY <1>5, <1>8, DelimiterIs DEF Text
  <2>2. PICK d \in 1 .. m + 1 + n : d = Delimiter(line)
    BY <2>1
  <2>3. d <= m + 1 /\ line[d] = Colon
    BY <1>6, <1>7, <2>1, <2>2
  <2>4. d \notin 1 .. m
    BY <1>2, <1>6, <2>3
  <2> QED
    BY <2>2, <2>3, <2>4
<1>11. SubSeq(line, 1, m) = key
  <2>1. 1 \in Nat \ {0} /\ m <= Len(line) /\ Len(key) = 1 + m - 1 /\ 1 <= m + 1
    BY <1>1, <1>5
  <2>2. \A i \in 1 .. Len(key) : line[1 + i - 1] = key[i]
    BY <1>1, <1>6
  <2> QED
    BY <1>5, <2>1, <2>2, PartIs DEF Text
<1>12. SubSeq(line, m + 2, m + 1 + n) = v
  <2>1. PICK a \in Nat \ {0}, b \in Nat : a = m + 2 /\ b = m + 1 + n
    OBVIOUS
  <2>2. b <= Len(line) /\ Len(v) = 1 + b - a /\ a <= b + 1
    BY <1>1, <1>5, <2>1
  <2>3. \A i \in 1 .. Len(v) : line[a + i - 1] = v[i]
    <3>1. \A i \in 1 .. n : a + i - 1 = m + 1 + i
      BY <2>1
    <3> QED
      BY <1>1, <1>5, <3>1
  <2>4. SubSeq(line, a, b) = v
    BY <1>5, <2>2, <2>3, PartIs DEF Text
  <2> QED
    BY <2>1, <2>4
<1>13. Split(line) = <<key, v>>
  <2>1. (m + 1) - 1 = m /\ (m + 1) + 1 = m + 2
    OBVIOUS
  <2> QED
    BY <1>5, <1>10, <1>11, <1>12, <2>1 DEF Split
<1>14. HasPair(line)
  BY <1>2, <1>8, <1>13 DEF HasPair
<1> QED
  BY <1>5, <1>9, <1>13, <1>14, OneLine DEF Text

LEMMA KeyOfText ==
  ASSUME NEW text \in Range(KeyText)
  PROVE  KeyOf(text) \in Keys /\ KeyText[KeyOf(text)] = text
<1>1. \E k \in Keys : KeyText[k] = text
  BY ListAssumption DEF Range
<1> QED
  BY <1>1 DEF KeyOf

\* What the constructor, or InsertElement, does with one line.
LEMMA LoadLineIs ==
  ASSUME StoreTypes, LoadLine
  PROVE  /\ StoreTypes' /\ writer = NoWriter /\ phase = "load"
         /\ \/ UNCHANGED <<list, writer, reader, dumper>>
            \/ /\ phase' = phase
               /\ \E key \in Keys, v \in Values : InsertElement(key, v)
<1>1. StreamTypes' /\ phase = "load" /\ writer = NoWriter
  BY DEF LoadLine, StoreTypes, StreamTypes, stream
<1>2. CASE loading = <<>>
  BY <1>1, <1>2 DEF LoadLine, StoreTypes, LoadTypes
<1>3. CASE loading # <<>>
  <2>1. Head(loading) \in Text /\ Tail(loading) \in Seq(Text)
    BY <1>3 DEF StoreTypes, LoadTypes
  <2>2. /\ phase' = phase /\ loading' = Tail(loading) /\ lastPair' = Pair(Head(loading))
        /\ IF lastPair'[1] = <<>> \/ lastPair'[2] = <<>>
           THEN UNCHANGED <<list, writer, reader, dumper>>
           ELSE Known(lastPair') /\ InsertElement(KeyOf(lastPair'[1]), lastPair'[2])
    BY <1>3 DEF LoadLine
  <2>3. lastPair' \in Text \X Text
    BY <2>1, <2>2, SplitIs DEF Pair, StoreTypes, LoadTypes
  <2>4. StoreTypes'
    BY <1>1, <2>1, <2>2, <2>3 DEF StoreTypes, LoadTypes
  <2>5. CASE lastPair'[1] = <<>> \/ lastPair'[2] = <<>>
    BY <1>1, <2>2, <2>4, <2>5
  <2>6. CASE ~(lastPair'[1] = <<>> \/ lastPair'[2] = <<>>)
    <3>1. KeyOf(lastPair'[1]) \in Keys /\ lastPair'[2] \in Values
      BY <2>2, <2>6, KeyOfText DEF Known
    <3> QED
      BY <1>1, <2>2, <2>4, <2>6, <3>1
  <2> QED
    BY <2>5, <2>6
<1> QED
  BY <1>2, <1>3

LEMMA WriterTypes ==
  ASSUME ListInv, Link \/ Unlink \/ Free \/ Shrink \/ \E k \in Keys : DeleteElement(k)
  PROVE  TypeOK'
<1>1. ListTypes /\ WalkTypes /\ StoreTypes
  BY TypesAre DEF ListInv
<1>2. StoreTypes'
  BY <1>1 DEF Link, Unlink, Free, Shrink, DeleteElement, store, stream, load, StoreTypes, StreamTypes, LoadTypes
<1>3. WalkTypes'
  BY <1>1, DisturbsTypes DEF Link, Unlink, Free, Shrink, DeleteElement
<1>4. ListTypes'
  <2>1. CASE Link
    <3>1. writer.op = "insert" /\ WriterIsRight /\ writer \in Writer
      BY <2>1 DEF Link, ListInv, TypeOK
    <3>2. writer.key \in Keys /\ writer.update \in [Levels -> Keys \cup {Header}] /\ writer.at \in Levels
          /\ writer.at <= level[writer.key]
      BY <1>1, <3>1 DEF WriterIsRight, Handled, Writer, ListTypes
    <3>3. forward' \in [Keys \cup {Header} -> [Levels -> Keys \cup {Null}]]
      <4>1. PICK b \in Keys \cup {Header} : b = writer.update[writer.at]
        BY <3>2
      <4>2. forward' = [forward EXCEPT ![writer.key][writer.at] = forward[b][writer.at], ![b][writer.at] = writer.key]
        BY <2>1, <4>1 DEF Link, Linked
      <4>3. PICK x \in Keys \cup {Null} : x = forward[b][writer.at]
        BY <1>1, <3>2, <4>1 DEF ListTypes
      <4>4. PICK fwd \in Pointers : fwd = [forward EXCEPT ![writer.key][writer.at] = x]
        BY <1>1, <3>2, <4>3 DEF ListTypes, Pointers
      <4>5. forward' = [fwd EXCEPT ![b][writer.at] = writer.key]
        BY <4>2, <4>3, <4>4
      <4> QED
        BY <3>2, <4>1, <4>5 DEF Pointers
    <3>4. writer' \in Writer
      <4>1. CASE writer.at = level[writer.key]
        BY <2>1, <4>1, NoWriterIsWriter DEF Link
      <4>2. CASE writer.at # level[writer.key]
        <5>1. writer' = [writer EXCEPT !.at = @ + 1]
          BY <2>1, <4>2 DEF Link
        <5>2. level[writer.key] \in Levels
          BY <1>1, <3>2 DEF ListTypes
        <5>3. writer.at + 1 \in Levels
          BY <3>2, <4>2, <5>2, ListAssumption DEF Levels
        <5> QED
          BY <3>1, <5>1, <5>3 DEF Writer
      <4> QED
        BY <4>1, <4>2
    <3> QED
      BY <1>1, <2>1, <3>3, <3>4 DEF Link, ListTypes
  <2>2. CASE Unlink
    <3>1. writer.op = "delete" /\ WriterIsRight /\ writer \in Writer
      BY <2>2 DEF Unlink, ListInv, TypeOK
    <3>2. writer.key \in Keys /\ writer.update \in [Levels -> Keys \cup {Header}] /\ writer.at \in Levels
      BY <1>1, <3>1 DEF WriterIsRight, Handled, Writer, ListTypes
    <3>3. forward' \in [Keys \cup {Header} -> [Levels -> Keys \cup {Null}]]
      <4>1. PICK b \in Keys \cup {Header} : b = writer.update[writer.at]
        BY <3>2
      <4>2. PICK x \in Keys \cup {Null} : x = forward[writer.key][writer.at]
        BY <1>1, <3>2 DEF ListTypes
      <4>3. forward' = forward \/ forward' = [forward EXCEPT ![b][writer.at] = x]
        BY <2>2, <4>1, <4>2 DEF Unlink
      <4> QED
        BY <1>1, <3>2, <4>3 DEF ListTypes
    <3>4. writer' \in Writer
      <4>1. writer.at # MaxLevel => writer.at + 1 \in Levels
        BY <3>2, ListAssumption DEF Levels
      <4> QED
        BY <2>2, <3>1, <4>1 DEF Unlink, Writer
    <3> QED
      BY <1>1, <2>2, <3>3, <3>4 DEF Unlink, ListTypes
  <2>3. CASE Free
    <3>1. writer' \in Writer
      BY <1>1, <2>3 DEF Free, Writer, ListTypes
    <3>2. forward' \in [Keys \cup {Header} -> [Levels -> Keys \cup {Null}]]
      BY <1>1, <2>3 DEF Free, ListTypes
    <3> QED
      BY <1>1, <2>3, <3>1, <3>2, ZeroLevel, ListAssumption DEF Free, ListTypes
  <2>4. CASE Shrink
    BY <1>1, <2>4, ShrunkLevel, NoWriterIsWriter DEF Shrink, ListTypes, ListInv
  <2>5. CASE \E k \in Keys : DeleteElement(k)
    <3>1. PICK k \in Keys : DeleteElement(k)
      BY <2>5
    <3>2. writer = NoWriter
      BY <3>1 DEF DeleteElement
    <3>3. Update(k) \in [Levels -> Keys \cup {Header}]
      BY <3>2, UpdateIs
    <3>4. writer' \in Writer
      BY <3>1, <3>3, ZeroLevel DEF DeleteElement, Writer
    <3> QED
      BY <1>1, <3>1, <3>4 DEF DeleteElement, list, ListTypes
  <2> QED
    BY <2>1, <2>2, <2>3, <2>4, <2>5
<1> QED
  BY <1>2, <1>3, <1>4, TypesNext

LEMMA WalkerTypes ==
  ASSUME ListInv, Walk \/ Last_ \/ \E k \in Keys : SearchElement(k)
  PROVE  TypeOK'
<1>1. ListTypes /\ WalkTypes /\ StoreTypes
  BY TypesAre DEF ListInv
<1>2. ListTypes'
  BY <1>1 DEF Walk, Last_, SearchElement, list, ListTypes
<1>3. WalkTypes' /\ StoreTypes'
  <2>1. CASE Walk
    <3>1. reader \in Walker({"idle", "walk", "last", "done", "undefined"}) /\ reader.at \in Levels
      BY <1>1 DEF WalkTypes, Walker
    <3>2. ASSUME NEW next \in Keys \cup {Null}
          PROVE  After(reader, next) \in Walker({"idle", "walk", "last", "done", "undefined"})
      <4>1. reader.at > 0 => reader.at - 1 \in Levels
        BY <3>1, ListAssumption DEF Levels
      <4> QED
        BY <3>1, <4>1 DEF After, Walker
    <3>3. Usable(reader.cur) => forward[reader.cur][reader.at] \in Keys \cup {Null}
      BY <1>1, <3>1 DEF Usable, ListTypes
    <3>4. reader' \in Walker({"idle", "walk", "last", "done", "undefined"})
      <4>1. [reader EXCEPT !.pc = "undefined"] \in Walker({"idle", "walk", "last", "done", "undefined"})
        BY <3>1 DEF Walker
      <4> QED
        BY <2>1, <3>2, <3>3, <4>1 DEF Walk
    <3> QED
      BY <1>1, <2>1, <3>4 DEF Walk, WalkTypes, StoreTypes, StreamTypes, LoadTypes, store, stream, load
  <2>2. CASE Last_
    <3>1. reader' \in Walker({"idle", "walk", "last", "done", "undefined"})
      BY <1>1, <2>2 DEF Last_, WalkTypes, Walker
    <3> QED
      BY <1>1, <2>2, <3>1 DEF Last_, WalkTypes, StoreTypes, StreamTypes, LoadTypes, store, stream, load
  <2>3. CASE \E k \in Keys : SearchElement(k)
    <3>1. PICK k \in Keys : SearchElement(k)
      BY <2>3
    <3>2. PICK t : t = Exists(k)
      OBVIOUS
    <3>3. reader' = [Idle EXCEPT !.pc = "walk", !.at = curLevel, !.key = k,
                              !.disturbed = writer # NoWriter,
                              !.deleted = writer.op \in {"delete", "free"},
                              !.there = t]
      BY <3>1, <3>2 DEF SearchElement
    <3>4. reader' \in Walker({"idle", "walk", "last", "done", "undefined"})
      <4>1. t \in BOOLEAN
        BY <3>2 DEF Exists
      <4>2. PICK a, d : a = (writer # NoWriter) /\ d = (writer.op \in {"delete", "free"})
        OBVIOUS
      <4>3. a \in BOOLEAN /\ d \in BOOLEAN /\ curLevel \in Levels
        BY <1>1, <4>2 DEF ListTypes
      <4>4. reader' = [Idle EXCEPT !.pc = "walk", !.at = curLevel, !.key = k,
                              !.disturbed = a, !.deleted = d, !.there = t]
        BY <3>3, <4>2
      <4> QED
        BY <4>1, <4>3, <4>4, IdleIsWalker DEF Walker
    <3> QED
      BY <1>1, <3>1, <3>4 DEF SearchElement, WalkTypes, StoreTypes, StreamTypes, LoadTypes, store, stream, load
  <2> QED
    BY <2>1, <2>2, <2>3
<1> QED
  BY <1>2, <1>3, TypesNext

LEMMA DumpTypes ==
  ASSUME ListInv, NEW d \in Dumpers, DumpFile(d) \/ DumpNext(d)
  PROVE  TypeOK'
<1>1. ListTypes /\ WalkTypes /\ StreamTypes /\ LoadTypes
  BY TypesAre DEF StoreTypes, ListInv
<1>2. ListTypes' /\ LoadTypes'
  BY <1>1 DEF DumpFile, DumpNext, Write, CloseFile, Stray, list, store, load, ListTypes, LoadTypes
<1>3. PICK w \in Walker({"idle", "walk", "undefined"}) : w = dumper[d]
  BY <1>1 DEF WalkTypes
<1>4. CASE DumpFile(d)
  <2>1. forward[Header][0] \in Keys \cup {Null}
    BY <1>1, ZeroLevel DEF ListTypes
  <2>2. PICK a, c : a = (writer # NoWriter) /\ c = (writer.op \in {"delete", "free"})
    OBVIOUS
  <2>3. a \in BOOLEAN /\ c \in BOOLEAN
    BY <2>2
  <2>4. PICK n \in Walker({"idle", "walk", "undefined"}) :
          n = [Idle EXCEPT !.pc = "walk", !.cur = forward[Header][0],
                           !.disturbed = a, !.deleted = c]
    BY <2>1, <2>3, IdleIsWalker DEF Walker
  <2>5. dumper' = [dumper EXCEPT ![d] = n]
    BY <1>4, <2>2, <2>4 DEF DumpFile
  <2>6. WalkTypes'
    BY <1>1, <1>4, <2>5, IdleIsWalker DEF DumpFile, WalkTypes
  <2>7. PICK t : t = Joins(d)
    OBVIOUS
  <2>8. t \in BOOLEAN
    BY <1>1, <2>7 DEF Joins, StreamTypes
  <2>9. file' = <<>> /\ isOpen' = TRUE /\ mixed' = t /\ clean' = FALSE /\ saved' = {}
    BY <1>4, <2>7 DEF DumpFile, Opened
  <2>10. <<>> \in Seq(Text)
    OBVIOUS
  <2>11. StreamTypes'
    BY <2>8, <2>9, <2>10 DEF StreamTypes
  <2> QED
    BY <1>2, <2>6, <2>11, TypesNext DEF StoreTypes
<1>5. CASE Write(d)
  <2>1. PICK c \in Keys : c = dumper[d].cur
    BY <1>1, <1>5 DEF Write, ListTypes
  <2>2. forward[c][0] \in Keys \cup {Null}
    BY <1>1, ZeroLevel DEF ListTypes
  <2>3. PICK n \in Walker({"idle", "walk", "undefined"}) : n = [w EXCEPT !.cur = forward[c][0]]
    BY <2>2 DEF Walker
  <2>4. dumper' = [dumper EXCEPT ![d] = n]
    BY <1>1, <1>3, <1>5, <2>1, <2>3 DEF Write, WalkTypes
  <2>5. PICK ls \in Seq(Text) : ls = LinesOf(TextOf(c, value[c]))
    <3>1. KeyText[c] \in Seq(Char) /\ value[c] \in Seq(Char) /\ <<Colon>> \in Seq(Char)
      BY <1>1, ListAssumption DEF ListTypes, Text
    <3>2. KeyText[c] \o <<Colon>> \o value[c] \in Seq(Char)
      BY <3>1, ConcatProperties
    <3> QED
      BY <3>2, LinesAreTexts DEF TextOf, Text
  <2>6. file' = file \/ file' = file \o ls
    BY <1>5, <2>1, <2>5 DEF Write
  <2>7. file' \in Seq(Text)
    BY <1>1, <2>6, ConcatProperties DEF StreamTypes
  <2>8. WalkTypes' /\ StreamTypes'
    BY <1>1, <1>5, <2>4, <2>7 DEF Write, WalkTypes, StreamTypes
  <2> QED
    BY <1>2, <2>8, TypesNext DEF StoreTypes
<1>6. CASE CloseFile(d)
  <2>1. WalkTypes'
    BY <1>1, <1>6, IdleIsWalker DEF CloseFile, WalkTypes
  <2>2. file' \in Seq(Text)
    BY <1>1, <1>6, ListAssumption DEF CloseFile, StreamTypes
  <2>3. Contents \subseteq Text \X Values
    <3>1. Range(Chain(0)) \subseteq Keys
      BY Chains, ZeroLevel DEF Members, ListInv, TypeOK
    <3>2. ASSUME NEW k \in Keys PROVE <<KeyText[k], value[k]>> \in Text \X Values
      BY <1>1, ListAssumption DEF ListTypes
    <3> QED
      BY <3>1, <3>2 DEF Contents
  <2>4. saved' \subseteq Text \X Values
    BY <1>6, <2>3 DEF CloseFile
  <2>5. clean' \in BOOLEAN
    BY <1>6 DEF CloseFile
  <2>6. StreamTypes'
    BY <1>6, <2>2, <2>4, <2>5 DEF CloseFile, StreamTypes
  <2> QED
    BY <1>2, <2>1, <2>6, TypesNext DEF StoreTypes
<1>7. CASE Stray(d)
  <2>1. PICK n \in Walker({"idle", "walk", "undefined"}) : n = [w EXCEPT !.pc = "undefined"]
    BY DEF Walker
  <2>2. dumper' = [dumper EXCEPT ![d] = n]
    BY <1>1, <1>3, <1>7, <2>1 DEF Stray, WalkTypes
  <2>3. WalkTypes' /\ StreamTypes'
    BY <1>1, <1>7, <2>2 DEF Stray, WalkTypes, StreamTypes, store, stream
  <2> QED
    BY <1>2, <2>3, TypesNext DEF StoreTypes
<1> QED
  BY <1>4, <1>5, <1>6, <1>7 DEF DumpNext

LEMMA TornIsText ==
  ASSUME NEW lines \in Seq(Text)
  PROVE  Torn(lines) \subseteq Seq(Text)
<1>1. PICK len \in Nat : len = Len(lines)
  BY LenProperties
<1>2. ASSUME NEW n \in 0 .. len PROVE SubSeq(lines, 1, n) \in Seq(Text)
  BY <1>1, PartOfText
<1>3. ASSUME NEW n \in 1 .. len, NEW i \in 1 .. Len(lines[n])
      PROVE  Append(SubSeq(lines, 1, n - 1), SubSeq(lines[n], 1, i)) \in Seq(Text)
  <2>1. PICK l \in Seq(Char) : l = lines[n]
    BY <1>1, ElementOfSeq DEF Text
  <2>2. i \in Int /\ i <= Len(l) /\ 1 \in Nat \ {0}
    BY <2>1, LenProperties
  <2>3. PICK t \in Text : t = SubSeq(lines[n], 1, i)
    BY <2>1, <2>2, PartOfText DEF Text
  <2>4. PICK f \in Seq(Text) : f = SubSeq(lines, 1, n - 1)
    <3>1. n - 1 \in 0 .. len
      OBVIOUS
    <3> QED
      BY <1>2, <3>1
  <2> QED
    BY <2>3, <2>4, AppendProperties
<1> SUFFICES ASSUME NEW f \in Torn(lines) PROVE f \in Seq(Text)
  OBVIOUS
<1>4. \/ \E n \in 0 .. len : f = SubSeq(lines, 1, n)
      \/ \E n \in 1 .. len : \E i \in 1 .. Len(lines[n]) :
            f = Append(SubSeq(lines, 1, n - 1), SubSeq(lines[n], 1, i))
  BY <1>1 DEF Torn
<1> QED
  BY <1>2, <1>3, <1>4

LEMMA RestartTypes ==
  ASSUME TypeOK, Restart
  PROVE  TypeOK'
<1>1. StreamTypes /\ file \in Seq(Text)
  BY TypesAre DEF StoreTypes, StreamTypes
<1>2. ListTypes'
  BY ZeroLevel, ListAssumption, NoWriterIsWriter DEF Restart, ListTypes
<1>3. WalkTypes'
  BY IdleIsWalker DEF Restart, WalkTypes
<1>4. file' \in Seq(Text) /\ loading' = file'
  BY <1>1, TornIsText, ListAssumption DEF Restart
<1>7. <<>> \in Text
  BY DEF Text
<1>5. <<<<>>, <<>>>> \in Text \X Text
  BY <1>7
<1>6. StreamTypes' /\ LoadTypes'
  BY <1>1, <1>4, <1>5 DEF Restart, StreamTypes, LoadTypes
<1> QED
  BY <1>2, <1>3, <1>6, TypesNext DEF StoreTypes

-----------------------------------------------------------------------------
(* The walkers.                                                            *)

LEMMA InitWalks == Init => WalkInv
  BY DEF Init, WalkInv, ReaderIsRight, DumpersAreRight, SearchIsRight, Idle

\* A writer's step tells the walkers.
LEMMA DisturbedWalks ==
  ASSUME ListInv, ListInv', WalkInv, NEW deletes \in BOOLEAN, Disturbs(deletes),
         deletes \/ live \subseteq live', phase' = phase
  PROVE  WalkInv'
<1>1. Range(ChainOf(forward', 0)) = Members(0)'
  BY ChainsNext, ZeroLevel
<1>2. WalkTypes
  BY DEF ListInv, TypeOK, WalkTypes
<1>3. ASSUME NEW d \in Dumpers
      PROVE  /\ dumper'[d].pc = dumper[d].pc
             /\ dumper[d].pc = "walk" =>
                   /\ dumper'[d].cur = dumper[d].cur /\ dumper'[d].disturbed
                   /\ dumper'[d].deleted = (dumper[d].deleted \/ deletes)
             /\ dumper[d].pc # "walk" => dumper'[d] = dumper[d]
  <2>1. PICK w \in Walker({"idle", "walk", "undefined"}) : w = dumper[d]
    BY <1>2 DEF WalkTypes
  <2>2. dumper'[d] = IF w.pc = "walk" THEN [w EXCEPT !.disturbed = TRUE, !.deleted = @ \/ deletes] ELSE w
    BY <2>1 DEF Disturbs
  <2> QED
    BY <2>1, <2>2 DEF Walker
<1>4. DumpersAreRight'
  BY <1>3 DEF WalkInv, DumpersAreRight
<1>5. CASE reader.pc \in {"walk", "last"}
  <2>1. PICK t : t = (reader.key \in Members(0)')
    OBVIOUS
  <2>2. t \in BOOLEAN
    BY <2>1
  <2>3. reader' = [reader EXCEPT !.disturbed = TRUE, !.deleted = @ \/ deletes,
                                 !.there = @ \/ t]
    BY <1>1, <1>5, <2>1 DEF Disturbs
  <2>4. /\ reader'.pc = reader.pc /\ reader'.key = reader.key /\ reader'.cur = reader.cur
        /\ reader'.disturbed /\ reader'.deleted = (reader.deleted \/ deletes)
        /\ reader'.there = (reader.there \/ t)
    BY <1>2, <2>2, <2>3 DEF WalkTypes, Walker
  <2>5. phase # "load"
    BY <1>5 DEF WalkInv, ReaderIsRight, Idle
  <2>6. /\ reader.key \in Keys /\ reader.cur \in Keys \cup {Header}
        /\ ~reader.deleted => reader.cur \in live \cup {Header}
    BY <1>5 DEF WalkInv, ReaderIsRight
  <2>7. ReaderIsRight'
    BY <2>1, <2>4, <2>5, <2>6 DEF ReaderIsRight
  <2>8. reader'.pc \notin {"done", "undefined"}
    BY <1>5, <2>4
  <2> QED
    BY <1>4, <2>7, <2>8 DEF WalkInv, SearchIsRight, DumpersAreRight
<1>6. CASE reader.pc \notin {"walk", "last"}
  <2>1. reader' = reader
    BY <1>6 DEF Disturbs
  <2>2. phase' = "load" => reader' = Idle /\ dumper' = [d \in Dumpers |-> Idle]
    <3> SUFFICES ASSUME phase = "load" PROVE dumper' = [d \in Dumpers |-> Idle] /\ reader = Idle
      BY <2>1
    <3>1. Idle.pc = "idle"
      BY DEF Idle
    <3>2. reader = Idle /\ dumper = [d \in Dumpers |-> Idle]
      BY DEF WalkInv, ReaderIsRight
    <3>3. dumper' = [d \in Dumpers |-> dumper'[d]]
      BY DEF Disturbs
    <3>4. \A d \in Dumpers : dumper'[d] = Idle
      BY <1>3, <3>1, <3>2
    <3> QED
      BY <3>2, <3>3, <3>4
  <2>3. ReaderIsRight'
    BY <1>6, <2>1, <2>2 DEF ReaderIsRight
  <2> QED
    BY <1>4, <1>6, <2>1, <2>3 DEF WalkInv, SearchIsRight, DumpersAreRight
<1> QED
  BY <1>5, <1>6

\* What a step of the search finds when the list stays as it is.
LEMMA SearchStarts ==
  ASSUME ListInv, ListInv', WalkInv, NEW key \in Keys, SearchElement(key),
         \A i \in Levels : Members(i)' = Members(i)
  PROVE  WalkInv'
<1>1. /\ reader'.pc = "walk" /\ reader'.at = curLevel /\ reader'.key = key
      /\ reader'.cur = Header /\ reader'.there = Exists(key)
      /\ reader'.disturbed = (writer # NoWriter)
      /\ phase = "run" /\ UNCHANGED <<list, writer, dumper, store>>
  BY DEF SearchElement, Idle
<1>2. Exists(key) <=> key \in Members(0)
  BY Chains, ZeroLevel DEF Exists
<1>3. Header < key /\ Members(0)' = Members(0)
  BY KeyIsNumber, ZeroLevel
<1>4. ReaderIsRight'
  BY <1>1, <1>2, <1>3 DEF ReaderIsRight, store, load
<1> QED
  <2>1. DumpersAreRight'
    BY <1>1 DEF WalkInv, DumpersAreRight, list
  <2> QED
    BY <1>1, <1>4, <2>1 DEF WalkInv, DumpersAreRight, SearchIsRight

LEMMA Reaches ==
  ASSUME ListInv, WalkInv, reader.pc \in {"walk", "last"}
  PROVE  /\ reader.at \in Levels /\ reader.cur \in Keys \cup {Header}
         /\ \A i \in Levels : forward[reader.cur][i] \in Members(i) \cup {Null}
         /\ ~reader.deleted =>
               /\ Usable(reader.cur)
               /\ \A i \in Levels : LET next == forward[reader.cur][i]
                                     IN  next = Null \/ Usable(next)
<1>1. reader.at \in Levels
  BY DEF ListInv, TypeOK, Walker
<1>2. reader.cur \in Keys \cup {Header}
  BY DEF WalkInv, ReaderIsRight
<1>3. \A i \in Levels : forward[reader.cur][i] \in Members(i) \cup {Null} /\ Members(i) \subseteq live
  BY <1>2 DEF ListInv, Upwards, Members
<1> QED
  BY <1>1, <1>2, <1>3 DEF WalkInv, ReaderIsRight, Usable

LEMMA WalkKeeps ==
  ASSUME ListInv, ListInv', WalkInv, Walk, \A i \in Levels : Members(i)' = Members(i)
  PROVE  WalkInv'
<1>1. reader.pc = "walk" /\ UNCHANGED <<list, writer, dumper, store>>
  BY DEF Walk
<1>2. PICK next : next = forward[reader.cur][reader.at]
  OBVIOUS
<1>3. /\ reader.at \in Levels /\ reader.cur \in Keys \cup {Header}
      /\ next \in Members(reader.at) \cup {Null}
      /\ ~reader.deleted => Usable(reader.cur) /\ (next = Null \/ Usable(next))
  BY <1>1, <1>2, Reaches
<1>4. /\ phase # "load" /\ reader.key \in Keys
      /\ reader.key \in Members(0) => reader.there
      /\ ~reader.disturbed =>
            /\ writer = NoWriter /\ (reader.there => reader.key \in Members(0))
            /\ reader.cur \in Members(reader.at) \cup {Header} /\ reader.cur < reader.key
  BY <1>1 DEF WalkInv, ReaderIsRight, Idle
<1>5. reader \in Walker({"idle", "walk", "last", "done", "undefined"})
  BY DEF ListInv, TypeOK
<1>6. /\ DumpersAreRight'
      /\ phase' = phase /\ live' = live /\ writer' = writer /\ forward' = forward
  BY <1>1 DEF WalkInv, DumpersAreRight, SearchIsRight, list, store, load
<1>7. CASE ~(Usable(reader.cur) /\ (next = Null \/ Usable(next)))
  <2>1. reader' = [reader EXCEPT !.pc = "undefined"]
    BY <1>2, <1>7 DEF Walk
  <2>2. reader'.pc = "undefined" /\ reader'.deleted = reader.deleted
    BY <1>5, <2>1 DEF Walker
  <2>3. reader.deleted
    BY <1>3, <1>7
  <2> QED
    BY <1>4, <1>6, <2>2, <2>3 DEF WalkInv, ReaderIsRight, SearchIsRight, DumpersAreRight
<1>8. CASE Usable(reader.cur) /\ (next = Null \/ Usable(next))
  <2>1. reader' = After(reader, next)
    BY <1>2, <1>8 DEF Walk
  <2>2. /\ reader'.key = reader.key /\ reader'.there = reader.there
        /\ reader'.disturbed = reader.disturbed /\ reader'.deleted = reader.deleted
        /\ reader'.pc \in {"walk", "last"}
    BY <1>1, <1>5, <2>1 DEF After, Walker
  <2>3. Members(0)' = Members(0) /\ \A i \in Levels : Members(i)' = Members(i) /\ Members(i) \subseteq Keys
    BY ZeroLevel DEF Members, ListInv, TypeOK
  <2>4. CASE next < reader.key
    <3>1. reader'.cur = next /\ reader'.at = reader.at /\ reader'.pc = "walk"
      BY <1>1, <1>5, <2>1, <2>4 DEF After, Walker
    <3>2. next \in Keys /\ next \in Members(reader.at)
      BY <1>3, <1>4, <2>3, <2>4, KeyIsNumber
    <3>3. next # Null /\ next # Header /\ next \in live
      BY <1>8, <3>2, KeyIsNumber DEF Usable
    <3>4. ReaderIsRight'
      BY <1>3, <1>4, <1>6, <2>2, <2>3, <2>4, <3>1, <3>2, <3>3 DEF ReaderIsRight
    <3> QED
      BY <1>6, <2>2, <3>4 DEF WalkInv, SearchIsRight, DumpersAreRight
  <2>5. CASE ~(next < reader.key) /\ reader.at > 0
    <3>1. PICK i \in Levels : i = reader.at - 1
      BY <1>3, <2>5, ListAssumption DEF Levels
    <3>2. reader'.cur = reader.cur /\ reader'.at = i /\ reader'.pc = "walk"
      BY <1>1, <1>5, <2>1, <2>5, <3>1 DEF After, Walker
    <3>3. ~reader.disturbed => reader.cur \in Members(i) \cup {Header}
      <4> SUFFICES ASSUME ~reader.disturbed, reader.cur # Header PROVE reader.cur \in Members(i)
        OBVIOUS
      <4>1. writer = NoWriter /\ reader.cur \in Members(reader.at)
        BY <1>4
      <4>2. reader.cur \in live /\ level[reader.cur] >= reader.at
        BY <4>1 DEF Members
      <4>3. level[reader.cur] \in Nat /\ reader.at \in Nat /\ i \in Nat
        BY <1>3, <4>2, ZeroLevel DEF ListInv, TypeOK
      <4>4. level[reader.cur] >= i
        BY <3>1, <4>2, <4>3
      <4> QED
        BY <4>1, <4>2, <4>4, IdleMembers
    <3>4. ~reader.deleted => reader.cur \in live \cup {Header}
      BY <1>8 DEF Usable
    <3>5. Members(reader.at)' = Members(i)
      BY <2>3, <3>2
    <3>6. ReaderIsRight'
      BY <1>3, <1>4, <1>6, <2>2, <2>3, <3>2, <3>3, <3>4, <3>5 DEF ReaderIsRight
    <3> QED
      BY <1>6, <2>2, <3>6 DEF WalkInv, SearchIsRight, DumpersAreRight
  <2>6. CASE ~(next < reader.key) /\ ~(reader.at > 0)
    <3>1. reader'.cur = reader.cur /\ reader'.at = reader.at /\ reader'.pc = "last"
      BY <1>1, <1>5, <2>1, <2>6 DEF After, Walker
    <3>2. reader.at = 0
      BY <1>3, <2>6, ListAssumption DEF Levels
    <3>3. reader.key <= next
      <4>1. next \in Keys \cup {Null}
        BY <1>3, <2>3
      <4> QED
        BY <1>4, <2>6, <4>1, KeyIsNumber
    <3>4. ~reader.deleted => reader.cur \in live \cup {Header}
      BY <1>8 DEF Usable
    <3>5. ReaderIsRight'
      <4>1. reader'.key <= forward'[reader'.cur][0]
        BY <1>2, <1>6, <2>2, <3>1, <3>2, <3>3
      <4> QED
        BY <1>3, <1>4, <1>6, <2>2, <2>3, <3>1, <3>2, <3>4, <4>1 DEF ReaderIsRight
    <3> QED
      BY <1>6, <2>2, <3>5 DEF WalkInv, SearchIsRight, ReaderIsRight, DumpersAreRight
  <2> QED
    BY <2>4, <2>5, <2>6
<1> QED
  BY <1>7, <1>8

LEMMA LastKeeps ==
  ASSUME ListInv, ListInv', WalkInv, Last_, \A i \in Levels : Members(i)' = Members(i)
  PROVE  WalkInv'
<1>1. reader.pc = "last" /\ UNCHANGED <<list, writer, dumper, store>>
  BY DEF Last_
<1>2. PICK next : next = forward[reader.cur][0]
  OBVIOUS
<1>3. /\ reader.cur \in Keys \cup {Header} /\ next \in Members(0) \cup {Null}
      /\ ~reader.deleted => Usable(reader.cur) /\ (next = Null \/ Usable(next))
  BY <1>1, <1>2, Reaches, ZeroLevel
<1>4. /\ phase # "load" /\ reader.key \in Keys
      /\ reader.key \in Members(0) => reader.there
      /\ ~reader.disturbed =>
            /\ reader.there => reader.key \in Members(0)
            /\ reader.cur \in Members(0) \cup {Header} /\ reader.cur < reader.key
            /\ reader.key <= next
  BY <1>1, <1>2 DEF WalkInv, ReaderIsRight, Idle
<1>5. reader \in Walker({"idle", "walk", "last", "done", "undefined"})
  BY DEF ListInv, TypeOK
<1>6. /\ DumpersAreRight' /\ phase' = phase
  BY <1>1 DEF WalkInv, DumpersAreRight, SearchIsRight, list, store, load
<1>7. CASE ~(Usable(reader.cur) /\ (next = Null \/ Usable(next)))
  <2>1. reader' = [reader EXCEPT !.pc = "undefined"]
    BY <1>2, <1>7 DEF Last_
  <2>2. reader'.pc = "undefined" /\ reader'.deleted = reader.deleted
    BY <1>5, <2>1 DEF Walker
  <2>3. reader.deleted
    BY <1>3, <1>7
  <2> QED
    BY <1>4, <1>6, <2>2, <2>3 DEF WalkInv, ReaderIsRight, SearchIsRight, DumpersAreRight
<1>8. CASE Usable(reader.cur) /\ (next = Null \/ Usable(next))
  <2>1. reader' = [reader EXCEPT !.pc = "done", !.cur = Header, !.found = next = reader.key]
    BY <1>2, <1>8 DEF Last_
  <2>2. /\ reader'.pc = "done" /\ reader'.found = (next = reader.key)
        /\ reader'.there = reader.there /\ reader'.disturbed = reader.disturbed
    BY <1>5, <2>1 DEF Walker
  <2>3. next = reader.key => reader.there
    BY <1>3, <1>4, KeyIsNumber
  <2>4. next # reader.key /\ ~reader.disturbed => ~reader.there
    <3> SUFFICES ASSUME next # reader.key, ~reader.disturbed, reader.key \in Members(0) PROVE FALSE
      BY <1>4
    <3>1. reader.key <= reader.cur \/ next <= reader.key
      BY <1>2, <1>4, ZeroLevel DEF ListInv, NonePassed, PassesNone
    <3>2. next \in Keys \cup {Null} /\ reader.cur \in Keys \cup {Header}
      BY <1>3 DEF Members, ListInv, TypeOK
    <3> QED
      BY <1>4, <3>1, <3>2, KeyIsNumber
  <2> QED
    BY <1>4, <1>6, <2>2, <2>3, <2>4 DEF WalkInv, ReaderIsRight, SearchIsRight, DumpersAreRight
<1> QED
  BY <1>7, <1>8

LEMMA DumpKeeps ==
  ASSUME ListInv, ListInv', WalkInv, NEW d \in Dumpers, DumpFile(d) \/ DumpNext(d),
         \A i \in Levels : Members(i)' = Members(i)
  PROVE  WalkInv'
<1>1. \A n \in Keys \cup {Header} : forward[n][0] \in live \cup {Null}
  BY ZeroLevel DEF ListInv, Upwards, Members
<1>2. PICK w \in Walker({"idle", "walk", "undefined"}) : w = dumper[d]
  BY DEF ListInv, TypeOK
<1>3. /\ dumper \in [Dumpers -> Walker({"idle", "walk", "undefined"})] /\ live \subseteq Keys
      /\ UNCHANGED <<live, phase, writer, forward>>
  BY DEF ListInv, TypeOK, DumpFile, DumpNext, Write, CloseFile, Stray, list, store, load
<1>4. ASSUME NEW n, dumper' = [dumper EXCEPT ![d] = n],
             n.pc = "walk" /\ ~n.deleted => n.cur \in live \cup {Null},
             n.pc = "undefined" => n.deleted
      PROVE  DumpersAreRight'
  BY <1>3, <1>4 DEF WalkInv, DumpersAreRight
<1>5. CASE DumpFile(d)
  <2>1. PICK n : n = [Idle EXCEPT !.pc = "walk", !.cur = forward[Header][0],
                                  !.disturbed = writer # NoWriter,
                                  !.deleted = writer.op \in {"delete", "free"}]
    OBVIOUS
  <2>2. n.pc = "walk" /\ n.cur \in live \cup {Null}
    BY <1>1, <2>1 DEF Idle
  <2>3. DumpersAreRight'
    BY <1>4, <1>5, <2>1, <2>2 DEF DumpFile
  <2>4. reader' = Idle /\ phase' = "run"
    BY <1>3, <1>5 DEF DumpFile
  <2> QED
    BY <2>3, <2>4 DEF WalkInv, ReaderIsRight, SearchIsRight, DumpersAreRight, Idle
<1>6. CASE DumpNext(d)
  <2>1. reader' = reader /\ w.pc = "walk"
    BY <1>2, <1>6 DEF DumpNext, Write, CloseFile, Stray
  <2>2. phase # "load"
    BY <1>2, <2>1 DEF WalkInv, ReaderIsRight, Idle
  <2>3. ReaderIsRight'
    <3>1. reader.at \in Levels
      BY DEF ListInv, TypeOK, Walker
    <3>2. Members(0)' = Members(0) /\ Members(reader.at)' = Members(reader.at)
      <4>1. PICK i \in Levels : i = reader.at
        BY <3>1
      <4>2. Members(i)' = Members(i) /\ reader'.at = i
        BY <2>1, <4>1
      <4> QED
        BY <4>1, <4>2, ZeroLevel
    <3> QED
      BY <1>3, <2>1, <2>2, <3>2 DEF WalkInv, ReaderIsRight
  <2>4. DumpersAreRight'
    <3>1. CASE Write(d)
      <4>1. PICK n : n = [w EXCEPT !.cur = forward[w.cur][0]]
        OBVIOUS
      <4>2. w.cur \in live /\ dumper' = [dumper EXCEPT ![d] = n]
        BY <1>2, <1>3, <3>1, <4>1 DEF Write
      <4>3. n.pc = "walk" /\ n.cur \in live \cup {Null}
        BY <1>1, <1>3, <2>1, <4>1, <4>2 DEF Walker
      <4> QED
        BY <1>4, <4>2, <4>3
    <3>2. CASE CloseFile(d)
      BY <1>4, <3>2 DEF CloseFile, Idle
    <3>3. CASE Stray(d)
      <4>1. PICK n : n = [w EXCEPT !.pc = "undefined"]
        OBVIOUS
      <4>2. w.cur \notin live \cup {Null} /\ dumper' = [dumper EXCEPT ![d] = n]
        BY <1>2, <1>3, <3>3, <4>1 DEF Stray
      <4>3. n.pc = "undefined" /\ n.deleted
        BY <1>2, <2>1, <4>1, <4>2 DEF Walker, WalkInv, DumpersAreRight
      <4> QED
        BY <1>4, <4>2, <4>3
    <3> QED
      BY <1>6, <3>1, <3>2, <3>3 DEF DumpNext
  <2> QED
    BY <2>1, <2>3, <2>4 DEF WalkInv, SearchIsRight, DumpersAreRight
<1> QED
  BY <1>5, <1>6

LEMMA RestartWalks ==
  ASSUME Restart
  PROVE  WalkInv'
  BY DEF Restart, WalkInv, ReaderIsRight, DumpersAreRight, SearchIsRight, Idle

LEMMA InsertKeeps ==
  ASSUME ListInv, TypeOK', NEW key \in Keys, NEW v, InsertElement(key, v)
  PROVE  ListInv' /\ live \subseteq live'
<1>1. CASE UNCHANGED <<forward, level, live, curLevel, writer, elementCount>>
  BY <1>1, SameList
<1>2. CASE StartsInsert(key)
  <2>1. live \subseteq live'
    BY <1>2 DEF StartsInsert
  <2> QED
    BY <1>2, <2>1, InsertIs, StartInsertKeeps
<1> QED
  BY <1>1, <1>2, InsertIs

LEMMA SkipListStep ==
  ASSUME ListInv, WalkInv, Next
  PROVE  ListInv' /\ WalkInv'
<1>1. ASSUME NEW key \in Keys, NEW v \in Values, InsertElement(key, v), phase' = phase, StoreTypes'
      PROVE  ListInv' /\ WalkInv'
  <2>1. TypeOK'
    BY <1>1, InsertTypes, TypesNext
  <2>2. ListInv' /\ live \subseteq live'
    BY <1>1, <2>1, InsertKeeps
  <2>3. Disturbs(FALSE)
    BY <1>1 DEF InsertElement
  <2> QED
    BY <1>1, <2>2, <2>3, DisturbedWalks
<1>2. StoreTypes
  BY TypesAre DEF ListInv
<1>3. CASE \E p \in Pairs : phase = "run" /\ InsertElement(p[1], p[2]) /\ UNCHANGED store
  <2>1. PICK p \in Pairs : InsertElement(p[1], p[2]) /\ UNCHANGED store
    BY <1>3
  <2>2. p[1] \in Keys /\ p[2] \in Values
    BY ListAssumption
  <2>3. StoreTypes' /\ phase' = phase
    BY <1>2, <2>1 DEF StoreTypes, StreamTypes, LoadTypes, store, stream, load
  <2> QED
    BY <1>1, <2>1, <2>2, <2>3
<1>4. CASE \E k \in Keys : phase = "run" /\ DeleteElement(k)
  <2>1. PICK k \in Keys : DeleteElement(k)
    BY <1>4
  <2>2. ListInv'
    BY <2>1, WriterTypes, StartDeleteKeeps
  <2>3. Disturbs(TRUE) /\ phase' = phase
    BY <2>1 DEF DeleteElement, store, load
  <2> QED
    BY <2>2, <2>3, DisturbedWalks
<1>5. CASE Link
  <2>1. ListInv'
    BY <1>5, WriterTypes, LinkKeeps
  <2>2. Disturbs(FALSE) /\ phase' = phase /\ live' = live
    BY <1>5 DEF Link, store, load
  <2> QED
    BY <2>1, <2>2, DisturbedWalks
<1>6. CASE Unlink \/ Free \/ Shrink
  <2>1. ListInv'
    BY <1>6, WriterTypes, UnlinkKeeps, FreeKeeps, ShrinkKeeps
  <2>2. Disturbs(TRUE) /\ phase' = phase
    BY <1>6 DEF Unlink, Free, Shrink, store, load
  <2> QED
    BY <2>1, <2>2, DisturbedWalks
<1>7. CASE Walk \/ Last_ \/ \E k \in Keys : SearchElement(k)
  <2>1. TypeOK'
    BY <1>7, WalkerTypes
  <2>2. UNCHANGED <<list, writer>>
    BY <1>7 DEF Walk, Last_, SearchElement
  <2>3. ListInv' /\ \A i \in Levels : Members(i)' = Members(i)
    BY <2>1, <2>2, SameList DEF list
  <2> QED
    BY <1>7, <2>3, WalkKeeps, LastKeeps, SearchStarts
<1>10. CASE \E d \in Dumpers : DumpFile(d) \/ DumpNext(d)
  <2>1. PICK d \in Dumpers : DumpFile(d) \/ DumpNext(d)
    BY <1>10
  <2>2. TypeOK' /\ UNCHANGED <<list, writer>>
    BY <2>1, DumpTypes DEF DumpFile, DumpNext, Write, CloseFile, Stray
  <2>3. ListInv' /\ \A i \in Levels : Members(i)' = Members(i)
    BY <2>2, SameList DEF list
  <2> QED
    BY <2>1, <2>3, DumpKeeps
<1>8. CASE Restart
  BY <1>8, RestartTypes, RestartKeeps, RestartWalks DEF ListInv
<1>9. CASE LoadLine
  <2>1. StoreTypes' /\ writer = NoWriter /\ phase = "load"
    BY <1>2, <1>9, LoadLineIs
  <2>2. CASE UNCHANGED <<list, writer, reader, dumper>>
    <3>1. TypeOK'
      <4>1. ListTypes' /\ WalkTypes'
        BY <2>2, TypesAre DEF ListInv, ListTypes, WalkTypes, list
      <4> QED
        BY <2>1, <4>1, TypesNext
    <3>2. ListInv'
      BY <2>2, <3>1, SameList DEF list
    <3>3. reader = Idle /\ dumper = [d \in Dumpers |-> Idle]
      BY <2>1 DEF WalkInv, ReaderIsRight
    <3>4. WalkInv'
      BY <2>2, <3>3 DEF WalkInv, ReaderIsRight, DumpersAreRight, SearchIsRight, Idle
    <3> QED
      BY <3>2, <3>4
  <2>3. CASE phase' = phase /\ \E key \in Keys, v \in Values : InsertElement(key, v)
    BY <1>1, <2>1, <2>3
  <2> QED
    BY <1>2, <1>9, <2>2, <2>3, LoadLineIs
<1> QED
  BY <1>3, <1>4, <1>5, <1>6, <1>7, <1>8, <1>9, <1>10 DEF Next

LEMMA SkipListStutter ==
  ASSUME ListInv, WalkInv, UNCHANGED vars
  PROVE  ListInv' /\ WalkInv'
<1>1. TypeOK'
  BY DEF ListInv, TypeOK, vars, list, store, stream, load
<1>2. ListInv' /\ \A i \in Levels : Members(i)' = Members(i)
  BY <1>1, SameList DEF vars, list
<1>3. /\ reader' = reader /\ dumper' = dumper /\ live' = live /\ phase' = phase /\ writer' = writer
      /\ forward' = forward
  BY DEF vars, list, store, load
<1>4. Members(0)' = Members(0) /\ Members(reader.at)' = Members(reader.at)
  <2>1. PICK i \in Levels : i = reader.at
    BY DEF ListInv, TypeOK, Walker
  <2>2. Members(i)' = Members(i) /\ reader'.at = i
    BY <1>2, <1>3, <2>1
  <2> QED
    BY <1>2, <2>1, <2>2, ZeroLevel
<1>5. ReaderIsRight'
  BY <1>3, <1>4 DEF WalkInv, ReaderIsRight
<1> QED
  BY <1>2, <1>3, <1>5 DEF WalkInv, DumpersAreRight, SearchIsRight

LEMMA SkipListInvHolds == Spec => [](ListInv /\ WalkInv)
<1>1. Init => ListInv /\ WalkInv
  BY InitList_, InitWalks
<1>2. ListInv /\ WalkInv /\ [Next]_vars => (ListInv /\ WalkInv)'
  BY SkipListStep, SkipListStutter
<1> QED
  BY <1>1, <1>2, PTL DEF Spec

\* Between two writers, the levels of a skip list of any keys and height are what
\* insertElement and deleteElement mean them to be.
THEOREM LevelsStayLinked == Spec => []WellLinked
<1>1. ListInv => WellLinked
  <2> SUFFICES ASSUME ListInv, writer = NoWriter
               PROVE  /\ \A i \in Levels :
                            /\ Ascends(Chain(i)) /\ Range(Chain(i)) = {k \in live : level[k] >= i}
                            /\ i > curLevel => Chain(i) = <<>>
                      /\ elementCount = Cardinality(live)
    BY DEF WellLinked, Ascends
  <2>1. ASSUME NEW i \in Levels
        PROVE  /\ Ascends(Chain(i)) /\ Range(Chain(i)) = {k \in live : level[k] >= i}
               /\ i > curLevel => Chain(i) = <<>>
    <3>1. /\ Chain(i) \in Seq(Keys) /\ Ascends(Chain(i))
          /\ Range(Chain(i)) = {k \in live : level[k] >= i}
      BY Chains, IdleMembers
    <3>2. ASSUME i > curLevel PROVE Chain(i) = <<>>
      <4>1. {k \in live : level[k] >= i} = {}
        <5>1. \A k \in live : level[k] \in Nat /\ level[k] <= curLevel
          BY ZeroLevel DEF ListInv, TypeOK, LevelsAreBounded
        <5>2. i \in Nat /\ curLevel \in Nat
          BY ZeroLevel DEF ListInv, TypeOK
        <5> QED
          BY <3>2, <5>1, <5>2
      <4>2. Range(Chain(i)) = {}
        BY <3>1, <4>1
      <4>3. \A j \in DOMAIN Chain(i) : FALSE
        BY <4>2 DEF Range
      <4>4. Len(Chain(i)) \in Nat /\ DOMAIN Chain(i) = 1 .. Len(Chain(i))
        BY <3>1, LenProperties
      <4>5. Len(Chain(i)) = 0
        BY <4>3, <4>4
      <4> QED
        BY <3>1, <4>5, EmptySeq
    <3> QED
      BY <3>1, <3>2
  <2>2. elementCount = Cardinality(live)
    BY Finite DEF ListInv, Counted, NoWriter, TypeOK
  <2> QED
    BY <2>1, <2>2
<1> QED
  BY <1>1, SkipListInvHolds, PTL

\* A search without the lock finds only what was there, and misses only what a writer
\* was in the way of; only a delete takes a node from under a walker.
THEOREM SearchesAreRight == Spec => []SearchIsRight
<1>1. WalkInv => SearchIsRight
  BY DEF WalkInv
<1> QED
  BY <1>1, SkipListInvHolds, PTL
-----------------------------------------------------------------------------
(* The file.                                                               *)

\* The lines are those of the pairs of S, one for each, if the form of the file can
\* hold them.
Wrote(lines, S) ==
    (\A p \in S : Plain(p)) =>
        /\ \A i \in DOMAIN lines : HasPair(lines[i]) /\ Split(lines[i]) \in S
        /\ \A p \in S : \E i \in DOMAIN lines : Split(lines[i]) = p
        /\ \A i, j \in DOMAIN lines : Split(lines[i])[1] = Split(lines[j])[1] => i = j

PairsBefore(n) == {<<KeyText[k], value[k]>> : k \in {m \in live : m < n}}

\* A dump that nothing disturbs has written the nodes before the one it is at, if it is
\* alone; and the file is left to it until it closes.
DumpInv ==
    /\ \A d \in Dumpers : dumper[d].pc = "walk" /\ ~dumper[d].disturbed =>
          /\ writer = NoWriter /\ dumper[d].cur \in live \cup {Null}
          /\ isOpen /\ ~mixed => Wrote(file, PairsBefore(dumper[d].cur))
    /\ \A d, e \in Dumpers :
          dumper[d].pc = "walk" /\ dumper[e].pc = "walk" /\ isOpen /\ ~mixed => d = e
    /\ clean => ~isOpen /\ Wrote(file, saved)

\* A line with a pair, and none of its key behind it among the first n.
IsLast(i, n) ==
    /\ HasPair(file[i])
    /\ \A m \in (i + 1)..n : HasPair(file[m]) => Split(file[m])[1] # Split(file[i])[1]

\* The first n lines were read: the list holds the last pair of each key.
ReadSoFar(n) ==
    /\ \/ lastPair = <<<<>>, <<>>>>
       \/ \E j \in 1..n : /\ HasDelimiter(file[j]) /\ Split(file[j]) = lastPair
                          /\ \A m \in (j + 1)..n : ~HasDelimiter(file[m])
    /\ \A k \in live : \E i \in 1..n : IsLast(i, n) /\ Split(file[i]) = <<KeyText[k], value[k]>>
    /\ \A i \in 1..n : HasPair(file[i]) => \E k \in live : KeyText[k] = Split(file[i])[1]

LoadInv ==
    phase = "load" =>
        /\ writer.op \in {"none", "insert"}
        /\ \E n \in 0..Len(file) :
              /\ Len(loading) = Len(file) - n
              /\ \A j \in 1..Len(loading) : loading[j] = file[n + j]
              /\ ReadSoFar(n)

LEMMA InitFile == Init => DumpInv /\ LoadInv
<1> SUFFICES ASSUME Init PROVE DumpInv /\ LoadInv
  OBVIOUS
<1>1. DumpInv
  BY DEF Init, DumpInv, Idle
<1>2. /\ loading = file /\ file \in Seq(Text) /\ live = {} /\ lastPair = <<<<>>, <<>>>>
      /\ writer.op = "none"
  BY ListAssumption DEF Init, InitList, NoWriter
<1>3. ReadSoFar(0)
  BY <1>2 DEF ReadSoFar
<1>4. Len(file) \in Nat /\ \A j \in 1..Len(loading) : loading[j] = file[0 + j]
  BY <1>2, LenProperties
<1>5. LoadInv
  BY <1>2, <1>3, <1>4 DEF LoadInv
<1> QED
  BY <1>1, <1>5

\* A pair of a key that was not written yet.
LEMMA WroteOneMore ==
  ASSUME NEW lines \in Seq(Text), NEW S, NEW T, NEW key \in Text, NEW v \in Text,
         Wrote(lines, S), T = S \cup {<<key, v>>}, \A p \in S : p[1] # key,
         NEW g, g = lines \o LinesOf(key \o <<Colon>> \o v)
  PROVE  Wrote(g, T)
<1> SUFFICES ASSUME \A p \in T : Plain(p)
             PROVE  /\ \A i \in DOMAIN g : HasPair(g[i]) /\ Split(g[i]) \in T
                    /\ \A p \in T : \E i \in DOMAIN g : Split(g[i]) = p
                    /\ \A i, j \in DOMAIN g : Split(g[i])[1] = Split(g[j])[1] => i = j
  BY DEF Wrote
<1>1. PICK p : p = <<key, v>> /\ p[1] = key /\ p \in T
  OBVIOUS
<1>2. PICK l \in Text : /\ LinesOf(key \o <<Colon>> \o v) = <<l>>
                        /\ HasPair(l) /\ Split(l) = p
  <2>1. Plain(<<key, v>>)
    BY <1>1
  <2>2. PICK line : line = key \o <<Colon>> \o v
    OBVIOUS
  <2>3. line \in Text /\ LinesOf(line) = <<line>> /\ HasPair(line) /\ Split(line) = <<key, v>>
    BY <2>1, <2>2, PlainIsRead
  <2> QED
    BY <1>1, <2>2, <2>3
<1>3. PICK n \in Nat : n = Len(lines) /\ DOMAIN lines = 1 .. n
  BY LenProperties
<1>4. PICK r \in Seq(Text) : g = lines \o r /\ Len(r) = 1 /\ r[1] = l
  <2>1. g = lines \o <<l>>
    BY <1>2
  <2>2. PICK S_ : S_ = Text /\ l \in S_
    OBVIOUS
  <2>3. <<l>> \in Seq(S_) /\ Len(<<l>>) = 1 /\ <<l>>[1] = l
    BY <2>2
  <2> QED
    BY <2>1, <2>2, <2>3
<1>5. /\ g \in Seq(Text) /\ Len(g) = n + 1
      /\ \A i \in 1 .. n + 1 : g[i] = IF i <= n THEN lines[i] ELSE r[i - n]
  <2>1. /\ lines \o r \in Seq(Text) /\ Len(lines \o r) = Len(lines) + Len(r)
        /\ \A i \in 1 .. Len(lines) + Len(r) :
              (lines \o r)[i] = IF i <= Len(lines) THEN lines[i] ELSE r[i - Len(lines)]
    BY ConcatProperties
  <2> QED
    BY <1>3, <1>4, <2>1
<1>6. /\ DOMAIN g = 1 .. n + 1 /\ n + 1 \in 1 .. n + 1
      /\ \A i \in 1 .. n : i \in 1 .. n + 1 /\ g[i] = lines[i]
  <2>1. DOMAIN g = 1 .. n + 1
    BY <1>5, LenProperties
  <2>2. n + 1 \in 1 .. n + 1
    OBVIOUS
  <2>3. ASSUME NEW i \in 1 .. n PROVE i \in 1 .. n + 1 /\ g[i] = lines[i]
    <3>1. i \in 1 .. n + 1 /\ i <= n
      OBVIOUS
    <3>2. g[i] = IF i <= n THEN lines[i] ELSE r[i - n]
      BY <1>5, <3>1
    <3> QED
      BY <3>1, <3>2
  <2> QED
    BY <2>1, <2>2, <2>3
<1>7. g[n + 1] = l
  <2>1. PICK k \in 1 .. n + 1 : k = n + 1
    OBVIOUS
  <2>2. g[k] = IF k <= n THEN lines[k] ELSE r[k - n]
    BY <1>5
  <2>3. ~(k <= n) /\ k - n = 1
    BY <2>1
  <2> QED
    BY <1>4, <2>1, <2>2, <2>3
<1>8. \A i \in 1 .. n + 1 : i \in 1 .. n \/ i = n + 1
  OBVIOUS
<1>9. /\ \A i \in 1 .. n : HasPair(lines[i]) /\ Split(lines[i]) \in S
      /\ \A q \in S : \E i \in 1 .. n : Split(lines[i]) = q
      /\ \A i, j \in 1 .. n : Split(lines[i])[1] = Split(lines[j])[1] => i = j
  BY <1>3 DEF Wrote
<1>10. \A i \in 1 .. n + 1 : HasPair(g[i]) /\ Split(g[i]) \in T
  BY <1>1, <1>2, <1>6, <1>7, <1>8, <1>9
<1>11. \A q \in T : \E i \in 1 .. n + 1 : Split(g[i]) = q
  BY <1>1, <1>2, <1>6, <1>7, <1>9
<1>12. \A i \in 1 .. n : Split(g[i])[1] # key
  BY <1>6, <1>9
<1>13. Split(g[n + 1])[1] = key
  BY <1>1, <1>2, <1>7
<1>14. \A i, j \in 1 .. n + 1 : Split(g[i])[1] = Split(g[j])[1] => i = j
  BY <1>6, <1>8, <1>9, <1>12, <1>13
<1> QED
  BY <1>6, <1>10, <1>11, <1>14

\* With no writer, what the list holds is what its nodes hold.
LEMMA ContentsAre ==
  ASSUME ListInv, writer = NoWriter
  PROVE  Contents = {<<KeyText[k], value[k]>> : k \in live}
  BY Chains, IdleMembers, ZeroLevel DEF Contents

LEMMA DumpStep ==
  ASSUME ListInv, ListInv', DumpInv, NEW d \in Dumpers, DumpFile(d) \/ DumpNext(d)
  PROVE  DumpInv'
<1>1. /\ \A n \in live \cup {Header} : forward[n][0] \in live \cup {Null} /\ n < forward[n][0]
      /\ live \subseteq Keys
  BY ZeroLevel DEF ListInv, TypeOK, Upwards, Members
<1>2. writer = NoWriter => \A n \in live \cup {Header} : \A k \in live : k <= n \/ forward[n][0] <= k
  BY IdleMembers, ZeroLevel DEF ListInv, NonePassed, PassesNone
<1>3. /\ dumper \in [Dumpers -> Walker({"idle", "walk", "undefined"})] /\ file \in Seq(Text)
      /\ value \in [Keys -> Values]
  BY DEF ListInv, TypeOK
<1>4. PICK w \in Walker({"idle", "walk", "undefined"}) : w = dumper[d]
  BY <1>3
<1>5. UNCHANGED <<writer, live, value>>
  BY DEF DumpFile, DumpNext, Write, CloseFile, Stray, list
<1>6. \A n : PairsBefore(n)' = PairsBefore(n)
  BY <1>5 DEF PairsBefore
<1>7. CASE DumpFile(d)
  <2>1. PICK n : /\ dumper' = [dumper EXCEPT ![d] = n]
                 /\ n.cur = forward[Header][0] /\ n.disturbed = (writer # NoWriter)
    <3> DEFINE N == [Idle EXCEPT !.pc = "walk", !.cur = forward[Header][0],
                                 !.disturbed = writer # NoWriter,
                                 !.deleted = writer.op \in {"delete", "free"}]
    <3>1. dumper' = [dumper EXCEPT ![d] = N]
      BY <1>7 DEF DumpFile
    <3>2. PICK b : b = (writer # NoWriter) /\ N.disturbed = b
      BY DEF Idle
    <3>3. N.cur = forward[Header][0]
      BY DEF Idle
    <3> HIDE DEF N
    <3> QED
      BY <3>1, <3>2, <3>3
  <2>2. file' = <<>> /\ isOpen' /\ mixed' = Joins(d) /\ ~clean'
    BY <1>7 DEF DumpFile, Opened
  <2>3. writer = NoWriter => PairsBefore(forward[Header][0]) = {}
    <3> SUFFICES ASSUME writer = NoWriter, NEW m \in live, m < forward[Header][0] PROVE FALSE
      BY DEF PairsBefore
    <3>1. m <= Header \/ forward[Header][0] <= m
      BY <1>2
    <3>2. forward[Header][0] \in Keys \cup {Null} /\ m \in Keys
      BY <1>1
    <3> QED
      BY <3>1, <3>2, KeyIsNumber
  <2>4. Wrote(<<>>, {})
    BY DEF Wrote
  <2>5. n.disturbed \/ /\ writer' = NoWriter /\ n.cur \in live' \cup {Null}
                       /\ Wrote(file', PairsBefore(n.cur)')
    BY <1>1, <1>5, <1>6, <2>1, <2>2, <2>3, <2>4
  <2>6. ASSUME NEW e \in Dumpers, e # d, dumper[e].pc = "walk"
        PROVE  mixed'
    BY <2>2, <2>6 DEF Joins
  <2>7. dumper'[d] = n /\ \A e \in Dumpers : e # d => dumper'[e] = dumper[e]
    BY <1>3, <2>1
  <2>8. ASSUME NEW e \in Dumpers, dumper'[e].pc = "walk", ~dumper'[e].disturbed
        PROVE  /\ writer' = NoWriter /\ dumper'[e].cur \in live' \cup {Null}
               /\ isOpen' /\ ~mixed' => Wrote(file', PairsBefore(dumper[e].cur)')
    <3>1. CASE e = d
      BY <2>5, <2>7, <2>8, <3>1
    <3>2. CASE e # d
      BY <1>5, <2>6, <2>7, <2>8, <3>2 DEF DumpInv
    <3> QED
      BY <3>1, <3>2
  <2>9. ASSUME NEW e \in Dumpers, NEW f \in Dumpers,
               dumper'[e].pc = "walk", dumper'[f].pc = "walk", ~mixed'
        PROVE  e = f
    BY <2>6, <2>7, <2>9
  <2> QED
    BY <2>2, <2>8, <2>9 DEF DumpInv
<1>8. CASE Write(d)
  <2>1. PICK c \in live : c = w.cur /\ c \in Keys
    BY <1>1, <1>4, <1>8 DEF Write
  <2>2. PICK x \in live \cup {Null} : x = forward[c][0] /\ c < x
    BY <1>1, <2>1
  <2>3. PICK n : n = [w EXCEPT !.cur = x] /\ n.cur = x /\ n.disturbed = w.disturbed /\ n.pc = "walk"
    <3>1. w.pc = "walk"
      BY <1>4, <1>8 DEF Write
    <3>2. PICK n : n = [w EXCEPT !.cur = x]
      OBVIOUS
    <3>3. n.cur = x
      BY <3>2 DEF Walker
    <3>4. n.disturbed = w.disturbed
      BY <3>2 DEF Walker
    <3>5. n.pc = "walk"
      BY <3>1, <3>2 DEF Walker
    <3> QED
      BY <3>2, <3>3, <3>4, <3>5
  <2>4. dumper' = [dumper EXCEPT ![d] = n]
    BY <1>3, <1>4, <1>8, <2>1, <2>2, <2>3 DEF Write
  <2>5. dumper'[d] = n /\ \A e \in Dumpers : e # d => dumper'[e] = dumper[e]
    BY <1>3, <2>4
  <2>6. /\ isOpen' = isOpen /\ mixed' = mixed /\ clean' = clean /\ saved' = saved
        /\ isOpen /\ ~mixed => file' = file \o LinesOf(TextOf(c, value[c]))
        /\ ~isOpen => file' = file
    BY <1>4, <1>8, <2>1 DEF Write
  <2>7. dumper[d].pc = "walk"
    BY <1>8 DEF Write
  <2>8. ASSUME ~w.disturbed, isOpen, ~mixed
        PROVE  Wrote(file', PairsBefore(x))
    <3>1. writer = NoWriter /\ Wrote(file, PairsBefore(c))
      BY <1>4, <2>1, <2>7, <2>8 DEF DumpInv
    <3>2. {m \in live : m < x} = {m \in live : m < c} \cup {c}
      <4>1. \A m \in live : m <= c \/ x <= m
        BY <1>2, <2>2, <3>1
      <4> QED
        BY <1>1, <2>1, <2>2, <4>1, KeyIsNumber
    <3>3. PICK key \in Text, v \in Text : key = KeyText[c] /\ v = value[c]
      BY <1>3, <2>1, ListAssumption
    <3>4. PairsBefore(x) = PairsBefore(c) \cup {<<key, v>>}
      BY <3>2, <3>3 DEF PairsBefore
    <3>5. \A p \in PairsBefore(c) : p[1] # key
      <4> SUFFICES ASSUME NEW m \in live, m < c, KeyText[m] = key PROVE FALSE
        BY DEF PairsBefore
      <4>1. m = c
        BY <1>1, <2>1, <3>3, ListAssumption
      <4> QED
        BY <1>1, <2>1, <4>1, KeyIsNumber
    <3>6. file' = file \o LinesOf(key \o <<Colon>> \o v)
      BY <2>6, <2>8, <3>3 DEF TextOf
    <3> QED
      BY <1>3, <3>1, <3>4, <3>5, <3>6, WroteOneMore
  <2>9. ASSUME NEW e \in Dumpers, dumper'[e].pc = "walk", ~dumper'[e].disturbed
        PROVE  /\ writer' = NoWriter /\ dumper'[e].cur \in live' \cup {Null}
               /\ isOpen' /\ ~mixed' => Wrote(file', PairsBefore(dumper[e].cur)')
    <3>1. CASE e = d
      BY <1>4, <1>5, <1>6, <2>2, <2>3, <2>5, <2>6, <2>7, <2>8, <2>9, <3>1 DEF DumpInv
    <3>2. CASE e # d
      <4>1. dumper[e] = dumper'[e] /\ dumper[e].pc = "walk"
        BY <2>5, <2>9, <3>2
      <4>2. ~(isOpen' /\ ~mixed')
        BY <2>6, <2>7, <3>2, <4>1 DEF DumpInv
      <4> QED
        BY <1>5, <2>9, <4>1, <4>2 DEF DumpInv
    <3> QED
      BY <3>1, <3>2
  <2>10. \A e \in Dumpers : dumper'[e].pc = dumper[e].pc
    BY <2>3, <2>5, <2>7
  <2> QED
    BY <2>6, <2>9, <2>10 DEF DumpInv
<1>9. CASE CloseFile(d)
  <2>1. dumper'[d].pc # "walk" /\ \A e \in Dumpers : e # d => dumper'[e] = dumper[e]
    BY <1>3, <1>9 DEF CloseFile, Idle
  <2>2. ~isOpen' /\ w.cur = Null /\ dumper[d].pc = "walk"
    BY <1>4, <1>9 DEF CloseFile
  <2>3. ASSUME clean' PROVE Wrote(file', saved')
    <3>1. isOpen /\ ~mixed /\ ~dumper[d].disturbed /\ saved' = Contents /\ file' = file
      BY <1>9, <2>3 DEF CloseFile
    <3>2. writer = NoWriter /\ Wrote(file, PairsBefore(Null))
      BY <1>4, <2>2, <3>1 DEF DumpInv
    <3>3. {m \in live : m < Null} = live
      BY <1>1, KeyIsNumber
    <3>4. Contents = PairsBefore(Null)
      BY <3>2, <3>3, ContentsAre DEF PairsBefore
    <3> QED
      BY <3>1, <3>2, <3>4
  <2>4. ASSUME NEW e \in Dumpers, dumper'[e].pc = "walk", ~dumper'[e].disturbed
        PROVE  writer' = NoWriter /\ dumper'[e].cur \in live' \cup {Null}
    <3>1. e # d /\ dumper[e] = dumper'[e]
      BY <2>1, <2>4
    <3> QED
      BY <1>5, <2>4, <3>1 DEF DumpInv
  <2> QED
    BY <2>2, <2>3, <2>4 DEF DumpInv
<1>10. CASE Stray(d)
  <2>1. dumper'[d].pc = "undefined" /\ \A e \in Dumpers : e # d => dumper'[e] = dumper[e]
    BY <1>3, <1>4, <1>10 DEF Stray, Walker
  <2>2. UNCHANGED <<file, isOpen, mixed, clean, saved>>
    BY <1>10 DEF Stray, store, stream
  <2>3. ASSUME NEW e \in Dumpers, dumper'[e].pc = "walk"
        PROVE  dumper'[e] = dumper[e]
    BY <2>1, <2>3
  <2> QED
    BY <1>5, <1>6, <2>2, <2>3 DEF DumpInv
<1> QED
  BY <1>7, <1>8, <1>9, <1>10 DEF DumpNext

LEMMA DisturbedDump ==
  ASSUME ListInv, DumpInv, NEW deletes \in BOOLEAN, Disturbs(deletes), UNCHANGED stream
  PROVE  DumpInv'
<1>1. ASSUME NEW d \in Dumpers
      PROVE  /\ dumper'[d].pc = "walk" => dumper'[d].disturbed
             /\ dumper'[d].pc = dumper[d].pc
  <2>1. PICK w \in Walker({"idle", "walk", "undefined"}) : w = dumper[d]
    BY DEF ListInv, TypeOK
  <2>2. dumper'[d] = IF w.pc = "walk" THEN [w EXCEPT !.disturbed = TRUE, !.deleted = @ \/ deletes] ELSE w
    BY <2>1 DEF Disturbs
  <2> QED
    BY <2>1, <2>2 DEF Walker
<1> QED
  BY <1>1 DEF DumpInv, stream

LEMMA KeptDump ==
  ASSUME DumpInv, UNCHANGED <<dumper, writer, live, value, stream>>
  PROVE  DumpInv'
  BY DEF DumpInv, PairsBefore, stream

\* Nobody dumps when a process starts.
LEMMA NoDump ==
  ASSUME \A d \in Dumpers : dumper'[d].pc # "walk", clean' => ~isOpen' /\ Wrote(file', saved')
  PROVE  DumpInv'
  BY DEF DumpInv, Wrote

-----------------------------------------------------------------------------
(* The load.                                                               *)

\* The next line has no pair.
LEMMA ReadNothing ==
  ASSUME NEW n \in Nat, n + 1 <= Len(file), file \in Seq(Text), ReadSoFar(n),
         ~HasPair(file[n + 1]) \/ ~HasDelimiter(file[n + 1]), UNCHANGED <<live, file>>,
         \A k \in live : value'[k] = value[k],
         lastPair' = Pair(file[n + 1])
  PROVE  ReadSoFar(n + 1)'
<1>1. PICK p : p = n + 1 /\ p \in Nat
  OBVIOUS
<1>2. \A i \in 1 .. n : i \in 1 .. p
  BY <1>1
<1>3. ~HasPair(file[p])
  BY <1>1 DEF HasPair
<1>4. \A i \in 1 .. n : IsLast(i, n) => IsLast(i, p)'
  <2> SUFFICES ASSUME NEW i \in 1 .. n, IsLast(i, n), NEW m \in (i + 1)..p, HasPair(file[m])
               PROVE  Split(file[m])[1] # Split(file[i])[1]
    BY DEF IsLast
  <2>1. m # p
    BY <1>3
  <2>2. m \in (i + 1)..n
    BY <1>1, <2>1
  <2> QED
    BY <2>2 DEF IsLast
<1>5. \A k \in live' : \E i \in 1 .. p : IsLast(i, p)' /\ Split(file'[i]) = <<KeyText[k], value'[k]>>
  <2> SUFFICES ASSUME NEW k \in live
               PROVE  \E i \in 1 .. p : IsLast(i, p)' /\ Split(file[i]) = <<KeyText[k], value[k]>>
    OBVIOUS
  <2>1. PICK i \in 1 .. n : IsLast(i, n) /\ Split(file[i]) = <<KeyText[k], value[k]>>
    BY DEF ReadSoFar
  <2> QED
    BY <1>2, <1>4, <2>1
<1>6. \A i \in 1 .. p : HasPair(file[i]) => \E k \in live : KeyText[k] = Split(file[i])[1]
  <2> SUFFICES ASSUME NEW i \in 1 .. p, HasPair(file[i])
               PROVE  \E k \in live : KeyText[k] = Split(file[i])[1]
    OBVIOUS
  <2>1. i # p
    BY <1>3
  <2>2. i \in 1 .. n
    BY <1>1, <2>1
  <2> QED
    BY <2>2 DEF ReadSoFar
<1>7. \/ lastPair' = <<<<>>, <<>>>>
      \/ \E j \in 1 .. p : /\ HasDelimiter(file[j]) /\ Split(file[j]) = lastPair'
                           /\ \A m \in (j + 1)..p : ~HasDelimiter(file[m])
  <2>1. CASE ~HasDelimiter(file[p])
    <3>1. lastPair' = lastPair
      BY <1>1, <2>1 DEF Pair
    <3>2. CASE lastPair = <<<<>>, <<>>>>
      BY <3>1, <3>2
    <3>3. CASE lastPair # <<<<>>, <<>>>>
      <4>1. PICK j \in 1 .. n : /\ HasDelimiter(file[j]) /\ Split(file[j]) = lastPair
                                /\ \A m \in (j + 1)..n : ~HasDelimiter(file[m])
        BY <3>3 DEF ReadSoFar
      <4>2. \A m \in (j + 1)..p : m \in (j + 1)..n \/ m = p
        BY <1>1
      <4> QED
        BY <1>2, <2>1, <3>1, <4>1, <4>2
    <3> QED
      BY <3>2, <3>3
  <2>2. CASE HasDelimiter(file[p])
    <3>1. lastPair' = Split(file[p])
      BY <1>1, <2>2 DEF Pair
    <3>2. p \in 1 .. p /\ \A m \in (p + 1)..p : FALSE
      BY <1>1
    <3> QED
      BY <2>2, <3>1, <3>2
  <2> QED
    BY <2>1, <2>2
<1>8. ReadSoFar(p)'
  BY <1>5, <1>6, <1>7 DEF ReadSoFar
<1> QED
  BY <1>1, <1>8

\* The next line is a pair, which the list has when it was read.
LEMMA ReadOne ==
  ASSUME NEW n \in Nat, n + 1 <= Len(file), file \in Seq(Text), ReadSoFar(n),
         NEW k \in Keys, NEW v \in Values, HasPair(file[n + 1]),
         Split(file[n + 1]) = <<KeyText[k], v>>, UNCHANGED file,
         live \subseteq Keys, value \in [Keys -> Values],
         live' = live \cup {k}, value' = [value EXCEPT ![k] = v],
         lastPair' = Split(file[n + 1])
  PROVE  ReadSoFar(n + 1)'
<1>1. PICK p : p = n + 1 /\ p \in Nat /\ p \in 1 .. p
  OBVIOUS
<1>2. \A i \in 1 .. p : i \in 1 .. n \/ i = p
  BY <1>1
<1>3. /\ Split(file[p]) = <<KeyText[k], v>> /\ Split(file[p])[1] = KeyText[k]
      /\ HasPair(file[p]) /\ HasDelimiter(file[p])
  <2>1. <<KeyText[k], v>>[1] = KeyText[k]
    OBVIOUS
  <2> QED
    BY <1>1, <2>1 DEF HasPair
<1>4. IsLast(p, p)'
  BY <1>1, <1>3 DEF IsLast
<1>5. ASSUME NEW l \in live, l # k
      PROVE  \E i \in 1 .. p : IsLast(i, p)' /\ Split(file'[i]) = <<KeyText[l], value'[l]>>
  <2>1. PICK i \in 1 .. n : IsLast(i, n) /\ Split(file[i]) = <<KeyText[l], value[l]>>
    BY DEF ReadSoFar
  <2>2. Split(file[i])[1] = KeyText[l]
    BY <2>1
  <2>3. KeyText[l] # KeyText[k]
    BY <1>5, ListAssumption
  <2>4. ASSUME NEW m \in (i + 1)..p, HasPair(file[m]) PROVE Split(file[m])[1] # Split(file[i])[1]
    <3>1. m = p \/ m \in (i + 1)..n
      BY <1>1
    <3> QED
      BY <1>3, <2>1, <2>2, <2>3, <2>4, <3>1 DEF IsLast
  <2>5. IsLast(i, p)'
    BY <2>1, <2>4 DEF IsLast
  <2>6. i \in 1 .. p /\ value'[l] = value[l]
    BY <1>1, <1>5
  <2> QED
    BY <2>1, <2>5, <2>6
<1>6. value'[k] = v
  OBVIOUS
<1>7. \A l \in live' : \E i \in 1 .. p : IsLast(i, p)' /\ Split(file'[i]) = <<KeyText[l], value'[l]>>
  BY <1>1, <1>3, <1>4, <1>5, <1>6
<1>8. \A i \in 1 .. p : HasPair(file[i]) => \E l \in live' : KeyText[l] = Split(file[i])[1]
  BY <1>2, <1>3 DEF ReadSoFar
<1>9. \E j \in 1 .. p : /\ HasDelimiter(file[j]) /\ Split(file[j]) = lastPair'
                        /\ \A m \in (j + 1)..p : ~HasDelimiter(file[m])
  <2>1. \A m \in (p + 1)..p : FALSE
    BY <1>1
  <2> QED
    BY <1>1, <1>3, <2>1
<1>10. ReadSoFar(p)'
  BY <1>7, <1>8, <1>9 DEF ReadSoFar
<1> QED
  BY <1>1, <1>10

LEMMA SameReads ==
  ASSUME NEW n, ReadSoFar(n), UNCHANGED <<file, lastPair, live, value>>
  PROVE  ReadSoFar(n)'
  BY DEF ReadSoFar, IsLast

LEMMA KeptLoad ==
  ASSUME LoadInv, UNCHANGED <<file, loading, lastPair, live, value, phase>>,
         phase = "load" => writer'.op \in {"none", "insert"}
  PROVE  LoadInv'
<1> SUFFICES ASSUME phase = "load" PROVE LoadInv'
  BY DEF LoadInv
<1>1. PICK n \in 0..Len(file) : /\ Len(loading) = Len(file) - n
                                /\ \A j \in 1..Len(loading) : loading[j] = file[n + j]
                                /\ ReadSoFar(n)
  BY DEF LoadInv
<1>2. ReadSoFar(n)'
  BY <1>1, SameReads
<1> QED
  BY <1>1, <1>2 DEF LoadInv

\* The key and value of a line without a delimiter were read before, and are in the
\* list already.
LEMMA ReadAgain ==
  ASSUME NEW n \in Nat, ReadSoFar(n), lastPair[1] # <<>>, lastPair[2] # <<>>,
         NEW k \in Keys, NEW v, lastPair = <<KeyText[k], v>>, live \subseteq Keys
  PROVE  k \in live /\ value[k] = v
<1>1. lastPair # <<<<>>, <<>>>>
  OBVIOUS
<1>2. PICK j \in 1 .. n : /\ HasDelimiter(file[j]) /\ Split(file[j]) = lastPair
                          /\ \A m \in (j + 1)..n : ~HasDelimiter(file[m])
  BY <1>1 DEF ReadSoFar
<1>3. HasPair(file[j]) /\ Split(file[j])[1] = KeyText[k]
  BY <1>2 DEF HasPair
<1>4. k \in live
  <2>1. PICK l \in live : KeyText[l] = KeyText[k]
    BY <1>3 DEF ReadSoFar
  <2>2. l = k
    BY <2>1, ListAssumption
  <2> QED
    BY <2>1, <2>2
<1>5. PICK i \in 1 .. n : IsLast(i, n) /\ Split(file[i]) = <<KeyText[k], value[k]>>
  BY <1>4 DEF ReadSoFar
<1>6. HasPair(file[i]) /\ Split(file[i])[1] = KeyText[k]
  BY <1>5 DEF IsLast
<1>7. i \notin (j + 1)..n
  BY <1>2, <1>6 DEF HasPair
<1>8. j \notin (i + 1)..n
  BY <1>3, <1>5, <1>6 DEF IsLast
<1>9. i = j
  BY <1>7, <1>8
<1> QED
  BY <1>2, <1>4, <1>5, <1>9

LEMMA LoadStep ==
  ASSUME ListInv, LoadInv, LoadLine, loading # <<>>
  PROVE  LoadInv'
<1>1. /\ writer = NoWriter /\ phase = "load" /\ phase' = phase /\ file' = file
      /\ loading' = Tail(loading) /\ lastPair' = Pair(Head(loading))
      /\ IF lastPair'[1] = <<>> \/ lastPair'[2] = <<>>
         THEN UNCHANGED <<list, writer, reader, dumper>>
         ELSE Known(lastPair') /\ InsertElement(KeyOf(lastPair'[1]), lastPair'[2])
  BY DEF LoadLine, stream
<1>2. /\ file \in Seq(Text) /\ loading \in Seq(Text) /\ lastPair \in Text \X Text
      /\ live \subseteq Keys /\ value \in [Keys -> Values]
  BY DEF ListInv, TypeOK
<1>3. PICK n \in 0..Len(file) : /\ Len(loading) = Len(file) - n
                                /\ \A j \in 1..Len(loading) : loading[j] = file[n + j]
                                /\ ReadSoFar(n)
  BY <1>1 DEF LoadInv
<1>4. PICK m \in Nat : m = Len(loading) /\ m # 0
  BY <1>2, EmptySeq, LenProperties
<1>5. Len(file) \in Nat
  BY <1>2, LenProperties
<1>6. /\ Head(loading) = loading[1]
      /\ Len(Tail(loading)) = m - 1 /\ \A j \in 1 .. m - 1 : Tail(loading)[j] = loading[j + 1]
  BY <1>2, <1>4, HeadTailProperties
<1>7. PICK p \in 0 .. Len(file) : p = n + 1
  BY <1>3, <1>4, <1>5
<1>8. Len(loading') = Len(file') - p /\ \A j \in 1 .. Len(loading') : loading'[j] = file'[p + j]
  <2>1. Len(loading') = Len(file) - p
    BY <1>1, <1>3, <1>4, <1>5, <1>6, <1>7
  <2>2. ASSUME NEW j \in 1 .. m - 1 PROVE Tail(loading)[j] = file[p + j]
    <3>1. j + 1 \in 1 .. m /\ n + (j + 1) = p + j
      BY <1>7, <2>2
    <3>2. loading[j + 1] = file[n + (j + 1)]
      BY <1>3, <1>4, <3>1
    <3> QED
      BY <1>6, <3>1, <3>2
  <2> QED
    BY <1>1, <1>6, <2>1, <2>2
<1>9. Head(loading) = file[n + 1] /\ file[n + 1] \in Text /\ n + 1 <= Len(file) /\ n \in Nat
  <2>1. loading[1] = file[n + 1]
    BY <1>3, <1>4
  <2>2. n + 1 \in 1 .. Len(file) /\ n \in Nat
    BY <1>5, <1>7
  <2> QED
    BY <1>2, <1>6, <2>1, <2>2, ElementOfSeq
<1>10. lastPair' = Pair(file[n + 1])
  BY <1>1, <1>9
<1>11. HasDelimiter(file[n + 1]) =>
           lastPair' = Split(file[n + 1]) /\ Split(file[n + 1]) \in Text \X Text
  BY <1>9, <1>10, SplitIs DEF Pair
<1>12. ~HasDelimiter(file[n + 1]) => lastPair' = lastPair
  BY <1>10 DEF Pair
<1>13. CASE lastPair'[1] = <<>> \/ lastPair'[2] = <<>>
  <2>1. UNCHANGED <<live, value, writer>>
    BY <1>1, <1>13 DEF list
  <2>2. ~HasPair(file[n + 1])
    BY <1>11, <1>13 DEF HasPair
  <2>3. ReadSoFar(n + 1)'
    BY <1>1, <1>2, <1>3, <1>9, <1>10, <2>1, <2>2, ReadNothing
  <2>4. writer'.op = "none"
    BY <1>1, <2>1 DEF NoWriter
  <2> QED
    BY <1>1, <1>7, <1>8, <2>3, <2>4 DEF LoadInv
<1>14. CASE ~(lastPair'[1] = <<>> \/ lastPair'[2] = <<>>)
  <2>1. PICK k \in Keys, v \in Values : /\ k = KeyOf(lastPair'[1]) /\ KeyText[k] = lastPair'[1]
                                        /\ v = lastPair'[2]
    BY <1>1, <1>14, KeyOfText DEF Known
  <2>2. InsertElement(k, v)
    BY <1>1, <1>14, <2>1
  <2>3. value' = [value EXCEPT ![k] = v]
    BY <2>2 DEF InsertElement
  <2>4. live' = live \cup {k} /\ (k \in live => live' = live)
    <3>1. CASE k \in live
      BY <1>1, <2>2, <3>1, ExistsIs DEF InsertElement
    <3>2. CASE k \notin live
      BY <1>1, <2>2, <3>2, ExistsIs DEF InsertElement
    <3> QED
      BY <3>1, <3>2
  <2>5. writer'.op \in {"none", "insert"}
    BY <1>1, <2>2, InsertIs DEF StartsInsert, NoWriter
  <2>6. lastPair' = <<KeyText[k], v>>
    BY <1>2, <1>11, <1>12, <2>1
  <2>7. CASE ~HasDelimiter(file[n + 1])
    <3>1. lastPair = <<KeyText[k], v>> /\ lastPair[1] # <<>> /\ lastPair[2] # <<>>
      BY <1>12, <1>14, <2>6, <2>7
    <3>2. k \in live /\ value[k] = v
      BY <1>2, <1>3, <1>9, <3>1, ReadAgain
    <3>3. live' = live /\ \A l \in live : value'[l] = value[l]
      BY <1>2, <2>3, <2>4, <3>2
    <3>4. ReadSoFar(n + 1)'
      BY <1>1, <1>2, <1>3, <1>9, <1>10, <2>7, <3>3, ReadNothing
    <3> QED
      BY <1>1, <1>7, <1>8, <2>5, <3>4 DEF LoadInv
  <2>8. CASE HasDelimiter(file[n + 1])
    <3>1. /\ lastPair' = Split(file[n + 1]) /\ Split(file[n + 1]) = <<KeyText[k], v>>
          /\ HasPair(file[n + 1])
      BY <1>11, <1>14, <2>6, <2>8 DEF HasPair
    <3>2. ReadSoFar(n + 1)'
      BY <1>1, <1>2, <1>3, <1>9, <2>3, <2>4, <3>1, ReadOne
    <3> QED
      BY <1>1, <1>7, <1>8, <2>5, <3>2 DEF LoadInv
  <2> QED
    BY <2>7, <2>8
<1> QED
  BY <1>13, <1>14

LEMMA FileStep ==
  ASSUME ListInv, ListInv', WalkInv, DumpInv, LoadInv, Next
  PROVE  DumpInv' /\ LoadInv'
<1>1. /\ phase \in {"load", "run"} /\ writer \in Writer /\ file \in Seq(Text) /\ file' \in Seq(Text)
  BY DEF ListInv, TypeOK
<1>2. CASE \/ \E p \in Pairs : phase = "run" /\ InsertElement(p[1], p[2]) /\ UNCHANGED store
           \/ \E k \in Keys : phase = "run" /\ DeleteElement(k)
  <2>1. /\ phase' = "run" /\ UNCHANGED stream
        /\ \E deletes \in BOOLEAN : Disturbs(deletes)
    BY <1>2 DEF InsertElement, DeleteElement, store, load
  <2> QED
    BY <2>1, DisturbedDump DEF LoadInv
<1>3. CASE Link
  <2>1. UNCHANGED <<live, value, stream, load>> /\ Disturbs(FALSE)
    BY <1>3 DEF Link, store
  <2>2. writer'.op \in {"none", "insert"}
    BY <1>1, <1>3 DEF Link, NoWriter, Writer
  <2> QED
    BY <2>1, <2>2, DisturbedDump, KeptLoad DEF load, stream
<1>4. CASE Unlink \/ Free \/ Shrink
  <2>1. phase' = phase /\ UNCHANGED stream /\ Disturbs(TRUE) /\ writer.op \notin {"none", "insert"}
    BY <1>4 DEF Unlink, Free, Shrink, store, load
  <2> QED
    BY <2>1, DisturbedDump DEF LoadInv
<1>5. CASE Walk \/ Last_ \/ \E k \in Keys : SearchElement(k)
  <2>1. UNCHANGED <<list, writer, dumper, stream, load>>
    BY <1>5 DEF Walk, Last_, SearchElement, store
  <2>2. DumpInv'
    BY <2>1, KeptDump DEF list
  <2>3. LoadInv'
    BY <2>1, KeptLoad DEF list, load, stream, LoadInv
  <2> QED
    BY <2>2, <2>3
<1>6. CASE \E d \in Dumpers : DumpFile(d) \/ DumpNext(d)
  <2>1. PICK d \in Dumpers : DumpFile(d) \/ DumpNext(d)
    BY <1>6
  <2>2. phase' = phase /\ (phase # "load" \/ dumper[d].pc = "walk")
    BY <2>1 DEF DumpFile, DumpNext, Write, CloseFile, Stray, store, load
  <2>3. phase # "load"
    BY <2>2 DEF WalkInv, ReaderIsRight, Idle
  <2> QED
    BY <2>1, <2>2, <2>3, DumpStep DEF LoadInv
<1>7. CASE Restart
  <2>1. DumpInv'
    <3>1. dumper' = [d \in Dumpers |-> Idle] /\ UNCHANGED <<clean, saved>> /\ ~isOpen'
      BY <1>7 DEF Restart
    <3>2. ~isOpen => file' = file
      BY <1>7 DEF Restart
    <3>3. clean' => ~isOpen' /\ Wrote(file', saved')
      BY <3>1, <3>2 DEF DumpInv
    <3> QED
      BY <3>1, <3>3, NoDump DEF Idle
  <2>2. /\ loading' = file' /\ live' = {} /\ lastPair' = <<<<>>, <<>>>>
        /\ writer'.op = "none"
    BY <1>7 DEF Restart, NoWriter
  <2>3. ReadSoFar(0)'
    BY <2>2 DEF ReadSoFar
  <2>4. Len(file') \in Nat /\ \A j \in 1..Len(loading') : loading'[j] = file'[0 + j]
    BY <1>1, <2>2, LenProperties
  <2>5. LoadInv'
    BY <2>2, <2>3, <2>4 DEF LoadInv
  <2> QED
    BY <2>1, <2>5
<1>8. CASE LoadLine
  <2>1. LoadInv'
    <3>1. CASE loading = <<>>
      BY <1>8, <3>1 DEF LoadLine, LoadInv
    <3> QED
      BY <1>8, <3>1, LoadStep
  <2>2. StoreTypes
    BY TypesAre DEF ListInv
  <2>3. UNCHANGED stream
    BY <1>8 DEF LoadLine
  <2>4. DumpInv'
    <3>1. CASE UNCHANGED <<list, writer, reader, dumper>>
      BY <2>3, <3>1, KeptDump DEF list
    <3>2. CASE \E key \in Keys, v \in Values : InsertElement(key, v)
      BY <2>3, <3>2, DisturbedDump DEF InsertElement
    <3> QED
      BY <1>8, <2>2, <3>1, <3>2, LoadLineIs
  <2> QED
    BY <2>1, <2>4
<1> QED
  BY <1>2, <1>3, <1>4, <1>5, <1>6, <1>7, <1>8 DEF Next

LEMMA FileInvHolds == Spec => [](ListInv /\ WalkInv /\ DumpInv /\ LoadInv)
<1>1. DumpInv /\ LoadInv /\ UNCHANGED vars => DumpInv' /\ LoadInv'
  <2> SUFFICES ASSUME DumpInv, LoadInv, UNCHANGED vars PROVE DumpInv' /\ LoadInv'
    OBVIOUS
  <2>1. UNCHANGED <<list, writer, dumper, stream, load>>
    BY DEF vars, store
  <2>2. DumpInv'
    BY <2>1, KeptDump DEF list
  <2>3. LoadInv'
    BY <2>1, KeptLoad DEF list, stream, load, LoadInv
  <2> QED
    BY <2>2, <2>3
<1>2. Init => DumpInv /\ LoadInv
  BY InitFile
<1>3. /\ ListInv /\ WalkInv /\ (ListInv /\ WalkInv)' /\ DumpInv /\ LoadInv /\ [Next]_vars
         => (DumpInv /\ LoadInv)'
  BY <1>1, FileStep
<1>4. Spec => [](ListInv /\ WalkInv)
  BY SkipListInvHolds
<1> QED
  BY <1>2, <1>3, <1>4, PTL DEF Spec

\* When the load ends, the list holds the last pair of each key.
LEMMA LoadEnds ==
  ASSUME ListInv, LoadInv, [Next]_vars, phase = "load", phase' = "run"
  PROVE  Contents = LastPairs
<1>1. LoadLine /\ loading = <<>> /\ writer = NoWriter
  <2>1. LoadLine
    BY DEF Next, DeleteElement, SearchElement, Link, Unlink, Free, Shrink, Walk, Last_,
           DumpFile, DumpNext, Write, CloseFile, Stray, Restart, vars, store, load
  <2> QED
    BY <2>1 DEF LoadLine
<1>2. file \in Seq(Text)
  BY DEF ListInv, TypeOK
<1>3. PICK n \in Nat : n = Len(file) /\ DOMAIN file = 1 .. n
  BY <1>2, LenProperties
<1>4. ReadSoFar(n)
  <2>1. PICK m \in 0..Len(file) : Len(loading) = Len(file) - m /\ ReadSoFar(m)
    BY DEF LoadInv
  <2>2. m = n
    BY <1>1, <1>3, <2>1, EmptySeq
  <2> QED
    BY <2>1, <2>2
<1>5. ASSUME NEW i \in 1 .. n, IsLast(i, n)
      PROVE  Split(file[i]) \in {<<KeyText[k], value[k]>> : k \in live}
  <2>1. PICK k \in live : KeyText[k] = Split(file[i])[1]
    BY <1>4, <1>5 DEF ReadSoFar, IsLast
  <2>2. PICK j \in 1 .. n : IsLast(j, n) /\ Split(file[j]) = <<KeyText[k], value[k]>>
    BY <1>4 DEF ReadSoFar
  <2>3. HasPair(file[i]) /\ HasPair(file[j]) /\ Split(file[i])[1] = Split(file[j])[1]
    BY <1>5, <2>1, <2>2 DEF IsLast
  <2>4. j \notin (i + 1)..n
    BY <1>5, <2>3 DEF IsLast
  <2>5. i \notin (j + 1)..n
    BY <2>2, <2>3 DEF IsLast
  <2>6. i = j
    BY <2>4, <2>5
  <2> QED
    BY <2>2, <2>6
<1>6. ASSUME NEW k \in live
      PROVE  \E i \in 1 .. n : IsLast(i, n) /\ Split(file[i]) = <<KeyText[k], value[k]>>
  BY <1>4 DEF ReadSoFar
<1>7. {<<KeyText[k], value[k]>> : k \in live} = {Split(file[i]) : i \in {j \in 1 .. n : IsLast(j, n)}}
  BY <1>5, <1>6
<1> QED
  BY <1>1, <1>3, <1>7, ContentsAre DEF IsLast, LastPairs

\* The file a clean dump left has each of its pairs once.
LEMMA WroteAll ==
  ASSUME file \in Seq(Text), Wrote(file, saved), \A p \in saved : Plain(p)
  PROVE  LastPairs = saved
<1>1. PICK n \in Nat : n = Len(file) /\ DOMAIN file = 1 .. n
  BY LenProperties
<1>2. /\ \A i \in 1 .. n : HasPair(file[i]) /\ Split(file[i]) \in saved
      /\ \A p \in saved : \E i \in 1 .. n : Split(file[i]) = p
      /\ \A i, j \in 1 .. n : Split(file[i])[1] = Split(file[j])[1] => i = j
  BY <1>1 DEF Wrote
<1>3. ASSUME NEW i \in 1 .. n, NEW m \in (i + 1)..n
      PROVE  Split(file[m])[1] # Split(file[i])[1]
  <2>1. m \in 1 .. n /\ m # i
    OBVIOUS
  <2> QED
    BY <1>2, <2>1
<1>4. LastPairs = {Split(file[i]) : i \in 1 .. n}
  <2>1. {j \in DOMAIN file :
            /\ HasPair(file[j])
            /\ \A m \in (j + 1)..Len(file) :
                  HasPair(file[m]) => Split(file[m])[1] # Split(file[j])[1]} = 1 .. n
    BY <1>1, <1>2, <1>3
  <2> QED
    BY <2>1 DEF LastPairs
<1> QED
  BY <1>2, <1>4

\* For any keys, values, levels and number of dumping threads: a start loads the last
\* pair of each key from whatever text STORE_FILE has, torn or not; and after a dump that
\* met no writer and no other dump it loads the list that was dumped, if its texts are
\* such that the form "key:value\n" can hold them (dumpFile, loadFile).
THEOREM FilesAreReloaded == Spec => Reloaded
<1> DEFINE Inv == ListInv /\ WalkInv /\ DumpInv /\ LoadInv
<1>1. Inv /\ [Next]_vars => [phase = "load" /\ phase' = "run" => Contents = LastPairs]_vars
  BY LoadEnds
<1>2. Inv /\ [Next]_vars =>
        [phase = "load" /\ phase' = "run" /\ clean /\ (\A p \in saved : Plain(p)) =>
             Contents = saved]_vars
  <2> SUFFICES ASSUME Inv, [Next]_vars, phase = "load", phase' = "run", clean,
                      \A p \in saved : Plain(p)
               PROVE  Contents = saved
    OBVIOUS
  <2>1. file \in Seq(Text) /\ Wrote(file, saved)
    BY DEF ListInv, TypeOK, DumpInv
  <2> QED
    BY <2>1, LoadEnds, WroteAll
<1>3. Spec => []Inv
  BY FileInvHolds
<1> QED
  BY <1>1, <1>2, <1>3, PTL DEF Spec, Reloaded

=============================================================================
