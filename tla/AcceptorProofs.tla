--------------------------- MODULE AcceptorProofs ---------------------------
(***************************************************************************)
(* Proofs about Acceptor for any number of loops, descriptors and          *)
(* arrivals: no connection is left in the backlog but behind a refused     *)
(* one, and the loops get even shares of a batch.                          *)
(***************************************************************************)
EXTENDS Acceptor, SequenceTheorems, TLAPS

-----------------------------------------------------------------------------
(* Queues: what is in one when a connection joins it or leaves it.         *)

LEMMA AppendRange ==
  ASSUME NEW S, NEW s \in Seq(S), NEW e \in S
  PROVE  /\ Append(s, e) \in Seq(S) /\ Append(s, e) # <<>>
         /\ Len(Append(s, e)) = Len(s) + 1
         /\ Range(Append(s, e)) = Range(s) \cup {e}
         /\ IsInjective(s) /\ e \notin Range(s) => IsInjective(Append(s, e))
<1>1. /\ Append(s, e) \in Seq(S) /\ Append(s, e) # <<>>
      /\ Len(Append(s, e)) = Len(s) + 1
      /\ \A i \in 1 .. Len(s) : Append(s, e)[i] = s[i]
      /\ Append(s, e)[Len(s) + 1] = e
  BY AppendProperties
<1>2. /\ Len(s) \in Nat
      /\ DOMAIN s = 1 .. Len(s)
      /\ DOMAIN Append(s, e) = 1 .. Len(s) + 1
  BY <1>1, LenProperties
<1>3. Range(Append(s, e)) = Range(s) \cup {e}
  BY <1>1, <1>2 DEF Range
<1>4. ASSUME IsInjective(s), e \notin Range(s) PROVE IsInjective(Append(s, e))
  BY <1>1, <1>2, <1>4 DEF IsInjective, Range
<1> QED
  BY <1>1, <1>3, <1>4

LEMMA EmptyRange == Range(<<>>) = {} /\ IsInjective(<<>>)
  BY DEF Range, IsInjective

LEMMA HeadRange ==
  ASSUME NEW S, NEW s \in Seq(S), s # <<>>
  PROVE  /\ Head(s) \in S /\ Head(s) \in Range(s)
         /\ Tail(s) \in Seq(S)
         /\ IsInjective(s) => IsInjective(Tail(s)) /\ Range(Tail(s)) = Range(s) \ {Head(s)}
<1>1. Len(s) \in Nat \ {0} /\ DOMAIN s = 1 .. Len(s)
  BY EmptySeq, LenProperties
<1>2. /\ Head(s) = s[1] /\ Head(s) \in S /\ Tail(s) \in Seq(S)
      /\ Len(Tail(s)) = Len(s) - 1
      /\ \A i \in 1 .. Len(s) - 1 : Tail(s)[i] = s[i + 1]
  BY <1>1, HeadTailProperties, ElementOfSeq
<1>3. Head(s) \in Range(s)
  BY <1>1, <1>2 DEF Range
<1>4. DOMAIN Tail(s) = 1 .. Len(s) - 1
  BY <1>1, <1>2, LenProperties
<1>5. ASSUME IsInjective(s) PROVE IsInjective(Tail(s))
  BY <1>1, <1>2, <1>4, <1>5 DEF IsInjective
<1>6. ASSUME IsInjective(s) PROVE Range(Tail(s)) = Range(s) \ {Head(s)}
  <2>1. ASSUME NEW x \in Range(Tail(s)) PROVE x \in Range(s) /\ x # Head(s)
    <3>1. PICK i \in 1 .. Len(s) - 1 : x = s[i + 1]
      BY <1>2, <1>4 DEF Range
    <3> QED
      BY <3>1, <1>1, <1>2, <1>6 DEF Range, IsInjective
  <2>2. ASSUME NEW x \in Range(s), x # Head(s) PROVE x \in Range(Tail(s))
    <3>1. PICK i \in 1 .. Len(s) : x = s[i]
      BY <1>1 DEF Range
    <3>2. i - 1 \in 1 .. Len(s) - 1 /\ x = Tail(s)[i - 1]
      BY <3>1, <2>2, <1>1, <1>2
    <3> QED
      BY <3>2, <1>4 DEF Range
  <2> QED
    BY <2>1, <2>2
<1> QED
  BY <1>2, <1>3, <1>5, <1>6

-----------------------------------------------------------------------------
LEMMA ModOfNext ==
    ASSUME NEW n \in Nat \ {0}, NEW i \in 0 .. n - 1
    PROVE  (i + 1) % n = IF i + 1 = n THEN 0 ELSE i + 1
<1>1. CASE i + 1 = n
  BY <1>1
<1>2. CASE i + 1 < n
  BY <1>2
<1> QED
  BY <1>1, <1>2

LEMMA NextIndexType == ASSUME next \in Loops PROVE NextIndex \in Loops
BY AcceptorAssumption DEF NextIndex, Loops

LEMMA HeadAndTail ==
    ASSUME NEW S, NEW q \in Seq(S), q # <<>>
    PROVE  Head(q) \in S /\ Tail(q) \in Seq(S)
OBVIOUS

LEMMA InitType == Init => TypeOK
<1> SUFFICES ASSUME Init PROVE TypeOK
  OBVIOUS
<1>1. next \in Loops
  BY AcceptorAssumption DEF Init, Loops
<1>2. mail \in [Loops -> Seq(Conns)] /\ registered \in [Loops -> SUBSET Conns]
      /\ batch \in [Loops -> Nat]
  BY DEF Init
<1> QED
  BY <1>1, <1>2, AcceptorAssumption DEF Init, TypeOK, Masks

\* The types of the acceptor's variables.
THEOREM TypeCorrect == Spec => []TypeOK
<1> USE AcceptorAssumption DEF TypeOK, Masks
<1>1. Init => TypeOK
  BY InitType
<1>2. TypeOK /\ [Next]_vars => TypeOK'
  <2> SUFFICES ASSUME TypeOK, [Next]_vars PROVE TypeOK'
    OBVIOUS
  <2> USE DEF connVars, channelVars, histVars
  <2>1. CASE Arrive
    <3>1. arrived + 1 \in Conns /\ arrived' \in 0 .. MaxArrivals
      BY <2>1 DEF Arrive, Conns
    <3>2. backlog' \in Seq(Conns)
      BY <2>1, <3>1, AppendProperties DEF Arrive
    <3> QED
      BY <2>1, <3>1, <3>2 DEF Arrive
  <2>2. CASE StartPool
    BY <2>2 DEF StartPool
  <2>3. CASE Start
    BY <2>3 DEF Start, Watch
  <2>4. CASE Poll
    <3>1. CASE backlog = <<>>
      BY <2>4, <3>1 DEF Poll
    <3>2. CASE backlog # <<>>
      <4>1. batch' \in [Loops -> Nat] /\ mpc' = "accepting" /\ events' = "none"
        BY <2>4, <3>2 DEF Poll
      <4> QED
        BY <2>4, <4>1 DEF Poll
    <3> QED
      BY <3>1, <3>2
  <2>5. CASE AcceptNone
    BY <2>5, NextIndexType DEF AcceptNone, GetNextLoop, Break
  <2>6. CASE AcceptFails
    BY <2>6, NextIndexType, HeadAndTail DEF AcceptFails, GetNextLoop, Break
  <2>7. CASE Refuse
    BY <2>7, NextIndexType, HeadAndTail DEF Refuse, GetNextLoop, Break
  <2>8. CASE HandOver
    <3>1. Head(backlog) \in Conns /\ Tail(backlog) \in Seq(Conns)
      BY <2>8, HeadAndTail DEF HandOver
    <3>2. mail' \in [Loops -> Seq(Conns)]
      <4>1. Append(mail[next], Head(backlog)) \in Seq(Conns)
        BY <3>1, AppendProperties
      <4> QED
        BY <2>8, <4>1 DEF HandOver
    <3>3. batch' \in [Loops -> Nat]
      BY <2>8 DEF HandOver
    <3> QED
      BY <2>8, <3>1, <3>2, <3>3, NextIndexType DEF HandOver, GetNextLoop
  <2>9. CASE HandelCurConnect
    BY <2>9 DEF HandelCurConnect, Watch
  <2>10. ASSUME NEW l \in Loops, Register(l) PROVE TypeOK'
    <3>1. Head(mail[l]) \in Conns /\ Tail(mail[l]) \in Seq(Conns)
      BY <2>10, HeadAndTail DEF Register
    <3> QED
      BY <2>10, <3>1 DEF Register
  <2>11. ASSUME NEW l \in Loops, NEW c \in registered[l], Close(l, c) PROVE TypeOK'
    BY <2>11 DEF Close
  <2>12. CASE UNCHANGED vars
    BY <2>12 DEF vars
  <2> QED
    BY <2>1, <2>2, <2>3, <2>4, <2>5, <2>6, <2>7, <2>8, <2>9, <2>10, <2>11, <2>12
    DEF Next, MainStep
<1> QED
  BY <1>1, <1>2, PTL DEF Spec

-----------------------------------------------------------------------------
\* Once the server has started, epoll watches the listening socket for connections
\* and is never told otherwise, since each HandleNewConnect sets the mask again
\* before it is compared with the last one; and what is in the backlog after that has
\* come since, which is an edge, or was left by a call that was cut short.
Armed ==
    /\ mpc \in {"polling", "accepting", "updating"} => interest = "in" /\ lastEvents = "in"
    /\ mpc \in {"polling", "updating"} =>
          /\ events = "in"
          /\ ready \/ backlog = <<>> \/ cutShort

\* Connections wait in the backlog only behind one that was refused.
THEOREM WaitsBehindRefusalOnly == Spec => []WaitsBehindRefusal
<1>1. Init => Armed
  BY DEF Init, Armed
<1>2. Armed /\ [Next]_vars => Armed'
  <2> SUFFICES ASSUME Armed, [Next]_vars PROVE Armed'
    OBVIOUS
  <2> USE DEF Armed, connVars, channelVars, histVars
  <2>1. CASE Arrive
    BY <2>1 DEF Arrive
  <2>2. CASE StartPool \/ Start
    BY <2>2 DEF StartPool, Start, Watch
  <2>3. CASE Poll
    BY <2>3 DEF Poll
  <2>4. CASE AcceptNone \/ AcceptFails \/ Refuse
    BY <2>4 DEF AcceptNone, AcceptFails, Refuse, Break
  <2>5. CASE HandOver
    BY <2>5 DEF HandOver
  <2>6. CASE HandelCurConnect
    BY <2>6 DEF HandelCurConnect
  <2>7. CASE \E l \in Loops : Register(l) \/ \E c \in registered[l] : Close(l, c)
    BY <2>7 DEF Register, Close
  <2>8. CASE UNCHANGED vars
    BY <2>8 DEF vars
  <2> QED
    BY <2>1, <2>2, <2>3, <2>4, <2>5, <2>6, <2>7, <2>8 DEF Next, MainStep
<1>3. Armed => WaitsBehindRefusal
  BY DEF Armed, WaitsBehindRefusal
<1> QED
  BY <1>1, <1>2, <1>3, PTL DEF Spec

-----------------------------------------------------------------------------
\* l is one of the loops from s up to and without e, going round.
Between(s, l, e) == IF s <= e THEN s <= l /\ l < e ELSE s <= l \/ l < e

\* While a batch is handed out, the loops since the one it last began a round with
\* have a connection more than the others.
Dealt(s, n) == \A l \in Loops : batch[l] = IF Between(s, l, next) THEN n + 1 ELSE n

BatchInv ==
    /\ mpc = "accepting" => \E s \in Loops, n \in Nat : Dealt(s, n)
    /\ BatchBalanced

LEMMA DealtIsBalanced ==
    ASSUME NEW s \in Loops, NEW n \in Nat, Dealt(s, n)
    PROVE  BatchBalanced
BY DEF Dealt, BatchBalanced

\* Dealing one more gives the loop at next_ the connection it lacks; when next_ comes
\* round to s, all have the same again.
LEMMA DealOne ==
    ASSUME TypeOK, NEW s \in Loops, NEW n \in Nat, Dealt(s, n), HandOver
    PROVE  \E m \in Nat : Dealt(s, m)'
<1>1. /\ next \in Loops /\ batch \in [Loops -> Nat]
      /\ batch' = [batch EXCEPT ![next] = @ + 1]
      /\ next' = NextIndex
      /\ ThreadNum \in Nat \ {0}
  BY AcceptorAssumption DEF TypeOK, HandOver, GetNextLoop
<1>2. next' = IF next + 1 = ThreadNum THEN 0 ELSE next + 1
  BY <1>1, ModOfNext DEF NextIndex, Loops
<1>3. next' \in Loops /\ \A l \in Loops : l \in Nat /\ l < ThreadNum
  <2>1. \A l \in Loops : l \in Nat /\ l < ThreadNum
    BY <1>1 DEF Loops
  <2>2. next' \in Loops
    BY <1>1, <1>2 DEF Loops
  <2> QED
    BY <2>1, <2>2
<1>4. ~Between(s, next, next)
  BY <1>1, <1>3 DEF Between
<1>5. batch[next] = n
  BY <1>1, <1>4 DEF Dealt
<1>6. CASE next' = s
  <2>1. \A l \in Loops : l # next => Between(s, l, next)
    BY <1>1, <1>2, <1>3, <1>6 DEF Between
  <2>2. \A l \in Loops : batch'[l] = n + 1
    BY <1>1, <1>5, <2>1 DEF Dealt
  <2>3. \A l \in Loops : ~Between(s, l, s)
    BY <1>3 DEF Between
  <2>4. Dealt(s, n + 1)'
    BY <1>6, <2>2, <2>3 DEF Dealt
  <2> QED
    BY <2>4
<1>7. CASE next' # s
  <2>1. \A l \in Loops : Between(s, l, next') <=> Between(s, l, next) \/ l = next
    BY <1>1, <1>2, <1>3, <1>7 DEF Between
  <2>2. \A l \in Loops : batch'[l] = IF Between(s, l, next') THEN n + 1 ELSE n
    BY <1>1, <1>4, <1>5, <2>1 DEF Dealt
  <2>3. Dealt(s, n)'
    BY <2>2 DEF Dealt
  <2> QED
    BY <2>3
<1> QED
  BY <1>6, <1>7

\* No loop gets two connections more than another in one batch.
THEOREM BatchesAreBalanced == Spec => []BatchBalanced
<1>1. Init => BatchInv
  BY DEF Init, BatchInv, BatchBalanced
<1>2. TypeOK /\ TypeOK' /\ BatchInv /\ [Next]_vars => BatchInv'
  <2> SUFFICES ASSUME TypeOK, TypeOK', BatchInv, [Next]_vars PROVE BatchInv'
    OBVIOUS
  <2> USE DEF connVars, channelVars, histVars
  <2>1. ASSUME UNCHANGED batch, mpc' # "accepting" PROVE BatchInv'
    BY <2>1 DEF BatchInv, BatchBalanced
  <2>2. ASSUME UNCHANGED <<mpc, next, batch>> PROVE BatchInv'
    BY <2>2 DEF BatchInv, BatchBalanced, Dealt, Between
  <2>3. CASE Poll
    <3>1. CASE backlog = <<>>
      BY <2>2, <2>3, <3>1 DEF Poll
    <3>2. CASE backlog # <<>>
      <4>1. next \in Loops /\ next' = next /\ \A l \in Loops : batch'[l] = 0 /\ ~Between(next, l, next)
        BY <2>3, <3>2, AcceptorAssumption DEF Poll, TypeOK, Between, Loops
      <4>2. Dealt(next, 0)'
        BY <4>1 DEF Dealt
      <4>3. BatchBalanced'
        BY <4>1 DEF BatchBalanced
      <4> QED
        BY <4>1, <4>2, <4>3 DEF BatchInv
    <3> QED
      BY <3>1, <3>2
  <2>4. CASE HandOver
    <3>1. PICK s \in Loops, n \in Nat : Dealt(s, n)
      BY <2>4 DEF HandOver, BatchInv
    <3>2. PICK m \in Nat : Dealt(s, m)'
      BY <2>4, <3>1, DealOne
    <3>3. BatchBalanced'
      BY <3>2 DEF Dealt, BatchBalanced
    <3> QED
      BY <3>2, <3>3 DEF BatchInv
  <2>5. CASE AcceptNone \/ AcceptFails \/ Refuse
    BY <2>1, <2>5 DEF AcceptNone, AcceptFails, Refuse, Break
  <2>6. CASE Arrive
    BY <2>2, <2>6 DEF Arrive
  <2>7. CASE StartPool \/ Start \/ HandelCurConnect
    BY <2>1, <2>7 DEF StartPool, Start, HandelCurConnect
  <2>8. CASE \E l \in Loops : Register(l) \/ \E c \in registered[l] : Close(l, c)
    BY <2>2, <2>8 DEF Register, Close
  <2>9. CASE UNCHANGED vars
    BY <2>2, <2>9 DEF vars
  <2> QED
    BY <2>3, <2>4, <2>5, <2>6, <2>7, <2>8, <2>9 DEF Next, MainStep
<1>3. BatchInv => BatchBalanced
  BY DEF BatchInv
<1> QED
  BY <1>1, <1>2, <1>3, TypeCorrect, PTL DEF Spec

-----------------------------------------------------------------------------
(* A connection is in one place at a time.  The places are sets here, and   *)
(* each step takes one connection from one place to another.                *)

Mailed(l) == Range(mail[l])

NoRepetition == IsInjective(backlog) /\ \A l \in Loops : IsInjective(mail[l])

\* No connection is in two of the places.
Apart ==
    /\ \A c \in Range(backlog) : c \notin gone
    /\ \A l \in Loops : \A c \in Mailed(l) \cup registered[l] :
          /\ c \notin Range(backlog) /\ c \notin gone
          /\ ~(c \in Mailed(l) /\ c \in registered[l])
          /\ \A m \in Loops : c \in Mailed(m) \cup registered[m] => m = l

Placed(c) ==
    c \in Range(backlog) \/ c \in gone \/ \E l \in Loops : c \in Mailed(l) \cup registered[l]

\* Those that have come are just those that are somewhere.
Kept == \A c \in Nat : c \in 1 .. arrived <=> Placed(c)

PlaceInv == TypeOK /\ NoRepetition /\ Apart /\ Kept

LEMMA SeqInNat == ASSUME TypeOK PROVE /\ Range(backlog) \subseteq Conns
                                     /\ \A l \in Loops : Range(mail[l]) \subseteq Conns
                                     /\ Conns \subseteq Nat /\ arrived \in Nat
  BY AcceptorAssumption, RangeOfSeq DEF TypeOK, Conns

LEMMA PlaceImpliesOnePlace == PlaceInv => OnePlace
<1> SUFFICES ASSUME PlaceInv PROVE OnePlace
  OBVIOUS
<1>1. /\ \A c : c \in InMail <=> \E l \in Loops : c \in Mailed(l)
      /\ \A c : c \in Registered <=> \E l \in Loops : c \in registered[l]
  BY DEF InMail, Registered, Mailed
<1>2. \A l, m \in Loops : l # m =>
        (Range(mail[l]) \cup registered[l]) \cap (Range(mail[m]) \cup registered[m]) = {}
  BY DEF PlaceInv, Apart, Mailed
<1>3. \A l \in Loops : Range(mail[l]) \cap registered[l] = {}
  BY DEF PlaceInv, Apart, Mailed
<1>4. /\ (InMail \cup Registered) \cap (Range(backlog) \cup gone) = {}
      /\ Range(backlog) \cap gone = {}
  BY <1>1 DEF PlaceInv, Apart
<1>5. Range(backlog) \cup InMail \cup Registered \cup gone = 1 .. arrived
  <2>1. \A c \in Nat : c \in Range(backlog) \cup InMail \cup Registered \cup gone <=> Placed(c)
    BY <1>1 DEF Placed
  <2>2. Range(backlog) \cup InMail \cup Registered \cup gone \subseteq Nat
    BY <1>1, SeqInNat DEF PlaceInv, TypeOK, Mailed
  <2> QED
    BY <2>1, <2>2 DEF PlaceInv, Kept
<1> QED
  BY <1>2, <1>3, <1>4, <1>5 DEF OnePlace, PlaceInv, NoRepetition

LEMMA PlaceInit == Init => PlaceInv
<1> SUFFICES ASSUME Init PROVE PlaceInv
  OBVIOUS
<1>1. TypeOK
  BY InitType
<1>2. Range(backlog) = {} /\ \A l \in Loops : Mailed(l) = {}
  BY EmptyRange DEF Init, Mailed
<1>3. NoRepetition
  BY EmptyRange DEF Init, NoRepetition
<1>4. Apart /\ Kept
  BY <1>2 DEF Init, Apart, Kept, Placed
<1> QED
  BY <1>1, <1>3, <1>4 DEF PlaceInv

\* The head of the backlog is no longer in it, and is gone.
LEMMA LeavesBacklog ==
  ASSUME PlaceInv, TypeOK', backlog # <<>>, backlog' = Tail(backlog),
         gone' = gone \cup {Head(backlog)}, UNCHANGED <<mail, registered, arrived>>
  PROVE  PlaceInv'
<1> DEFINE h == Head(backlog)
<1>1. /\ h \in Range(backlog) /\ IsInjective(backlog')
      /\ Range(backlog') = Range(backlog) \ {h}
  BY HeadRange DEF PlaceInv, TypeOK, NoRepetition
<1>2. \A l \in Loops : Mailed(l)' = Mailed(l)
  BY DEF Mailed
<1> HIDE DEF h
<1>3. gone' = gone \cup {h}
  BY DEF h
<1>4. NoRepetition'
  BY <1>1 DEF PlaceInv, NoRepetition
<1>5. Apart'
  BY <1>1, <1>2, <1>3 DEF PlaceInv, Apart
<1>6. Kept'
  BY <1>1, <1>2, <1>3 DEF PlaceInv, Kept, Placed
<1> QED
  BY <1>4, <1>5, <1>6 DEF PlaceInv

\* A new connection has been nowhere before.
LEMMA ArriveKeeps == ASSUME PlaceInv, TypeOK', Arrive PROVE PlaceInv'
<1> DEFINE h == arrived + 1
<1>1. /\ h \in Conns /\ h \in Nat /\ arrived \in Nat /\ ~Placed(h)
      /\ backlog \in Seq(Conns)
  BY AcceptorAssumption DEF Arrive, PlaceInv, TypeOK, Kept, Conns
<1>2. /\ Range(backlog') = Range(backlog) \cup {h}
      /\ IsInjective(backlog')
      /\ UNCHANGED <<mail, registered, gone>> /\ arrived' = arrived + 1
  BY <1>1, AppendRange DEF Arrive, PlaceInv, NoRepetition, Placed
<1>3. \A l \in Loops : Mailed(l)' = Mailed(l)
  BY <1>2 DEF Mailed
<1>4. NoRepetition'
  BY <1>2 DEF PlaceInv, NoRepetition
<1>5. Apart'
  BY <1>1, <1>2, <1>3 DEF PlaceInv, Apart, Placed
<1>6. Kept'
  <2>1. \A c \in Nat : c \in 1 .. arrived' <=> c \in 1 .. arrived \/ c = h
    BY <1>1, <1>2
  <2>2. \A c : Placed(c)' <=> Placed(c) \/ c = h
    BY <1>2, <1>3 DEF Placed
  <2> QED
    BY <2>1, <2>2 DEF PlaceInv, Kept
<1> QED
  BY <1>4, <1>5, <1>6 DEF PlaceInv

LEMMA HandOverKeeps ==
  ASSUME PlaceInv, TypeOK', HandOver, NEW k \in Loops, next = k
  PROVE  PlaceInv'
<1> DEFINE h == Head(backlog)
<1>1. /\ h \in Conns /\ h \in Range(backlog) /\ IsInjective(backlog')
      /\ Range(backlog') = Range(backlog) \ {h}
  BY HeadRange DEF HandOver, PlaceInv, TypeOK, NoRepetition
<1>2. /\ UNCHANGED <<registered, gone, arrived>>
      /\ mail' = [mail EXCEPT ![k] = Append(@, h)]
      /\ mail \in [Loops -> Seq(Conns)]
  BY DEF HandOver, PlaceInv, TypeOK
<1> HIDE DEF h
<1>3. \A l \in Loops : h \notin Mailed(l) \cup registered[l]
  BY <1>1 DEF PlaceInv, Apart
<1>4. /\ mail'[k] = Append(mail[k], h) /\ mail[k] \in Seq(Conns)
      /\ \A l \in Loops \ {k} : mail'[l] = mail[l]
  BY <1>2
<1>5. /\ Mailed(k)' = Mailed(k) \cup {h}
      /\ \A l \in Loops \ {k} : Mailed(l)' = Mailed(l)
  <2>1. Range(Append(mail[k], h)) = Range(mail[k]) \cup {h}
    BY <1>1, <1>4, AppendRange
  <2> QED
    BY <2>1, <1>2, <1>4 DEF Mailed
<1>6. NoRepetition'
  <2>1. IsInjective(Append(mail[k], h))
    BY <1>1, <1>2, <1>3, <1>4, AppendRange DEF PlaceInv, NoRepetition, Mailed
  <2> QED
    BY <2>1, <1>1, <1>4 DEF PlaceInv, NoRepetition
<1>7. Apart'
  <2>1. \A c \in Range(backlog') : c \notin gone'
    BY <1>1, <1>2 DEF PlaceInv, Apart
  <2>2. \A l \in Loops : h \in Mailed(l)' \cup registered'[l] =>
           l = k /\ h \notin registered[l] /\ h \notin Range(backlog') /\ h \notin gone
    BY <1>1, <1>2, <1>3, <1>5 DEF PlaceInv, Apart
  <2>3. \A l \in Loops : \A c : c # h =>
           (c \in Mailed(l)' <=> c \in Mailed(l)) /\ (c \in Range(backlog') <=> c \in Range(backlog))
    BY <1>1, <1>5
  <2>4. registered' = registered /\ gone' = gone
    BY <1>2
  <2> QED
    BY <2>1, <2>2, <2>3, <2>4 DEF PlaceInv, Apart
<1>8. Kept'
  <2>1. \A c : c \in Range(backlog) <=> c \in Range(backlog') \/ c = h
    BY <1>1
  <2>2. \A c : (\E l \in Loops : c \in Mailed(l)' \cup registered'[l])
                 <=> (\E l \in Loops : c \in Mailed(l) \cup registered[l]) \/ c = h
    BY <1>2, <1>5
  <2>3. \A c : Placed(c)' <=> Placed(c)
    BY <2>1, <2>2, <1>2 DEF Placed
  <2> QED
    BY <2>3, <1>2 DEF PlaceInv, Kept
<1> QED
  BY <1>6, <1>7, <1>8 DEF PlaceInv

LEMMA RegisterKeeps ==
  ASSUME PlaceInv, TypeOK', NEW k \in Loops, Register(k)
  PROVE  PlaceInv'
<1> DEFINE h == Head(mail[k])
<1>1. /\ mail[k] # <<>> /\ mail \in [Loops -> Seq(Conns)] /\ IsInjective(mail[k])
      /\ registered \in [Loops -> SUBSET Conns]
      /\ mail' = [mail EXCEPT ![k] = Tail(@)]
      /\ registered' = [registered EXCEPT ![k] = @ \cup {h}]
      /\ UNCHANGED <<backlog, gone, arrived>>
  BY DEF Register, PlaceInv, TypeOK, NoRepetition
<1>2. /\ h \in Range(mail[k]) /\ IsInjective(Tail(mail[k]))
      /\ Range(Tail(mail[k])) = Range(mail[k]) \ {h}
  <2>1. mail[k] \in Seq(Conns)
    BY <1>1
  <2> QED
    BY <2>1, <1>1, HeadRange
<1> HIDE DEF h
<1>3. /\ Mailed(k)' = Mailed(k) \ {h} /\ h \in Mailed(k)
      /\ registered'[k] = registered[k] \cup {h}
      /\ \A l \in Loops \ {k} : Mailed(l)' = Mailed(l) /\ registered'[l] = registered[l]
  BY <1>1, <1>2 DEF Mailed
<1>4. NoRepetition'
  BY <1>1, <1>2 DEF PlaceInv, NoRepetition
<1>5. Apart'
  BY <1>1, <1>3 DEF PlaceInv, Apart
<1>6. Kept'
  <2>1. \A c : (\E l \in Loops : c \in Mailed(l)' \cup registered'[l])
                 <=> (\E l \in Loops : c \in Mailed(l) \cup registered[l])
    BY <1>3
  <2>2. \A c : Placed(c)' <=> Placed(c)
    BY <2>1, <1>1 DEF Placed
  <2> QED
    BY <2>2, <1>1 DEF PlaceInv, Kept
<1> QED
  BY <1>4, <1>5, <1>6 DEF PlaceInv

LEMMA CloseKeeps ==
  ASSUME PlaceInv, TypeOK', NEW k \in Loops, NEW h \in registered[k], Close(k, h)
  PROVE  PlaceInv'
<1>1. /\ registered \in [Loops -> SUBSET Conns]
      /\ registered' = [registered EXCEPT ![k] = @ \ {h}]
      /\ gone' = gone \cup {h}
      /\ UNCHANGED <<backlog, mail, arrived>>
  BY DEF Close, PlaceInv, TypeOK
<1>2. /\ registered'[k] = registered[k] \ {h}
      /\ \A l \in Loops \ {k} : registered'[l] = registered[l]
      /\ \A l \in Loops : Mailed(l)' = Mailed(l)
  BY <1>1 DEF Mailed
<1>3. NoRepetition'
  BY <1>1 DEF PlaceInv, NoRepetition
<1>4. Apart'
  BY <1>1, <1>2 DEF PlaceInv, Apart
<1>5. Kept'
  BY <1>1, <1>2 DEF PlaceInv, Kept, Placed
<1> QED
  BY <1>3, <1>4, <1>5 DEF PlaceInv

LEMMA OthersKeepPlaces ==
  ASSUME PlaceInv, TypeOK', UNCHANGED connVars
  PROVE  PlaceInv'
  BY DEF connVars, PlaceInv, NoRepetition, Apart, Kept, Placed, Mailed

\* A connection is never dropped, held twice or handed to two loops, for any number
\* of connections, loops and descriptors (WebServer::HandleNewConnect).
THEOREM EachInOnePlace == Spec => []OnePlace
<1>1. PlaceInv /\ TypeOK' /\ [Next]_vars => PlaceInv'
  <2> SUFFICES ASSUME PlaceInv, TypeOK', [Next]_vars PROVE PlaceInv'
    OBVIOUS
  <2>1. CASE Arrive
    BY <2>1, ArriveKeeps
  <2>2. CASE StartPool \/ Start \/ Poll \/ AcceptNone \/ HandelCurConnect
    BY <2>2, OthersKeepPlaces DEF StartPool, Start, Poll, AcceptNone, HandelCurConnect
  <2>3. CASE AcceptFails
    <3>1. CASE backlog' = Tail(backlog) /\ gone' = gone \cup {Head(backlog)}
      BY <2>3, <3>1, LeavesBacklog DEF AcceptFails
    <3>2. CASE UNCHANGED <<backlog, gone>>
      BY <2>3, <3>2, OthersKeepPlaces DEF AcceptFails, connVars
    <3> QED
      BY <2>3, <3>1, <3>2 DEF AcceptFails
  <2>4. CASE Refuse
    BY <2>4, LeavesBacklog DEF Refuse
  <2>5. CASE HandOver
    BY <2>5, HandOverKeeps DEF PlaceInv, TypeOK
  <2>6. CASE \E l \in Loops : Register(l) \/ \E c \in registered[l] : Close(l, c)
    BY <2>6, RegisterKeeps, CloseKeeps
  <2>7. CASE UNCHANGED vars
    BY <2>7, OthersKeepPlaces DEF vars, connVars
  <2> QED
    BY <2>1, <2>2, <2>3, <2>4, <2>5, <2>6, <2>7 DEF Next, MainStep
<1> QED
  BY <1>1, PlaceInit, PlaceImpliesOnePlace, TypeCorrect, PTL DEF Spec
=============================================================================
