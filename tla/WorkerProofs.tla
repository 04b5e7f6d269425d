---------------------------- MODULE WorkerProofs ----------------------------
(***************************************************************************)
(* Proofs about those who work for another and are counted on.             *)
(*                                                                         *)
(* ThreadPool, for any workers, closers, tasks and size of the ring: its   *)
(* types, the order in which the tasks are taken, and what a graceful      *)
(* shutdown leaves behind.                                                 *)
(*                                                                         *)
(* WebBench, for any command lines, clients, requests and failures: its    *)
(* types, and the totals the parent makes of the children's lines, with    *)
(* what they need about the sum of a function.                             *)
(***************************************************************************)
EXTENDS ThreadPool, WebBench, FiniteSetTheorems, SequenceTheorems, WellFoundedInduction, TLAPS

-----------------------------------------------------------------------------
(* ThreadPool: the ring and the shutdown.                                  *)

\* The ring holds tasks, not holes, where InOrderOnce says it holds what was
\* accepted: neither the types nor the order can be proved without the other.
RingInv == TypeOK /\ InOrderOnce

Leaving == {"leave", "count", "done"}

\* DrainedIfAnyWasLeft speaks of the end only.  What makes it inductive: a worker
\* that leaves after a graceful Destroy leaves an empty ring, which Add no longer
\* fills; and who has been joined does not come back.
DrainInv ==
    /\ TypeOK
    /\ shutdown = graceful => \A w \in Workers \ left : pc[w] \in Leaving => count = 0
    /\ (\E c \in Closers : closing[c] \in {"freed", "kept"}) => Joined

-----------------------------------------------------------------------------
(* The indices of the ring.                                                *)

LEMMA RingIndex ==
  ASSUME NEW h \in Slots, NEW i \in 0..queue_size
  PROVE  (h + i) % queue_size = IF h + i < queue_size THEN h + i ELSE h + i - queue_size
  BY PoolAssumption, SMT DEF Slots

\* The slots behind the head are apart from each other for less than a round.
LEMMA SlotsApart ==
  ASSUME NEW h \in Slots, NEW i \in 0..(queue_size - 1), NEW j \in 0..(queue_size - 1)
  PROVE  /\ (h + i) % queue_size \in Slots
         /\ (h + i) % queue_size = (h + j) % queue_size => i = j
<1>1. /\ (h + i) % queue_size = IF h + i < queue_size THEN h + i ELSE h + i - queue_size
      /\ (h + j) % queue_size = IF h + j < queue_size THEN h + j ELSE h + j - queue_size
  BY RingIndex, PoolAssumption
<1>2. queue_size \in Nat /\ h \in 0..(queue_size - 1)
  BY PoolAssumption DEF Slots
<1> HIDE DEF Slots
<1>3. (h + i) % queue_size \in 0..(queue_size - 1)
  BY <1>1, <1>2
<1> QED
  BY <1>1, <1>2, <1>3 DEF Slots

\* One slot on, and one less to go, is the same slot.
LEMMA NextSlot ==
  ASSUME NEW h \in Slots, NEW i \in 0..(queue_size - 1)
  PROVE  /\ (h + 1) % queue_size \in Slots
         /\ (((h + 1) % queue_size) + i) % queue_size = (h + (i + 1)) % queue_size
         /\ (((h + i) % queue_size) + 1) % queue_size = (h + (i + 1)) % queue_size
<1> DEFINE n == (h + 1) % queue_size
           m == (h + i) % queue_size
<1>0. queue_size \in Nat \ {0} /\ h \in 0..(queue_size - 1)
  BY PoolAssumption DEF Slots
<1>1. n = IF h + 1 < queue_size THEN h + 1 ELSE h + 1 - queue_size
  BY <1>0, RingIndex
<1>2. m = IF h + i < queue_size THEN h + i ELSE h + i - queue_size
  BY <1>0, RingIndex
<1>3. n \in Slots /\ m \in Slots
  BY <1>0, <1>1, <1>2 DEF Slots
<1>4. (n + i) % queue_size = IF n + i < queue_size THEN n + i ELSE n + i - queue_size
  BY <1>0, <1>3, RingIndex
<1>5. (m + 1) % queue_size = IF m + 1 < queue_size THEN m + 1 ELSE m + 1 - queue_size
  BY <1>0, <1>3, RingIndex
<1>6. (h + (i + 1)) % queue_size =
          IF h + (i + 1) < queue_size THEN h + (i + 1) ELSE h + (i + 1) - queue_size
  BY <1>0, RingIndex
<1> QED
  BY <1>0, <1>1, <1>2, <1>3, <1>4, <1>5, <1>6 DEF Slots

-----------------------------------------------------------------------------
LEMMA InitRing == Init => RingInv
<1> SUFFICES ASSUME Init PROVE RingInv
  OBVIOUS
<1>1. <<>> \in Seq(Tasks) /\ Len(<<>>) = 0
  BY EmptySeq
<1>2. (0 + 0) % queue_size = 0 /\ 0 \in Slots
  BY RingIndex, PoolAssumption DEF Slots
<1>3. TypeOK
  BY <1>1, <1>2, PoolAssumption DEF Init, TypeOK, immediate, graceful
<1>4. InOrderOnce
  BY <1>1, <1>2 DEF Init, InOrderOnce
<1> QED
  BY <1>3, <1>4 DEF RingInv

LEMMA SignalTypes ==
  ASSUME TypeOK, Signal \/ Broadcast
  PROVE  pc' \in [Workers -> {"none", "lock", "wait", "run", "leave", "count", "done"}]
<1> DEFINE Phases == {"none", "lock", "wait", "run", "leave", "count", "done"}
<1>0. pc \in [Workers -> Phases] /\ "lock" \in Phases
  BY DEF TypeOK
<1>1. CASE \E w \in Workers : pc' = [pc EXCEPT ![w] = "lock"]
  BY <1>0, <1>1
<1>2. CASE pc' = pc
  BY <1>0, <1>2
<1>3. CASE Broadcast
  BY <1>0, <1>3 DEF Broadcast
<1> QED
  BY <1>1, <1>2, <1>3 DEF Signal

LEMMA AddKeeps ==
  ASSUME RingInv, NEW t \in Tasks, Add(t)
  PROVE  RingInv'
<1> USE DEF RingInv
<1>0. /\ queue_size \in Nat \ {0} /\ head \in Slots /\ count \in 0..(queue_size - 1)
      /\ tail = (head + count) % queue_size /\ tail \in Slots
  BY PoolAssumption DEF Add, Full, TypeOK, InOrderOnce
<1>1. /\ accepted' \in Seq(Tasks) /\ Len(accepted') = Len(accepted) + 1
      /\ accepted'[Len(accepted) + 1] = t
      /\ \A i \in 1..Len(accepted) : accepted'[i] = accepted[i]
  BY AppendProperties DEF Add, TypeOK
<1>2. tail' = (head + (count + 1)) % queue_size /\ tail' \in Slots
  BY <1>0, NextSlot DEF Add
<1>3. TypeOK'
  BY <1>0, <1>1, <1>2, SignalTypes DEF Add, TypeOK
<1>4. Len(accepted) \in Nat /\ Len(taken) \in Nat /\ Len(accepted) = Len(taken) + count
  BY LenProperties DEF TypeOK, InOrderOnce
<1>5. ASSUME NEW i \in 0..count
      PROVE  task_queue'[(head + i) % queue_size] = accepted'[Len(taken) + i + 1]
  <2>1. (head + i) % queue_size \in Slots
    BY <1>0, SlotsApart
  <2>2. CASE i = count
    BY <1>0, <1>1, <1>4, <2>2 DEF Add, TypeOK
  <2>3. CASE i # count
    <3>1. (head + i) % queue_size # tail
      <4>1. i \in 0..(queue_size - 1) /\ count \in 0..(queue_size - 1)
        BY <1>0
      <4> QED
        BY <1>0, <2>3, <4>1, SlotsApart
    <3>2. task_queue'[(head + i) % queue_size] = task_queue[(head + i) % queue_size]
      BY <2>1, <3>1 DEF Add, TypeOK
    <3>3. i \in 0..(count - 1) /\ Len(taken) + i + 1 \in 1..Len(accepted)
      BY <1>0, <1>4, <2>3
    <3> QED
      BY <1>1, <3>2, <3>3 DEF InOrderOnce
  <2> QED
    BY <2>2, <2>3
<1>6. InOrderOnce'
  <2>1. /\ head' = head /\ taken' = taken /\ count' = count + 1
    BY DEF Add
  <2>2. \A i \in 1..Len(taken) : taken[i] = accepted'[i]
    BY <1>0, <1>1, <1>4 DEF InOrderOnce
  <2> QED
    BY <1>0, <1>1, <1>2, <1>4, <1>5, <2>1, <2>2 DEF InOrderOnce
<1> QED
  BY <1>3, <1>6

LEMMA TakeKeeps ==
  ASSUME RingInv, NEW w \in Workers, Look(w), Take(w), pc'[w] = "run"
  PROVE  RingInv'
<1> USE DEF RingInv
<1>0. /\ pc' = [pc EXCEPT ![w] = "run"] /\ count # 0
      /\ UNCHANGED <<tail, accepted, mutex, started, seen, starting, shutdown, closing, left>>
  BY DEF Look, Leave, TypeOK, immediate, graceful
<1>1. /\ queue_size \in Nat \ {0} /\ head \in Slots /\ count \in 1..queue_size
  BY <1>0, PoolAssumption DEF TypeOK
<1>2. Len(accepted) \in Nat /\ Len(taken) \in Nat /\ Len(accepted) = Len(taken) + count
  BY LenProperties DEF TypeOK, InOrderOnce
<1>3. (head + 0) % queue_size = head
  <2>1. 0 \in 0..queue_size /\ head + 0 = head /\ head < queue_size
    BY <1>1 DEF Slots
  <2> QED
    BY <1>1, <2>1, RingIndex
<1>4. 0 \in 0..(count - 1)
  BY <1>1
<1>5. task_queue[head] = accepted[Len(taken) + 1]
  <2>1. task_queue[(head + 0) % queue_size] = accepted[Len(taken) + 0 + 1]
    BY <1>4 DEF InOrderOnce
  <2> QED
    BY <1>2, <1>3, <2>1
<1>6. task_queue[head] \in Tasks
  <2>1. Len(taken) + 1 \in 1..Len(accepted)
    BY <1>1, <1>2
  <2> QED
    BY <1>5, <2>1, ElementOfSeq DEF TypeOK
<1>7. /\ taken' \in Seq(Tasks) /\ Len(taken') = Len(taken) + 1
      /\ taken'[Len(taken) + 1] = task_queue[head]
      /\ \A i \in 1..Len(taken) : taken'[i] = taken[i]
  BY <1>6, AppendProperties DEF Take, TypeOK
<1>8. head' = (head + 1) % queue_size /\ head' \in Slots /\ count' = count - 1
  BY <1>1, NextSlot DEF Take
<1>9. TypeOK'
  BY <1>0, <1>1, <1>6, <1>7, <1>8 DEF Take, TypeOK
<1>10. \A i \in 0..(queue_size - 1) :
          (head' + i) % queue_size = (head + (i + 1)) % queue_size
  BY <1>1, <1>8, NextSlot
<1>11. ASSUME NEW i \in 0..(count - 2)
       PROVE  task_queue'[(head' + i) % queue_size] = accepted[Len(taken) + 1 + i + 1]
  <2>1. i + 1 \in 0..(count - 1) /\ i + 1 \in 0..(queue_size - 1) /\ i + 1 # 0
        /\ i \in 0..(queue_size - 1) /\ 0 \in 0..(queue_size - 1)
    BY <1>1
  <2>2. (head + (i + 1)) % queue_size \in Slots /\ (head + (i + 1)) % queue_size # head
    BY <1>1, <1>3, <2>1, SlotsApart
  <2>3. task_queue'[(head + (i + 1)) % queue_size] = task_queue[(head + (i + 1)) % queue_size]
    BY <2>2 DEF Take, TypeOK
  <2>4. task_queue[(head + (i + 1)) % queue_size] = accepted[Len(taken) + (i + 1) + 1]
    BY <2>1 DEF InOrderOnce
  <2>5. Len(taken) + (i + 1) + 1 = Len(taken) + 1 + i + 1
    BY <1>2, <2>1
  <2> QED
    BY <1>10, <2>1, <2>3, <2>4, <2>5
<1>12. tail' = (head' + count') % queue_size
  <2>1. count' \in 0..(queue_size - 1) /\ count' + 1 = count
    BY <1>1, <1>8
  <2>2. tail = (head + (count' + 1)) % queue_size
    BY <2>1 DEF InOrderOnce
  <2> QED
    BY <1>0, <1>10, <2>1, <2>2
<1>13. \A i \in 1..Len(taken') : taken'[i] = accepted[i]
  BY <1>1, <1>2, <1>5, <1>7 DEF InOrderOnce
<1>14. InOrderOnce'
  <2>1. accepted' = accepted /\ count' - 1 = count - 2
    BY <1>0, <1>1, <1>8
  <2>2. Len(accepted') = Len(taken') + count'
    BY <1>1, <1>2, <1>7, <1>8, <2>1
  <2> QED
    BY <1>7, <1>11, <1>12, <1>13, <2>1, <2>2 DEF InOrderOnce
<1> QED
  BY <1>9, <1>14

LEMMA NextRing == RingInv /\ [Next]_vars => RingInv'
<1> SUFFICES ASSUME RingInv, [Next]_vars PROVE RingInv'
  OBVIOUS
<1>0. TypeOK /\ InOrderOnce
  BY DEF RingInv
\* What leaves the ring alone keeps its order; only the types are to be shown.
<1>a. ASSUME UNCHANGED ring, TypeOK' PROVE RingInv'
  BY <1>0, <1>a DEF RingInv, InOrderOnce, ring
<1> USE DEF ring, life
<1>1. ASSUME Create \/ CountUp PROVE RingInv'
  <2>1. CASE Create
    <3>1. TypeOK'
      BY <1>0, <2>1 DEF Create, TypeOK
    <3> QED
      BY <1>a, <2>1, <3>1 DEF Create
  <2>2. CASE CountUp
    <3>1. started' \in Int /\ seen' \in [Workers \cup {"start"} -> Int]
      BY <1>0, <2>2 DEF CountUp, TypeOK
    <3>2. starting' \in {"create", "read", "write", "done", "failed"}
      BY <2>2 DEF CountUp
    <3>3. TypeOK'
      BY <1>0, <2>2, <3>1, <3>2 DEF CountUp, TypeOK
    <3> QED
      BY <1>a, <2>2, <3>3 DEF CountUp
  <2> QED
    BY <1>1, <2>1, <2>2
<1>2. ASSUME NEW t \in Tasks, Add(t) PROVE RingInv'
  BY <1>2, AddKeeps
<1>3. ASSUME NEW w \in Workers, Spurious(w) \/ Callback(w) \/ CountDown(w) PROVE RingInv'
  <2>1. CASE Spurious(w)
    <3>1. TypeOK'
      BY <1>0, <2>1 DEF Spurious, TypeOK
    <3> QED
      BY <1>a, <2>1, <3>1 DEF Spurious
  <2>2. CASE Callback(w)
    <3>1. TypeOK'
      BY <1>0, <2>2 DEF Callback, TypeOK
    <3> QED
      BY <1>a, <2>2, <3>1 DEF Callback
  <2>3. CASE CountDown(w)
    <3>1. started' \in Int /\ seen' \in [Workers \cup {"start"} -> Int]
      BY <1>0, <2>3 DEF CountDown, TypeOK
    <3>2. TypeOK'
      BY <1>0, <2>3, <3>1 DEF CountDown, TypeOK
    <3> QED
      BY <1>a, <2>3, <3>2 DEF CountDown
  <2> QED
    BY <1>3, <2>1, <2>2, <2>3
<1>4. ASSUME NEW w \in Workers, Look(w) PROVE RingInv'
  <2>1. CASE UNCHANGED ring
    <3>1. TypeOK'
      BY <1>0, <1>4, <2>1 DEF Look, TypeOK, Take
    <3> QED
      BY <1>a, <2>1, <3>1
  <2>2. CASE Take(w) /\ pc' = [pc EXCEPT ![w] = "run"]
    <3>1. pc'[w] = "run"
      BY <1>0, <2>2 DEF TypeOK
    <3> QED
      BY <1>4, <2>2, <3>1, TakeKeeps
  <2> QED
    BY <1>4, <2>1, <2>2 DEF Look
<1>5. ASSUME NEW c \in Closers, NEW o \in {immediate, graceful}, Destroy(c, o) PROVE RingInv'
  <2>1. TypeOK'
    BY <1>0, <1>5, SignalTypes DEF Destroy, TypeOK
  <2> QED
    BY <1>5, <1>a, <2>1 DEF Destroy
<1>6. ASSUME NEW c \in Closers, JoinAndFree(c) PROVE RingInv'
  <2>1. TypeOK'
    BY <1>0, <1>6 DEF JoinAndFree, TypeOK
  <2> QED
    BY <1>6, <1>a, <2>1 DEF JoinAndFree
<1>7. CASE UNCHANGED vars
  <2>1. TypeOK'
    BY <1>0, <1>7 DEF vars, TypeOK
  <2> QED
    BY <1>7, <1>a, <2>1 DEF vars
<1> QED
  BY <1>1, <1>2, <1>3, <1>4, <1>5, <1>6, <1>7 DEF Next, WorkerStep

LEMMA RingInvariance == Spec => []RingInv
  BY InitRing, NextRing, PTL DEF Spec

\* The types of the pool's variables; the two counts of Create and CountDown are not
\* bounded: started_thread_count_ is written without a lock.
THEOREM TypeCorrect == Spec => []TypeOK
<1>1. RingInv => TypeOK
  BY DEF RingInv
<1> QED
  BY <1>1, RingInvariance, PTL

\* Tasks are taken in the order in which they were added, each once, and the ring
\* holds exactly the others, whatever its size and however often it wraps.
THEOREM TakenInOrder == Spec => []InOrderOnce
<1>1. RingInv => InOrderOnce
  BY DEF RingInv
<1> QED
  BY <1>1, RingInvariance, PTL

-----------------------------------------------------------------------------
LEMMA NextDrain == DrainInv /\ TypeOK' /\ [Next]_vars => DrainInv'
<1> SUFFICES ASSUME DrainInv, TypeOK', [Next]_vars
             PROVE  /\ shutdown' = graceful =>
                          \A w \in Workers \ left' : pc'[w] \in Leaving => count' = 0
                    /\ (\E c \in Closers : closing'[c] \in {"freed", "kept"}) => Joined'
  BY DEF DrainInv
<1> DEFINE Drained == shutdown = graceful =>
                          \A w \in Workers \ left : pc[w] \in Leaving => count = 0
           Stayed == (\E c \in Closers : closing[c] \in {"freed", "kept"}) => Joined
<1> SUFFICES Drained' /\ Stayed'
  OBVIOUS
<1>0. TypeOK /\ Drained /\ Stayed
  BY DEF DrainInv
<1> USE DEF ring, life, Leaving, Joined
\* A step that gives no worker one of the three phases, and neither adds a task nor
\* changes the shutdown.
<1>a. ASSUME UNCHANGED <<count, shutdown, closing, left>>,
             \A w \in Workers : pc'[w] # pc[w] => pc[w] # "done" /\ pc'[w] \notin Leaving
      PROVE  Drained' /\ Stayed'
  BY <1>0, <1>a
<1>1. CASE Create
  BY <1>0, <1>1, <1>a DEF Create, TypeOK
<1>2. CASE CountUp
  BY <1>0, <1>2 DEF CountUp
<1>3. ASSUME NEW t \in Tasks, Add(t) PROVE Drained' /\ Stayed'
  <2>1. shutdown' # graceful
    BY <1>3 DEF Add, graceful
  <2>2. \A w \in Workers : pc[w] = "done" => pc'[w] = "done"
    BY <1>0, <1>3 DEF Add, Signal, TypeOK
  <2>3. Stayed'
    BY <1>0, <1>3, <2>2 DEF Add
  <2> QED
    BY <2>1, <2>3
<1>4. ASSUME NEW w \in Workers, Spurious(w) PROVE Drained' /\ Stayed'
  BY <1>0, <1>4, <1>a DEF Spurious, TypeOK
<1>5. ASSUME NEW w \in Workers, Look(w) PROVE Drained' /\ Stayed'
  <2>0. /\ UNCHANGED <<shutdown, closing, left>> /\ pc[w] = "lock"
        /\ \A v \in Workers : v # w => pc'[v] = pc[v]
    BY <1>0, <1>5 DEF Look, TypeOK
  <2>1. Stayed'
    BY <1>0, <2>0
  <2>2. CASE UNCHANGED count /\ pc'[w] = "wait"
    BY <1>0, <2>0, <2>1, <2>2
  <2>3. CASE UNCHANGED count /\ Leave /\ pc'[w] = "leave"
    BY <1>0, <2>0, <2>1, <2>3 DEF Leave, immediate, graceful
  <2>4. CASE ~Leave /\ pc'[w] = "run"
    BY <1>0, <2>0, <2>1, <2>4 DEF Leave
  <2> QED
    BY <1>0, <1>5, <2>2, <2>3, <2>4 DEF Look, TypeOK
<1>6. ASSUME NEW w \in Workers, Callback(w) PROVE Drained' /\ Stayed'
  BY <1>0, <1>6, <1>a DEF Callback, TypeOK
<1>7. ASSUME NEW w \in Workers, CountDown(w) PROVE Drained' /\ Stayed'
  <2>1. /\ UNCHANGED <<count, shutdown, closing, left>>
        /\ pc[w] \in {"leave", "count"} /\ pc'[w] \in {"count", "done"}
        /\ \A v \in Workers : v # w => pc'[v] = pc[v]
    BY <1>0, <1>7 DEF CountDown, TypeOK
  <2> QED
    BY <1>0, <2>1
<1>8. ASSUME NEW c \in Closers, NEW o \in {immediate, graceful}, Destroy(c, o)
      PROVE  Drained' /\ Stayed'
  <2>1. CASE shutdown # 0
    <3>1. /\ UNCHANGED <<count, pc, shutdown, left>>
          /\ closing' = [closing EXCEPT ![c] = "refused"]
      BY <1>8, <2>1 DEF Destroy
    <3> QED
      BY <1>0, <3>1 DEF TypeOK
  <2>2. CASE shutdown = 0
    <3>1. /\ \A d \in Closers : closing[d] = "no"
          /\ closing' = [closing EXCEPT ![c] = "join"]
          /\ Broadcast /\ left' = {w \in Workers : pc[w] \in Leaving}
      BY <1>8, <2>2 DEF Destroy
    <3>2. \A d \in Closers : closing'[d] \in {"no", "join"}
      BY <1>0, <3>1 DEF TypeOK
    <3>3. \A w \in Workers \ left' : pc'[w] \notin Leaving
      BY <3>1 DEF Broadcast
    <3> QED
      BY <3>2, <3>3
  <2> QED
    BY <2>1, <2>2
<1>9. ASSUME NEW c \in Closers, JoinAndFree(c) PROVE Drained' /\ Stayed'
  <2>1. Joined /\ UNCHANGED <<count, pc, shutdown, left>>
    BY <1>9 DEF JoinAndFree
  <2> QED
    BY <1>0, <2>1
<1>10. CASE UNCHANGED vars
  BY <1>0, <1>10 DEF vars
<1> QED
  BY <1>1, <1>2, <1>3, <1>4, <1>5, <1>6, <1>7, <1>8, <1>9, <1>10 DEF Next, WorkerStep

\* A graceful Destroy leaves no task behind unless every worker had left before it
\* came: whatever the workers, the ring and the other callers of Destroy do.
THEOREM GracefulDrains == Spec => []DrainedIfAnyWasLeft
<1>1. Init => DrainInv
  <2>1. ASSUME Init PROVE DrainInv
    <3>1. TypeOK
      BY <2>1, InitRing DEF RingInv
    <3> QED
      BY <2>1, <3>1 DEF Init, DrainInv, graceful
  <2> QED
    BY <2>1
<1>2. DrainInv => DrainedIfAnyWasLeft
  BY DEF DrainInv, DrainedIfAnyWasLeft, TypeOK, Joined, Leaving
<1> QED
  BY <1>1, <1>2, NextDrain, TypeCorrect, PTL DEF Spec

-----------------------------------------------------------------------------
(* Sums over a finite set, by the number of its elements.                  *)

LEMMA LeastNumber ==
  ASSUME NEW S \in SUBSET Nat, S # {}
  PROVE  \E m \in S : \A k \in S : m <= k
<1> DEFINE Less == {ss \in Nat \X Nat : ss[1] < ss[2]}
<1>1. IsWellFoundedOn(Less, Nat)
  BY NatLessThanWellFounded DEF OpToRel
<1>2. PICK m \in S : \A k \in S : <<k, m>> \notin Less
  <2> HIDE DEF Less
  <2> QED
    BY <1>1, WFMin
<1>3. ASSUME NEW k \in S, k < m PROVE FALSE
  <2>1. <<k, m>> \in Nat \X Nat /\ <<k, m>>[1] < <<k, m>>[2]
    BY <1>3
  <2>2. <<k, m>> \in Less
    BY <2>1, Zenon
  <2> QED
    BY <2>2, <1>2, Zenon
<1> QED
  BY <1>3

LEMMA StepByStep ==
  ASSUME NEW S, 0 \in S, \A k \in Nat : k \in S => k + 1 \in S
  PROVE  Nat \subseteq S
<1> SUFFICES ASSUME Nat \ S # {} PROVE FALSE
  OBVIOUS
<1>1. PICK m \in Nat \ S : \A k \in Nat \ S : m <= k
  BY LeastNumber
<1>2. m - 1 \in Nat /\ m = (m - 1) + 1 /\ m - 1 \in S
  BY <1>1
<1> QED
  BY <1>1, <1>2


-----------------------------------------------------------------------------
(* Sums.  SumFunction takes its terms in an order that depends on the set  *)
(* they are of, and on no more: two functions on one set are added up in   *)
(* the same order, and are compared term by term.                          *)

First(s) == CHOOSE x \in s : TRUE

\* it holds the sums of f over the subsets of D.
Sums(it, f, D) ==
    /\ it[{}] = 0
    /\ \A s \in SUBSET D : s # {} => it[s] = f[First(s)] + it[s \ {First(s)}]

\* it is the function SumFunction is defined by.
Adds(it, f, D) ==
    it = [s \in SUBSET D |-> IF s = {} THEN 0 ELSE f[First(s)] + it[s \ {First(s)}]]

LEMMA FirstIs ==
  ASSUME NEW D, IsFiniteSet(D), NEW s \in SUBSET D, s # {}
  PROVE  /\ First(s) \in s /\ s \ {First(s)} \in SUBSET D
         /\ IsFiniteSet(s) /\ Cardinality(s) \in Nat
         /\ Cardinality(s \ {First(s)}) = Cardinality(s) - 1
<1>1. First(s) \in s
  BY DEF First
<1>2. IsFiniteSet(s)
  BY FS_Subset
<1> QED
  BY <1>1, <1>2, FS_RemoveElement, FS_CardinalityType

LEMMA EachSubset ==
  ASSUME NEW D, IsFiniteSet(D), NEW Q, {} \in Q,
         \A s \in SUBSET D : s # {} /\ s \ {First(s)} \in Q => s \in Q
  PROVE  D \in Q
<1> DEFINE S == {k \in Nat : \A s \in SUBSET D : Cardinality(s) = k => s \in Q}
<1>1. 0 \in S
  <2>1. \A s \in SUBSET D : Cardinality(s) = 0 => s = {}
    BY FS_Subset, FS_EmptySet
  <2> QED
    BY <2>1
<1>2. ASSUME NEW k \in Nat, k \in S PROVE k + 1 \in S
  <2> SUFFICES ASSUME NEW s \in SUBSET D, Cardinality(s) = k + 1 PROVE s \in Q
    OBVIOUS
  <2>1. CASE s = {}
    BY <2>1
  <2>2. CASE s # {}
    <3>1. s \ {First(s)} \in SUBSET D /\ Cardinality(s \ {First(s)}) = k
      BY <2>2, FirstIs
    <3> QED
      BY <1>2, <2>2, <3>1
  <2> QED
    BY <2>1, <2>2
<1>3. Nat \subseteq S
  <2> HIDE DEF S
  <2> QED
    BY <1>1, <1>2, StepByStep
<1>4. Cardinality(D) \in Nat
  BY FS_CardinalityType
<1> QED
  BY <1>3, <1>4

LEMMA SumsExist ==
  ASSUME NEW D, IsFiniteSet(D), NEW f
  PROVE  \E it : Adds(it, f, D)
<1> DEFINE Small(k) == {s \in SUBSET D : Cardinality(s) <= k}
           Partly(g, k) == g = [s \in Small(k) |->
                IF s = {} THEN 0 ELSE f[First(s)] + g[s \ {First(s)}]]
           S == {k \in Nat : \E g : Partly(g, k)}
<1>0. \A s \in SUBSET D : Cardinality(s) \in Nat /\ (Cardinality(s) = 0 <=> s = {})
  BY FS_Subset, FS_CardinalityType, FS_EmptySet
<1>1. 0 \in S
  <2> DEFINE g == [s \in {{}} |-> 0]
  <2>1. Small(0) = {{}}
    BY <1>0
  <2>2. Partly(g, 0)
    BY <2>1
  <2> QED
    BY <2>2
<1>2. ASSUME NEW k \in Nat, k \in S PROVE k + 1 \in S
  <2>1. PICK g : Partly(g, k)
    BY <1>2
  <2> DEFINE h == [s \in Small(k + 1) |->
                IF s = {} THEN 0 ELSE f[First(s)] + g[s \ {First(s)}]]
  <2>2. \A s \in Small(k + 1) : s # {} => s \ {First(s)} \in Small(k)
    <3> SUFFICES ASSUME NEW s \in SUBSET D, Cardinality(s) <= k + 1, s # {}
                 PROVE  s \ {First(s)} \in Small(k)
      OBVIOUS
    <3> QED
      BY FirstIs
  <2>3. \A s \in Small(k) : s \in Small(k + 1) /\ h[s] = g[s]
    <3>1. \A s \in Small(k) : s \in Small(k + 1)
      BY <1>0
    <3> QED
      BY <2>1, <3>1
  <2>4. \A s \in Small(k + 1) : s # {} => h[s \ {First(s)}] = g[s \ {First(s)}]
    BY <2>2, <2>3
  <2>5. Partly(h, k + 1)
    BY <2>4
  <2>6. \E p : Partly(p, k + 1)
    <3> HIDE DEF h, Partly
    <3> QED
      BY <2>5
  <2> HIDE DEF h, Partly
  <2> QED
    BY <2>6
<1>3. Nat \subseteq S
  <2> HIDE DEF S
  <2> QED
    BY <1>1, <1>2, StepByStep
<1>4. PICK n \in Nat : n = Cardinality(D)
  BY <1>0
<1>5. Small(n) = SUBSET D
  <2>1. \A s \in SUBSET D : Cardinality(s) <= n
    BY <1>4, FS_Subset
  <2> QED
    BY <2>1
<1>6. PICK g : Partly(g, n)
  BY <1>3
<1>7. Adds(g, f, D)
  BY <1>5, <1>6 DEF Adds
<1> QED
  BY <1>7

LEMMA SumFunctionIs ==
  ASSUME NEW D, IsFiniteSet(D), NEW f, DOMAIN f = D
  PROVE  \E it : Sums(it, f, D) /\ SumFunction(f) = it[D]
<1>1. SumFunction(f) = (CHOOSE it : Adds(it, f, D))[D]
  BY DEF SumFunction, SumFunctionOnSet, FoldFunctionOnSet, MapThenFoldSet, Adds, First
<1>2. PICK it : it = (CHOOSE g : Adds(g, f, D)) /\ Adds(it, f, D)
  BY SumsExist
<1>3. \A s \in SUBSET D : it[s] = IF s = {} THEN 0 ELSE f[First(s)] + it[s \ {First(s)}]
  BY <1>2 DEF Adds
<1>4. Sums(it, f, D)
  BY <1>3 DEF Sums
<1> QED
  BY <1>1, <1>2, <1>4

LEMMA SumIsNumber ==
  ASSUME NEW D, IsFiniteSet(D), NEW f \in [D -> Int]
  PROVE  SumFunction(f) \in Int
<1>1. PICK it : Sums(it, f, D) /\ SumFunction(f) = it[D]
  BY SumFunctionIs
<1> DEFINE Q == {s \in SUBSET D : it[s] \in Int}
<1>2. {} \in Q
  BY <1>1 DEF Sums
<1>3. ASSUME NEW s \in SUBSET D, s # {}, s \ {First(s)} \in Q PROVE s \in Q
  <2>1. f[First(s)] \in Int
    BY <1>3, FirstIs
  <2>2. it[s \ {First(s)}] \in Int
    BY <1>3
  <2>3. it[s] = f[First(s)] + it[s \ {First(s)}]
    BY <1>1, <1>3 DEF Sums
  <2>4. it[s] \in Int
    BY <2>1, <2>2, <2>3
  <2> QED
    BY <2>4
<1>4. D \in Q
  <2> HIDE DEF Q
  <2> QED
    BY <1>2, <1>3, EachSubset
<1> QED
  BY <1>1, <1>4

LEMMA SumOfNothing ==
  ASSUME NEW D, IsFiniteSet(D), NEW f \in [D -> Int], \A c \in D : f[c] = 0
  PROVE  SumFunction(f) = 0
<1>1. PICK it : Sums(it, f, D) /\ SumFunction(f) = it[D]
  BY SumFunctionIs
<1> DEFINE Q == {s \in SUBSET D : it[s] = 0}
<1>2. {} \in Q
  BY <1>1 DEF Sums
<1>3. ASSUME NEW s \in SUBSET D, s # {}, s \ {First(s)} \in Q PROVE s \in Q
  <2>1. f[First(s)] = 0
    BY <1>3, FirstIs
  <2>2. it[s \ {First(s)}] = 0
    BY <1>3
  <2>3. it[s] = f[First(s)] + it[s \ {First(s)}]
    BY <1>1, <1>3 DEF Sums
  <2>4. it[s] = 0
    BY <2>1, <2>2, <2>3
  <2> QED
    BY <2>4
<1>4. D \in Q
  <2> HIDE DEF Q
  <2> QED
    BY <1>2, <1>3, EachSubset
<1> QED
  BY <1>1, <1>4

\* No term is greater than the other but those of T, by one.
LEMMA SumsDifferByOnes ==
  ASSUME NEW D, IsFiniteSet(D), NEW f \in [D -> Int], NEW g \in [D -> Int], NEW T \in SUBSET D,
         \A c \in D : f[c] <= g[c] + (IF c \in T THEN 1 ELSE 0)
  PROVE  SumFunction(f) <= SumFunction(g) + Cardinality(T)
<1>1. PICK fs : Sums(fs, f, D) /\ SumFunction(f) = fs[D]
  BY SumFunctionIs
<1>2. PICK gs : Sums(gs, g, D) /\ SumFunction(g) = gs[D]
  BY SumFunctionIs
<1> DEFINE Q == {s \in SUBSET D : /\ fs[s] \in Int /\ gs[s] \in Int
                                  /\ fs[s] <= gs[s] + Cardinality(T \cap s)}
<1>3. {} \in Q
  BY <1>1, <1>2, FS_EmptySet DEF Sums
<1>4. ASSUME NEW s \in SUBSET D, s # {}, s \ {First(s)} \in Q PROVE s \in Q
  <2>1. PICK x \in s : x = First(s)
    BY <1>4, FirstIs
  <2>2. /\ fs[s] = f[x] + fs[s \ {x}] /\ gs[s] = g[x] + gs[s \ {x}]
        /\ fs[s \ {x}] \in Int /\ gs[s \ {x}] \in Int
        /\ fs[s \ {x}] <= gs[s \ {x}] + Cardinality(T \cap (s \ {x}))
    BY <1>1, <1>2, <1>4, <2>1 DEF Sums
  <2>3. f[x] \in Int /\ g[x] \in Int /\ f[x] <= g[x] + (IF x \in T THEN 1 ELSE 0)
    OBVIOUS
  <2>4. IsFiniteSet(T \cap s) /\ Cardinality(T \cap s) \in Nat
    BY FS_Subset, FS_CardinalityType
  <2>5. CASE x \in T
    <3>1. x \in T \cap s /\ T \cap (s \ {x}) = (T \cap s) \ {x}
      BY <2>5
    <3>2. PICK U : U = T \cap s
      OBVIOUS
    <3>3. Cardinality(U \ {x}) = Cardinality(U) - 1
      BY <2>4, <3>1, <3>2, FS_RemoveElement
    <3>4. Cardinality(T \cap (s \ {x})) = Cardinality(T \cap s) - 1
      BY <3>1, <3>2, <3>3
    <3>5. PICK m, n : m = Cardinality(T \cap (s \ {x})) /\ n = Cardinality(T \cap s)
      OBVIOUS
    <3>6. m = n - 1 /\ n \in Nat /\ fs[s \ {x}] <= gs[s \ {x}] + m /\ f[x] <= g[x] + 1
      BY <2>2, <2>3, <2>4, <2>5, <3>4, <3>5
    <3>7. fs[s] <= gs[s] + n
      BY <2>2, <2>3, <3>6
    <3>8. fs[s] \in Int /\ gs[s] \in Int
      BY <2>2, <2>3
    <3> QED
      BY <3>5, <3>7, <3>8
  <2>6. CASE x \notin T
    <3>1. T \cap (s \ {x}) = T \cap s
      BY <2>6
    <3>2. fs[s] <= gs[s] + Cardinality(T \cap s)
      BY <2>2, <2>3, <2>4, <2>6, <3>1
    <3>3. fs[s] \in Int /\ gs[s] \in Int
      BY <2>2, <2>3
    <3> QED
      BY <3>2, <3>3
  <2> QED
    BY <2>5, <2>6
<1>5. D \in Q
  <2> HIDE DEF Q
  <2> QED
    BY <1>3, <1>4, EachSubset
<1>6. T \cap D = T
  OBVIOUS
<1> QED
  BY <1>1, <1>2, <1>5, <1>6

\* No term is greater than those of two others.
LEMMA SumsAdd ==
  ASSUME NEW D, IsFiniteSet(D), NEW f \in [D -> Int], NEW g \in [D -> Int], NEW h \in [D -> Int],
         \A c \in D : f[c] <= g[c] + h[c]
  PROVE  SumFunction(f) <= SumFunction(g) + SumFunction(h)
<1>1. PICK fs : Sums(fs, f, D) /\ SumFunction(f) = fs[D]
  BY SumFunctionIs
<1>2. PICK gs : Sums(gs, g, D) /\ SumFunction(g) = gs[D]
  BY SumFunctionIs
<1>3. PICK hs : Sums(hs, h, D) /\ SumFunction(h) = hs[D]
  BY SumFunctionIs
<1> DEFINE Q == {s \in SUBSET D : /\ fs[s] \in Int /\ gs[s] \in Int /\ hs[s] \in Int
                                  /\ fs[s] <= gs[s] + hs[s]}
<1>4. {} \in Q
  BY <1>1, <1>2, <1>3 DEF Sums
<1>5. ASSUME NEW s \in SUBSET D, s # {}, s \ {First(s)} \in Q PROVE s \in Q
  <2>1. PICK x \in s : x = First(s)
    BY <1>5, FirstIs
  <2>2. /\ fs[s] = f[x] + fs[s \ {x}] /\ gs[s] = g[x] + gs[s \ {x}] /\ hs[s] = h[x] + hs[s \ {x}]
        /\ fs[s \ {x}] \in Int /\ gs[s \ {x}] \in Int /\ hs[s \ {x}] \in Int
        /\ fs[s \ {x}] <= gs[s \ {x}] + hs[s \ {x}]
    BY <1>1, <1>2, <1>3, <1>5, <2>1 DEF Sums
  <2>3. f[x] \in Int /\ g[x] \in Int /\ h[x] \in Int /\ f[x] <= g[x] + h[x]
    OBVIOUS
  <2> QED
    BY <2>2, <2>3
<1>6. D \in Q
  <2> HIDE DEF Q
  <2> QED
    BY <1>4, <1>5, EachSubset
<1> QED
  BY <1>1, <1>2, <1>3, <1>6

\* Only one term is another.
LEMMA SumChanges ==
  ASSUME NEW D, IsFiniteSet(D), NEW f \in [D -> Int], NEW g \in [D -> Int], NEW x \in D,
         \A c \in D \ {x} : f[c] = g[c]
  PROVE  SumFunction(g) = SumFunction(f) + (g[x] - f[x])
<1>1. PICK fs : Sums(fs, f, D) /\ SumFunction(f) = fs[D]
  BY SumFunctionIs
<1>2. PICK gs : Sums(gs, g, D) /\ SumFunction(g) = gs[D]
  BY SumFunctionIs
<1> DEFINE Q == {s \in SUBSET D : /\ fs[s] \in Int /\ gs[s] \in Int
                                  /\ gs[s] = fs[s] + (IF x \in s THEN g[x] - f[x] ELSE 0)}
<1>3. {} \in Q
  BY <1>1, <1>2 DEF Sums
<1>4. ASSUME NEW s \in SUBSET D, s # {}, s \ {First(s)} \in Q PROVE s \in Q
  <2>1. PICK y \in s : y = First(s)
    BY <1>4, FirstIs
  <2>2. /\ fs[s] = f[y] + fs[s \ {y}] /\ gs[s] = g[y] + gs[s \ {y}]
        /\ fs[s \ {y}] \in Int /\ gs[s \ {y}] \in Int
        /\ gs[s \ {y}] = fs[s \ {y}] + (IF x \in s \ {y} THEN g[x] - f[x] ELSE 0)
    BY <1>1, <1>2, <1>4, <2>1 DEF Sums
  <2>3. f[y] \in Int /\ g[y] \in Int /\ f[x] \in Int /\ g[x] \in Int
    OBVIOUS
  <2>4. CASE x = y
    BY <2>2, <2>3, <2>4
  <2>5. CASE x # y
    <3>1. f[y] = g[y]
      BY <2>5
    <3> QED
      BY <2>2, <2>3, <2>5, <3>1
  <2> QED
    BY <2>4, <2>5
<1>5. D \in Q
  <2> HIDE DEF Q
  <2> QED
    BY <1>3, <1>4, EachSubset
<1> QED
  BY <1>1, <1>2, <1>5

-----------------------------------------------------------------------------
(* WebBench: the accounts of the children and of the parent.               *)

LineOf(r) == [success |-> r.success, failed |-> r.failed]

Late(r) == IF r.expired THEN 1 ELSE 0

Returned(r) == r.answered + r.closed

\* A success without a read that returned is one whose read the alarm prevented, and a
\* read without a success one whose socket could not be closed.
Answers(r) ==
    /\ r.success <= Returned(r) + Late(r)
    /\ r.pc \in {"connect", "write", "shutdown", "check", "toread", "reading"} =>
          r.success <= Returned(r)
    /\ r.pc = "close" => r.success + 1 <= Returned(r) + Late(r)
    /\ r.pc = "close" => Returned(r) <= r.success + 1 + r.lost
    /\ r.pc # "close" => Returned(r) <= r.success + r.lost

\* The failure that is not the server's is the one of the call the alarm met.
Failures(r) ==
    /\ r.hit => r.expired /\ r.pc # "close"
    /\ r.pc \in {"report", "ended"} => r.lost - 1 <= r.failed /\ r.failed <= r.lost
    /\ r.pc \notin {"report", "ended", "gone"} =>
          /\ r.lost <= r.failed /\ r.failed <= r.lost + Late(r)
          /\ r.hit => r.failed = r.lost

Fair(r) == (~opt.force => Answers(r)) /\ Failures(r)

ChildrenAreFair == \A c \in Clients : Fair(child[c])

\* Who runs was forked.
Forking ==
    /\ \A c \in Clients :
          /\ child[c].pc = "none" => child[c] = NewChild
          /\ parent # "child" /\ child[c].pc # "none" => c <= forked
    /\ parent \in {"probe", "fork"} => forked <= clients_num \/ (clients_num < 0 /\ forked = 0)
    /\ parent = "probe" => forked = 0

Ended == {c \in Clients : child[c].pc = "ended"}

Sum(R, f) == SumFunction([c \in Clients |-> IF c \in R THEN f[c] ELSE 0])

\* The lines the parent has read are those of R, the lines in the pipe those of q.
Told(R, q) ==
    /\ R \subseteq Ended /\ \A i \in 1..Len(q) : q[i] \in Ended \ R
    /\ \A i, j \in 1..Len(q) : q[i] = q[j] => i = j
    /\ Len(pipe) = Len(q) /\ \A i \in 1..Len(q) : pipe[i] = LineOf(child[q[i]])
    /\ total.success = Sum(R, [c \in Clients |-> child[c].success])
    /\ total.failed = Sum(R, [c \in Clients |-> child[c].failed])

\* As many are to come as were forked and are not among them.
Accounts(R) ==
    /\ parent \in {"probe", "fork"} => R = {}
    /\ parent \in {"read", "done"} => clients_num = forked - Cardinality(R)
    /\ parent = "done" => clients_num = 0

Accounted == \E R \in SUBSET Clients : Accounts(R) /\ \E q \in Seq(Clients) : Told(R, q)

BenchInv == BenchTypeOK /\ ChildrenAreFair /\ Forking /\ Accounted

LEMMA ClientsAre ==
  /\ IsFiniteSet(Clients) /\ Cardinality(Clients) = MaxClients
  /\ Clients \subseteq Nat /\ 1 \in Clients
<1>1. 1 \in Int /\ MaxClients \in Int /\ 1 <= MaxClients
  BY BenchAssumption
<1> QED
  BY <1>1, FS_Interval DEF Clients

States ==
    {"none", "asleep", "loop", "connect", "reconnect", "write", "shutdown", "check",
     "toread", "reading", "close", "report", "ended", "gone"}

LEMMA GoesIs ==
  ASSUME NEW c, child[c] \in Child, NEW next \in States, NEW r, r = Goes(c, next)
  PROVE  /\ r \in Child /\ r.pc = next /\ ~r.hit /\ r.expired = child[c].expired
         /\ r.success = child[c].success /\ r.failed = child[c].failed
         /\ Returned(r) = Returned(child[c]) /\ r.lost = child[c].lost
  BY DEF Goes, Child, States, Returned

LEMMA FailedIs ==
  ASSUME NEW c, child[c] \in Child, NEW next \in States, NEW r, r = Failed(c, next)
  PROVE  /\ r \in Child /\ r.pc = next /\ ~r.hit /\ r.expired = child[c].expired
         /\ r.success = child[c].success /\ r.failed = child[c].failed + 1
         /\ Returned(r) = Returned(child[c])
         /\ r.lost = IF child[c].hit THEN child[c].lost ELSE child[c].lost + 1
<1>1. PICK k : k = child[c]
  OBVIOUS
<1>2. k \in Child /\ k.lost \in Nat /\ k.failed \in Nat
  BY <1>1 DEF Child
<1>3. PICK m, n \in Nat : m = k.failed + 1 /\ n = IF k.hit THEN k.lost ELSE k.lost + 1
  BY <1>2
<1>4. r = [k EXCEPT !.pc = next, !.hit = FALSE, !.open = FALSE, !.shut = FALSE,
                    !.failed = m, !.lost = n]
  BY <1>1, <1>2, <1>3 DEF Failed, Child
<1>5. r.pc = next /\ ~r.hit /\ r.expired = k.expired /\ r.success = k.success
      /\ r.failed = m /\ Returned(r) = Returned(k) /\ r.lost = n
  BY <1>2, <1>4 DEF Child, Returned
<1>6. r \in Child
  BY <1>2, <1>3, <1>4 DEF Child, States
<1> QED
  BY <1>1, <1>3, <1>5, <1>6

LEMMA ChildNumbers ==
  ASSUME NEW r \in Child
  PROVE  /\ r.success \in Nat /\ r.failed \in Nat /\ Returned(r) \in Nat /\ r.lost \in Nat
         /\ r.hit \in BOOLEAN /\ r.expired \in BOOLEAN /\ Late(r) = IF r.expired THEN 1 ELSE 0
  BY DEF Child, Late, Returned

\* A call that fails leaves a fair child.
LEMMA FailingIsFair ==
  ASSUME NEW c, child[c] \in Child, Fair(child[c]), NEW next \in {"loop", "reconnect"},
         child[c].pc \in {"connect", "write", "shutdown", "reading", "close"}
  PROVE  Failed(c, next) \in Child /\ Failed(c, next).pc = next /\ Fair(Failed(c, next))
<1>1. PICK r : r = Failed(c, next)
  OBVIOUS
<1>2. /\ r \in Child /\ r.pc = next /\ ~r.hit /\ r.expired = child[c].expired
      /\ r.success = child[c].success /\ r.failed = child[c].failed + 1
      /\ Returned(r) = Returned(child[c])
      /\ r.lost = IF child[c].hit THEN child[c].lost ELSE child[c].lost + 1
  BY <1>1, FailedIs DEF States
<1>3. Answers(child[c]) => Answers(r)
  BY <1>2, ChildNumbers DEF Fair, Failures, Answers
<1>4. Failures(r)
  BY <1>2, ChildNumbers DEF Fair, Failures
<1> QED
  BY <1>1, <1>2, <1>3, <1>4 DEF Fair

\* What a step of a child does.
Becomes(c, r) ==
    /\ r \in Child /\ Fair(r) /\ r.pc # "none"
    /\ child' = [child EXCEPT ![c] = r]
    /\ pipe' = pipe \/ (r.pc = "ended" /\ pipe' = Append(pipe, LineOf(r)))

LEMMA ChildChanges ==
  ASSUME BenchTypeOK, NEW c \in Clients, Fair(child[c]),
         ChildStep(c) \/ Read(c) \/ AlarmHandler(c)
  PROVE  ParentSame /\ child[c].pc \notin {"none", "ended"} /\ \E r : Becomes(c, r)
<1>1. child[c] \in Child /\ opt.keep \in BOOLEAN /\ opt.force \in BOOLEAN
  BY DEF BenchTypeOK
<1>2. ParentSame /\ child[c].pc \notin {"none", "ended"}
  BY DEF ChildStep, Start, Loop, Connect, Reconnect, Write, Shutdown, Check, BeginRead, Close,
         Report, Read, AlarmHandler, At
<1> SUFFICES \E x : Becomes(c, x)
  BY <1>2
<1>3. ASSUME NEW r, Become(c, r), Local, r \in Child, Fair(r), r.pc # "none"
      PROVE  \E x : Becomes(c, x)
  BY <1>3 DEF Becomes, Become, Local
<1>4. ASSUME NEW next \in {"loop", "reconnect"}, Become(c, Failed(c, next)), Local,
             child[c].pc \in {"connect", "write", "shutdown", "reading", "close"}
      PROVE  \E x : Becomes(c, x)
  BY <1>1, <1>3, <1>4, FailingIsFair
\* Without a success.
<1>5. ASSUME NEW next \in States \ {"none", "close", "ended"}, Become(c, Goes(c, next)), Local,
             child[c].pc \notin {"report", "gone", "close", "ended"}, next # "report",
             ~opt.force => next \in {"reconnect", "loop", "gone"} \/ child[c].success <= Returned(child[c])
      PROVE  \E x : Becomes(c, x)
  <2>1. PICK r : r = Goes(c, next)
    OBVIOUS
  <2>2. /\ r \in Child /\ r.pc = next /\ ~r.hit /\ r.expired = child[c].expired
        /\ r.success = child[c].success /\ r.failed = child[c].failed
        /\ Returned(r) = Returned(child[c]) /\ r.lost = child[c].lost
    BY <1>1, <1>5, <2>1, GoesIs
  <2>3. ~opt.force => Answers(r)
    BY <1>1, <1>5, <2>2, ChildNumbers DEF Fair, Answers
  <2>4. Failures(r)
    BY <1>1, <1>5, <2>2, ChildNumbers DEF Fair, Failures
  <2> QED
    BY <1>3, <1>5, <2>1, <2>2, <2>3, <2>4 DEF Fair
<1>6. CASE Start(c)
  <2>1. PICK next \in {"reconnect", "loop", "gone"} : Become(c, Goes(c, next))
    BY <1>1, <1>6 DEF Start
  <2>2. child[c].pc = "asleep" /\ Local
    BY <1>6 DEF Start, At
  <2> QED
    BY <1>5, <2>1, <2>2 DEF States
<1>7. CASE Loop(c)
  <2>1. child[c].pc = "loop" /\ Local
    BY <1>7 DEF Loop, At
  <2>2. CASE child[c].expired /\ Become(c, End(c))
    <3>1. PICK r : r = End(c)
      OBVIOUS
    <3>2. /\ r \in Child /\ r.pc = "report" /\ r.expired = child[c].expired /\ r.hit = child[c].hit
          /\ r.success = child[c].success /\ Returned(r) = Returned(child[c]) /\ r.lost = child[c].lost
          /\ r.failed = IF child[c].failed > 0 THEN child[c].failed - 1 ELSE child[c].failed
      <4>1. PICK k : k = child[c] /\ k \in Child /\ k.failed \in Nat
        BY <1>1 DEF Child
      <4>2. PICK n \in Nat : n = IF k.failed > 0 THEN k.failed - 1 ELSE k.failed
        BY <4>1
      <4>3. r = [k EXCEPT !.pc = "report", !.failed = n]
        BY <3>1, <4>1, <4>2 DEF End, Child
      <4> QED
        BY <4>1, <4>2, <4>3 DEF Child, Returned
    <3>3. ~opt.force => Answers(r)
      BY <1>1, <2>1, <3>2, ChildNumbers DEF Fair, Answers
    <3>4. Failures(r)
      BY <1>1, <2>1, <2>2, <3>2, ChildNumbers DEF Fair, Failures
    <3> QED
      BY <1>3, <2>1, <2>2, <3>1, <3>2, <3>3, <3>4 DEF Fair
  <2>3. CASE ~child[c].expired /\ \E next \in {"write", "connect"} :
                Become(c, [Goes(c, next) EXCEPT !.rounds = @ + 1])
    <3>0. PICK next \in {"write", "connect"} : Become(c, [Goes(c, next) EXCEPT !.rounds = @ + 1])
      BY <2>3
    <3>1. PICK g, r : g = Goes(c, next) /\ r = [g EXCEPT !.rounds = @ + 1] /\ Become(c, r)
      BY <3>0
    <3>2. /\ g \in Child /\ g.pc = next /\ ~g.hit /\ g.expired = child[c].expired
          /\ g.success = child[c].success /\ g.failed = child[c].failed
          /\ Returned(g) = Returned(child[c]) /\ g.lost = child[c].lost
      BY <1>1, <3>1, GoesIs DEF States
    <3>3. /\ r \in Child /\ r.pc = next /\ ~r.hit /\ r.expired = child[c].expired
          /\ r.success = child[c].success /\ r.failed = child[c].failed
          /\ Returned(r) = Returned(child[c]) /\ r.lost = child[c].lost
      BY <3>1, <3>2 DEF Child, Returned
    <3>4. ~opt.force => Answers(r)
      BY <1>1, <2>1, <2>3, <3>1, <3>3, ChildNumbers DEF Fair, Answers
    <3>5. Failures(r)
      BY <1>1, <2>1, <3>1, <3>3, ChildNumbers DEF Fair, Failures
    <3> QED
      BY <1>3, <2>1, <3>1, <3>3, <3>4, <3>5 DEF Fair
  <2> QED
    BY <1>1, <1>7, <2>2, <2>3 DEF Loop
<1>8. CASE Connect(c) \/ Reconnect(c)
  <2>1. child[c].pc \in {"connect", "reconnect"} /\ Local
    BY <1>8 DEF Connect, Reconnect, At
  <2>2. ASSUME NEW next \in {"write", "loop"}, Become(c, [Goes(c, next) EXCEPT !.open = TRUE]),
               next = "write" => child[c].pc = "connect"
        PROVE  \E x : Becomes(c, x)
    <3>1. PICK g, r : g = Goes(c, next) /\ r = [g EXCEPT !.open = TRUE] /\ Become(c, r)
      BY <2>2
    <3>2. /\ g \in Child /\ g.pc = next /\ ~g.hit /\ g.expired = child[c].expired
          /\ g.success = child[c].success /\ g.failed = child[c].failed
          /\ Returned(g) = Returned(child[c]) /\ g.lost = child[c].lost
      BY <1>1, <3>1, GoesIs DEF States
    <3>3. /\ r \in Child /\ r.pc = next /\ ~r.hit /\ r.expired = child[c].expired
          /\ r.success = child[c].success /\ r.failed = child[c].failed
          /\ Returned(r) = Returned(child[c]) /\ r.lost = child[c].lost
      BY <3>1, <3>2 DEF Child, Returned
    <3>4. ~opt.force => Answers(r)
      BY <1>1, <2>1, <2>2, <3>3, ChildNumbers DEF Fair, Answers
    <3>5. Failures(r)
      BY <1>1, <2>1, <2>2, <3>3, ChildNumbers DEF Fair, Failures
    <3> QED
      BY <1>3, <2>1, <2>2, <3>1, <3>3, <3>4, <3>5 DEF Fair
  <2>3. CASE Connect(c)
    BY <1>4, <2>1, <2>2, <2>3 DEF Connect, At
  <2>4. CASE Reconnect(c)
    <3>1. CASE Become(c, Goes(c, "reconnect"))
      BY <1>5, <2>1, <3>1 DEF States
    <3> QED
      BY <2>2, <2>4, <3>1 DEF Reconnect, At
  <2> QED
    BY <1>8, <2>3, <2>4
<1>9. CASE Write(c)
  <2>1. child[c].pc = "write" /\ Local
    BY <1>9 DEF Write, At
  <2>2. CASE Become(c, Goes(c, "gone"))
    BY <1>5, <2>1, <2>2 DEF States
  <2>3. CASE Become(c, Failed(c, IF opt.keep THEN "reconnect" ELSE "loop"))
    BY <1>1, <1>4, <2>1, <2>3
  <2>4. CASE Become(c, Goes(c, AfterWrite(c)))
    <3>1. PICK next \in {"shutdown", "close", "check"} :
             next = AfterWrite(c) /\ (next = "close" => opt.force)
      BY <1>1 DEF AfterWrite
    <3>2. PICK r : r = Goes(c, next) /\ Become(c, r)
      BY <2>4, <3>1
    <3>3. /\ r \in Child /\ r.pc = next /\ ~r.hit /\ r.expired = child[c].expired
          /\ r.success = child[c].success /\ r.failed = child[c].failed
          /\ Returned(r) = Returned(child[c]) /\ r.lost = child[c].lost
      BY <1>1, <3>1, <3>2, GoesIs DEF States
    <3>4. ~opt.force => Answers(r)
      BY <1>1, <2>1, <3>1, <3>3, ChildNumbers DEF Fair, Answers
    <3>5. Failures(r)
      BY <1>1, <2>1, <3>1, <3>3, ChildNumbers DEF Fair, Failures
    <3> QED
      BY <1>3, <2>1, <3>1, <3>2, <3>3, <3>4, <3>5 DEF Fair
  <2> QED
    BY <1>9, <2>2, <2>3, <2>4 DEF Write
<1>10. CASE Shutdown(c)
  <2>1. child[c].pc = "shutdown" /\ Local
    BY <1>10 DEF Shutdown, At
  <2>2. CASE Become(c, Failed(c, "loop"))
    BY <1>4, <2>1, <2>2
  <2>3. CASE Become(c, [Goes(c, IF opt.force THEN "close" ELSE "check") EXCEPT !.shut = TRUE])
    <3>1. PICK next \in {"close", "check"} :
             next = (IF opt.force THEN "close" ELSE "check") /\ (next = "close" => opt.force)
      BY <1>1
    <3>2. PICK g, r : g = Goes(c, next) /\ r = [g EXCEPT !.shut = TRUE] /\ Become(c, r)
      BY <2>3, <3>1
    <3>3. /\ g \in Child /\ g.pc = next /\ ~g.hit /\ g.expired = child[c].expired
          /\ g.success = child[c].success /\ g.failed = child[c].failed
          /\ Returned(g) = Returned(child[c]) /\ g.lost = child[c].lost
      BY <1>1, <3>1, <3>2, GoesIs DEF States
    <3>4. /\ r \in Child /\ r.pc = next /\ ~r.hit /\ r.expired = child[c].expired
          /\ r.success = child[c].success /\ r.failed = child[c].failed
          /\ Returned(r) = Returned(child[c]) /\ r.lost = child[c].lost
      BY <3>2, <3>3 DEF Child, Returned
    <3>5. ~opt.force => Answers(r)
      BY <1>1, <2>1, <3>1, <3>4, ChildNumbers DEF Fair, Answers
    <3>6. Failures(r)
      BY <1>1, <2>1, <3>1, <3>4, ChildNumbers DEF Fair, Failures
    <3> QED
      BY <1>3, <2>1, <3>1, <3>2, <3>4, <3>5, <3>6 DEF Fair
  <2> QED
    BY <1>10, <2>2, <2>3 DEF Shutdown
<1>11. CASE Check(c) \/ BeginRead(c)
  <2>1. child[c].pc \in {"check", "toread"} /\ Local
    BY <1>11 DEF Check, BeginRead, At
  <2>2. PICK next \in {"close", "toread", "reading"} :
           Become(c, Goes(c, next)) /\ (next = "close" => child[c].expired)
    BY <1>11 DEF Check, BeginRead
  <2>3. PICK r : r = Goes(c, next) /\ Become(c, r)
    BY <2>2
  <2>4. /\ r \in Child /\ r.pc = next /\ ~r.hit /\ r.expired = child[c].expired
        /\ r.success = child[c].success /\ r.failed = child[c].failed
        /\ Returned(r) = Returned(child[c]) /\ r.lost = child[c].lost
    BY <1>1, <2>2, <2>3, GoesIs DEF States
  <2>5. ~opt.force => Answers(r)
    BY <1>1, <2>1, <2>2, <2>4, ChildNumbers DEF Fair, Answers
  <2>6. Failures(r)
    BY <1>1, <2>1, <2>2, <2>4, ChildNumbers DEF Fair, Failures
  <2> QED
    BY <1>3, <2>1, <2>2, <2>3, <2>4, <2>5, <2>6 DEF Fair
<1>12. CASE Read(c)
  <2>1. child[c].pc = "reading" /\ Local
    BY <1>12 DEF Read, At
  <2>2. CASE Become(c, Failed(c, "loop"))
    BY <1>4, <2>1, <2>2
  <2>3. CASE \/ Become(c, [Goes(c, "close") EXCEPT !.answered = @ + 1])
             \/ Become(c, [Goes(c, "close") EXCEPT !.closed = @ + 1])
    <3>1. PICK g, r : /\ g = Goes(c, "close") /\ Become(c, r)
                      /\ \/ r = [g EXCEPT !.answered = @ + 1]
                         \/ r = [g EXCEPT !.closed = @ + 1]
      BY <2>3
    <3>2. /\ g \in Child /\ g.pc = "close" /\ ~g.hit /\ g.expired = child[c].expired
          /\ g.success = child[c].success /\ g.failed = child[c].failed
          /\ Returned(g) = Returned(child[c]) /\ g.lost = child[c].lost
      BY <1>1, <3>1, GoesIs DEF States
    <3>3. /\ r \in Child /\ r.pc = "close" /\ ~r.hit /\ r.expired = child[c].expired
          /\ r.success = child[c].success /\ r.failed = child[c].failed
          /\ Returned(r) = Returned(child[c]) + 1 /\ r.lost = child[c].lost
      BY <3>1, <3>2 DEF Child, Returned
    <3>4. ~opt.force => Answers(r)
      BY <1>1, <2>1, <3>3, ChildNumbers DEF Fair, Answers
    <3>5. Failures(r)
      BY <1>1, <2>1, <3>3, ChildNumbers DEF Fair, Failures
    <3> QED
      BY <1>3, <2>1, <3>1, <3>3, <3>4, <3>5 DEF Fair
  <2> QED
    BY <1>12, <2>2, <2>3 DEF Read
<1>13. CASE Close(c)
  <2>1. child[c].pc = "close" /\ Local
    BY <1>13 DEF Close, At
  <2>2. CASE Become(c, Failed(c, "loop"))
    BY <1>4, <2>1, <2>2
  <2>3. CASE Become(c, [Goes(c, "loop") EXCEPT !.success = @ + 1, !.open = opt.keep, !.shut = FALSE])
    <3>0. PICK k \in BOOLEAN : k = opt.keep
      BY <1>1
    <3>1. PICK g, r : /\ g = Goes(c, "loop") /\ Become(c, r)
                      /\ r = [g EXCEPT !.success = @ + 1, !.open = k, !.shut = FALSE]
      BY <2>3, <3>0
    <3>2. /\ g \in Child /\ g.pc = "loop" /\ ~g.hit /\ g.expired = child[c].expired
          /\ g.success = child[c].success /\ g.failed = child[c].failed
          /\ Returned(g) = Returned(child[c]) /\ g.lost = child[c].lost
      BY <1>1, <3>1, GoesIs DEF States
    <3>3. /\ r \in Child /\ r.pc = "loop" /\ ~r.hit /\ r.expired = child[c].expired
          /\ r.success = child[c].success + 1 /\ r.failed = child[c].failed
          /\ Returned(r) = Returned(child[c]) /\ r.lost = child[c].lost
      <4>1. PICK m \in Nat : m = g.success + 1
        BY <3>2 DEF Child, Returned
      <4>2. r = [g EXCEPT !.success = m, !.open = k, !.shut = FALSE]
        BY <3>1, <3>2, <4>1 DEF Child
      <4>3. r \in Child
        BY <3>0, <3>2, <4>1, <4>2 DEF Child
      <4>4. /\ r.pc = "loop" /\ ~r.hit /\ r.expired = g.expired /\ r.success = m
            /\ r.failed = g.failed /\ Returned(r) = Returned(g) /\ r.lost = g.lost
        BY <3>2, <4>2 DEF Child, Returned
      <4> QED
        BY <3>2, <4>1, <4>3, <4>4
    <3>4. ~opt.force => Answers(r)
      BY <1>1, <2>1, <3>3, ChildNumbers DEF Fair, Answers
    <3>5. Failures(r)
      BY <1>1, <2>1, <3>3, ChildNumbers DEF Fair, Failures
    <3> QED
      BY <1>3, <2>1, <3>1, <3>3, <3>4, <3>5 DEF Fair
  <2> QED
    BY <1>13, <2>2, <2>3 DEF Close
<1>14. CASE Report(c)
  <2>1. child[c].pc = "report"
    BY <1>14 DEF Report, At
  <2>0. PICK next \in {"ended", "gone"} : /\ Become(c, Goes(c, next))
           /\ pipe' = IF next = "ended" THEN ReportLine(c) ELSE pipe
    BY <1>14 DEF Report, Local
  <2>2. PICK r : /\ r = Goes(c, next) /\ Become(c, r)
           /\ pipe' = IF next = "ended" THEN ReportLine(c) ELSE pipe
    BY <2>0
  <2>3. /\ r \in Child /\ r.pc = next /\ ~r.hit /\ r.expired = child[c].expired
        /\ r.success = child[c].success /\ r.failed = child[c].failed
        /\ Returned(r) = Returned(child[c]) /\ r.lost = child[c].lost
    BY <1>1, <2>2, GoesIs DEF States
  <2>4. ~opt.force => Answers(r)
    BY <1>1, <2>1, <2>2, <2>3, ChildNumbers DEF Fair, Answers
  <2>5. Failures(r)
    BY <1>1, <2>1, <2>2, <2>3, ChildNumbers DEF Fair, Failures
  <2>6. pipe' = pipe \/ (r.pc = "ended" /\ pipe' = Append(pipe, LineOf(r)))
    BY <2>2, <2>3 DEF ReportLine, LineOf
  <2> QED
    BY <2>2, <2>3, <2>4, <2>5, <2>6 DEF Fair, Becomes, Become
<1>15. CASE AlarmHandler(c)
  <2>1. PICK h \in Meets(child[c].pc) : Become(c, [child[c] EXCEPT !.expired = TRUE, !.hit = h])
    BY <1>15 DEF AlarmHandler
  <2>0. h \in BOOLEAN /\ (child[c].pc = "close" => h = FALSE)
    BY <2>1 DEF Meets, Calls
  <2>2. PICK r : r = [child[c] EXCEPT !.expired = TRUE, !.hit = h] /\ Become(c, r)
    BY <2>1, Zenon
  <2>3. /\ child[c].pc \notin {"none", "asleep", "ended", "gone"} /\ ~child[c].expired /\ Local
    BY <1>15 DEF AlarmHandler
  <2>4. /\ r \in Child /\ r.pc = child[c].pc /\ r.hit = h /\ r.expired
        /\ r.success = child[c].success /\ r.failed = child[c].failed
        /\ Returned(r) = Returned(child[c]) /\ r.lost = child[c].lost
    BY <1>1, <2>0, <2>2 DEF Child, Returned
  <2>5. ~opt.force => Answers(r)
    BY <1>1, <2>3, <2>4, ChildNumbers DEF Fair, Answers
  <2>6. Failures(r)
    <3>1. r.hit => r.expired /\ r.pc # "close"
      BY <2>0, <2>4
    <3>2. child[c].failed = child[c].lost \/ child[c].pc = "report"
      BY <1>1, <2>3, ChildNumbers DEF Fair, Failures
    <3> QED
      BY <1>1, <2>3, <2>4, <3>1, <3>2, ChildNumbers DEF Fair, Failures
  <2> QED
    BY <1>3, <2>2, <2>3, <2>4, <2>5, <2>6 DEF Fair
<1> QED
  BY <1>2, <1>6, <1>7, <1>8, <1>9, <1>10, <1>11, <1>12, <1>13, <1>14, <1>15 DEF ChildStep

\* A sum over the children of R: it depends on them alone, and grows by what a
\* child that joins them adds.
LEMMA SumOverSome ==
  ASSUME NEW R \in SUBSET Clients, NEW f \in [Clients -> Nat]
  PROVE  /\ Sum(R, f) \in Int /\ Sum({}, f) = 0
         /\ \A x \in Clients \ R : Sum(R \cup {x}, f) = Sum(R, f) + f[x]
<1> DEFINE F(S) == [c \in Clients |-> IF c \in S THEN f[c] ELSE 0]
<1>1. \A S : F(S) \in [Clients -> Int]
  OBVIOUS
<1>2. SumFunction(F(R)) \in Int
  BY <1>1, ClientsAre, SumIsNumber
<1>3. \A c \in Clients : F({})[c] = 0
  OBVIOUS
<1>4. SumFunction(F({})) = 0
  <2> HIDE DEF F
  <2> QED
    BY <1>1, <1>3, ClientsAre, SumOfNothing
<1>5. ASSUME NEW x \in Clients \ R
      PROVE  SumFunction(F(R \cup {x})) = SumFunction(F(R)) + f[x]
  <2>1. PICK g, h : g = F(R) /\ h = F(R \cup {x})
    OBVIOUS
  <2>2. /\ g \in [Clients -> Int] /\ h \in [Clients -> Int]
        /\ \A c \in Clients \ {x} : g[c] = h[c]
        /\ g[x] = 0 /\ h[x] = f[x]
    BY <2>1
  <2>3. SumFunction(h) = SumFunction(g) + (h[x] - g[x])
    <3> HIDE DEF F
    <3>1. x \in Clients /\ IsFiniteSet(Clients)
      BY <1>5, ClientsAre
    <3> QED
      BY <2>2, <3>1, SumChanges
  <2>4. h[x] - g[x] = f[x]
    BY <2>2
  <2> QED
    BY <2>1, <2>3, <2>4
<1> QED
  BY <1>2, <1>4, <1>5 DEF Sum

LEMMA SumDependsOn ==
  ASSUME NEW R \in SUBSET Clients, NEW f, NEW g, \A c \in R : f[c] = g[c]
  PROVE  Sum(R, f) = Sum(R, g)
<1>1. [c \in Clients |-> IF c \in R THEN f[c] ELSE 0] = [c \in Clients |-> IF c \in R THEN g[c] ELSE 0]
  OBVIOUS
<1> QED
  BY <1>1 DEF Sum

\* A child that has not written its line changes: the accounts are what they
\* were, with its line at their end if it writes one now.
LEMMA ChangeIsTold ==
  ASSUME BenchTypeOK, NEW c \in Clients, child[c].pc # "ended", NEW r \in Child,
         child' = [child EXCEPT ![c] = r], total' = total,
         pipe' = pipe \/ (r.pc = "ended" /\ pipe' = Append(pipe, LineOf(r))),
         NEW R \in SUBSET Clients, NEW q \in Seq(Clients), Told(R, q)
  PROVE  \E p \in Seq(Clients) : Told(R, p)'
<1>1. child \in [Clients -> Child] /\ pipe \in Seq([success : Nat, failed : Nat])
  BY DEF BenchTypeOK
<1>2. /\ \A d \in Clients : child'[d] = IF d = c THEN r ELSE child[d]
      /\ c \notin R /\ \A i \in 1..Len(q) : q[i] # c /\ q[i] \in Clients
  BY <1>1 DEF Told, Ended
<1>3. R \subseteq Ended' /\ \A i \in 1..Len(q) : q[i] \in Ended' \ R
  BY <1>2 DEF Told, Ended
<1>4. \A i \in 1..Len(q) : pipe[i] = LineOf(child'[q[i]])
  BY <1>2 DEF Told
<1>5. total'.success = Sum(R, [d \in Clients |-> child'[d].success])
  <2>1. PICK f, g : f = [d \in Clients |-> child[d].success] /\ g = [d \in Clients |-> child'[d].success]
    OBVIOUS
  <2>2. \A d \in R : f[d] = g[d]
    BY <1>2, <2>1
  <2>3. total.success = Sum(R, f)
    BY <2>1 DEF Told
  <2>4. Sum(R, f) = Sum(R, g)
    BY <2>2, SumDependsOn
  <2> QED
    BY <2>1, <2>3, <2>4
<1>6. total'.failed = Sum(R, [d \in Clients |-> child'[d].failed])
  <2>1. PICK f, g : f = [d \in Clients |-> child[d].failed] /\ g = [d \in Clients |-> child'[d].failed]
    OBVIOUS
  <2>2. \A d \in R : f[d] = g[d]
    BY <1>2, <2>1
  <2>3. total.failed = Sum(R, f)
    BY <2>1 DEF Told
  <2>4. Sum(R, f) = Sum(R, g)
    BY <2>2, SumDependsOn
  <2> QED
    BY <2>1, <2>3, <2>4
<1>7. CASE pipe' = pipe
  <2>1. Told(R, q)'
    BY <1>3, <1>4, <1>5, <1>6, <1>7 DEF Told
  <2> QED
    BY <2>1
<1>8. CASE r.pc = "ended" /\ pipe' = Append(pipe, LineOf(r))
  <2>1. PICK p : p = Append(q, c)
    OBVIOUS
  <2>2. /\ p \in Seq(Clients) /\ Len(p) = Len(q) + 1 /\ Len(q) \in Nat
        /\ \A i \in 1..Len(q) : p[i] = q[i]
        /\ p[Len(q) + 1] = c
    BY <2>1, AppendProperties
  <2>3. LineOf(r) \in [success : Nat, failed : Nat]
    BY DEF LineOf, Child
  <2>4. /\ Len(pipe') = Len(pipe) + 1 /\ Len(pipe) = Len(q)
        /\ \A i \in 1..Len(pipe) : pipe'[i] = pipe[i]
        /\ pipe'[Len(pipe) + 1] = LineOf(r)
    BY <1>1, <1>8, <2>3, AppendProperties DEF Told
  <2>5. \A i \in 1..Len(p) : i \in 1..Len(q) \/ i = Len(q) + 1
    BY <2>2
  <2>6. c \in Ended' \ R /\ child'[c] = r
    BY <1>2, <1>8 DEF Ended
  <2>7. \A i \in 1..Len(p) : p[i] \in Ended' \ R
    BY <1>3, <2>2, <2>5, <2>6
  <2>8. \A i, j \in 1..Len(p) : p[i] = p[j] => i = j
    BY <1>2, <2>2, <2>5 DEF Told
  <2>9. \A i \in 1..Len(p) : pipe'[i] = LineOf(child'[p[i]])
    BY <1>4, <2>2, <2>4, <2>5, <2>6
  <2>10. Len(pipe') = Len(p)
    BY <2>2, <2>4
  <2>11. Told(R, p)'
    BY <1>3, <1>5, <1>6, <2>7, <2>8, <2>9, <2>10 DEF Told
  <2> QED
    BY <2>2, <2>11
<1> QED
  BY <1>7, <1>8

LEMMA NewChildIs ==
  /\ NewChild \in Child /\ Fair(NewChild) /\ NewChild.pc = "none"
  /\ NewChild.lost = 0 /\ NewChild.failed = 0 /\ NewChild.success = 0 /\ Returned(NewChild) = 0
<1>1. PICK r : r = NewChild
  OBVIOUS
<1>2. /\ r.pc = "none" /\ ~r.hit /\ ~r.expired /\ r.success = 0 /\ r.failed = 0
      /\ Returned(r) = 0 /\ r.lost = 0 /\ r \in Child
  BY <1>1 DEF NewChild, Child, Returned
<1>3. Fair(r)
  BY <1>2 DEF Fair, Answers, Failures, Late
<1> QED
  BY <1>1, <1>2, <1>3

LEMMA BenchStarts == BenchInit => BenchInv
<1> SUFFICES ASSUME BenchInit PROVE BenchInv
  OBVIOUS
<1>1. PICK line \in Lines : opt = BuildRequest(ParseArg(line)) /\ clients_num = Count(line)
  BY DEF BenchInit
<1>2. /\ parent = "probe" /\ forked = 0 /\ total = [success |-> 0, failed |-> 0] /\ pipe = <<>>
      /\ child = [c \in Clients |-> NewChild]
  BY DEF BenchInit
<1>3. \A c \in Clients : child[c] = NewChild
  BY <1>2
<1>4. clients_num \in Int /\ clients_num <= MaxClients
  BY <1>1, BenchAssumption DEF Count
<1>5. opt.force \in BOOLEAN /\ opt.keep \in BOOLEAN
  <2>1. PICK o : o = ParseArg(line)
    OBVIOUS
  <2>2. opt = [o EXCEPT !.version = Version(o)]
    BY <1>1, <2>1 DEF BuildRequest
  <2>3. opt.force = o.force /\ opt.keep = o.keep
    BY <2>1, <2>2 DEF ParseArg
  <2>4. o.force \in BOOLEAN /\ o.keep \in BOOLEAN
    <3>1. PICK f, k : f = Has(line, "f") /\ k = Has(line, "k")
      OBVIOUS
    <3>2. f \in BOOLEAN /\ k \in BOOLEAN
      BY <3>1 DEF Has
    <3>3. o.force = f /\ o.keep = k
      BY <2>1, <3>1 DEF ParseArg
    <3> QED
      BY <3>2, <3>3
  <2> QED
    BY <2>3, <2>4
<1>6. BenchTypeOK
  <2>1. forked \in 0..MaxClients
    BY <1>2, BenchAssumption
  <2>2. child \in [Clients -> Child]
    BY <1>2, NewChildIs
  <2>3. total \in [success : Nat, failed : Nat] /\ pipe \in Seq([success : Nat, failed : Nat])
    BY <1>2
  <2> QED
    BY <1>2, <1>4, <1>5, <2>1, <2>2, <2>3 DEF BenchTypeOK
<1>7. ChildrenAreFair
  BY <1>3, NewChildIs DEF ChildrenAreFair
<1>8. Forking
  BY <1>2, <1>3, <1>4, NewChildIs DEF Forking
<1>9. Accounted
  <2>1. [c \in Clients |-> child[c].success] \in [Clients -> Nat]
    BY <1>6 DEF BenchTypeOK, Child
  <2>2. [c \in Clients |-> child[c].failed] \in [Clients -> Nat]
    BY <1>6 DEF BenchTypeOK, Child
  <2>3. total.success = Sum({}, [c \in Clients |-> child[c].success])
    BY <1>2, <2>1, SumOverSome
  <2>4. total.failed = Sum({}, [c \in Clients |-> child[c].failed])
    BY <1>2, <2>2, SumOverSome
  <2>5. Told({}, <<>>)
    BY <1>2, <2>3, <2>4 DEF Told
  <2>6. Accounts({})
    BY <1>2 DEF Accounts
  <2>7. <<>> \in Seq(Clients)
    OBVIOUS
  <2> QED
    BY <2>5, <2>6, <2>7 DEF Accounted
<1> QED
  BY <1>6, <1>7, <1>8, <1>9 DEF BenchInv

\* The parent's side of the accounts is left alone, and one child is another.
LEMMA ChildStepKeepsInv ==
  ASSUME BenchInv, NEW c \in Clients, ChildStep(c) \/ Read(c) \/ AlarmHandler(c)
  PROVE  BenchInv'
<1>1. BenchTypeOK /\ ChildrenAreFair /\ Forking /\ Accounted
  BY DEF BenchInv
<1>2. ParentSame /\ child[c].pc \notin {"none", "ended"} /\ \E r : Becomes(c, r)
  BY <1>1, ChildChanges DEF ChildrenAreFair
<1>3. PICK r : Becomes(c, r)
  BY <1>2
<1>4. /\ r \in Child /\ Fair(r) /\ r.pc # "none" /\ child' = [child EXCEPT ![c] = r]
      /\ pipe' = pipe \/ (r.pc = "ended" /\ pipe' = Append(pipe, LineOf(r)))
  BY <1>3 DEF Becomes
<1>5. /\ opt' = opt /\ parent' = parent /\ forked' = forked /\ clients_num' = clients_num
      /\ total' = total
  BY <1>2 DEF ParentSame
<1>6. child' \in [Clients -> Child] /\ \A d \in Clients : child'[d] = IF d = c THEN r ELSE child[d]
  BY <1>1, <1>4 DEF BenchTypeOK
<1>7. BenchTypeOK'
  <2>1. PICK l \in [success : Nat, failed : Nat] : l = LineOf(r)
    BY <1>4 DEF LineOf, Child
  <2>2. pipe' \in Seq([success : Nat, failed : Nat])
    <3>1. pipe \in Seq([success : Nat, failed : Nat])
      BY <1>1 DEF BenchTypeOK
    <3>2. Append(pipe, l) \in Seq([success : Nat, failed : Nat])
      BY <3>1, AppendProperties
    <3> QED
      BY <1>4, <2>1, <3>1, <3>2
  <2> QED
    BY <1>1, <1>5, <1>6, <2>2 DEF BenchTypeOK
<1>8. ChildrenAreFair'
  BY <1>1, <1>4, <1>5, <1>6 DEF ChildrenAreFair, Fair
<1>9. Forking'
  BY <1>1, <1>2, <1>4, <1>5, <1>6 DEF Forking
<1>10. Accounted'
  <2>1. PICK R \in SUBSET Clients : Accounts(R) /\ \E q \in Seq(Clients) : Told(R, q)
    BY <1>1 DEF Accounted
  <2>2. \E q \in Seq(Clients) : Told(R, q)'
    BY <1>1, <1>2, <1>4, <1>5, <2>1, ChangeIsTold
  <2>3. Accounts(R)'
    BY <1>5, <2>1 DEF Accounts
  <2> QED
    BY <2>2, <2>3 DEF Accounted
<1> QED
  BY <1>7, <1>8, <1>9, <1>10 DEF BenchInv

LEMMA ForkKeepsInv == ASSUME BenchInv, Fork PROVE BenchInv'
<1>1. BenchTypeOK /\ ChildrenAreFair /\ Forking /\ Accounted
  BY DEF BenchInv
<1>2. /\ parent = "fork" /\ opt' = opt /\ clients_num' = clients_num /\ total' = total
      /\ pipe' = pipe
  BY DEF Fork
<1>3. PICK R \in SUBSET Clients : Accounts(R) /\ \E q \in Seq(Clients) : Told(R, q)
  BY <1>1 DEF Accounted
<1>4. R = {}
  BY <1>2, <1>3 DEF Accounts
<1>0. PICK r : r = [NewChild EXCEPT !.pc = "asleep"]
  OBVIOUS
<1>5. ASSUME NEW x \in Clients, child' = [child EXCEPT ![x] = r],
             child[x].pc = "none", forked' \in 0..MaxClients,
             parent' \in {"fork", "child"}
      PROVE  /\ BenchTypeOK' /\ ChildrenAreFair' /\ Accounted'
             /\ \A d \in Clients : d # x => child'[d] = child[d]
             /\ child'[x].pc = "asleep"
  <2>2. /\ r.pc = "asleep" /\ ~r.hit /\ ~r.expired /\ r.success = 0 /\ r.failed = 0
        /\ Returned(r) = 0 /\ r.lost = 0 /\ r \in Child
    <3>1. PICK k : k = NewChild
      OBVIOUS
    <3>2. k \in Child /\ k.pc = "none" /\ ~k.hit /\ ~k.expired /\ k.lost = 0 /\ k.failed = 0
          /\ k.success = 0 /\ Returned(k) = 0
      BY <3>1, NewChildIs DEF NewChild
    <3>3. r = [k EXCEPT !.pc = "asleep"]
      BY <1>0, <3>1
    <3>4. r \in Child /\ Returned(r) = Returned(k)
      BY <3>2, <3>3 DEF Child, Returned
    <3>5. /\ r.pc = "asleep" /\ ~r.hit /\ ~r.expired /\ r.success = 0 /\ r.failed = 0
          /\ r.lost = 0
      BY <3>2, <3>3 DEF Child
    <3> QED
      BY <3>2, <3>4, <3>5
  <2>3. Fair(r)
    BY <2>2 DEF Fair, Answers, Failures, Late
  <2>4. child[x].pc # "ended"
    BY <1>5
  <2>6. child' \in [Clients -> Child] /\ \A d \in Clients : child'[d] = IF d = x THEN r ELSE child[d]
    BY <1>1, <1>5, <2>2 DEF BenchTypeOK
  <2>7. BenchTypeOK'
    BY <1>1, <1>2, <1>5, <2>6 DEF BenchTypeOK
  <2>8. ChildrenAreFair'
    BY <1>1, <1>2, <2>3, <2>6 DEF ChildrenAreFair, Fair
  <2>9. \E q \in Seq(Clients) : Told(R, q)'
    BY <1>1, <1>2, <1>3, <1>5, <2>2, <2>4, ChangeIsTold
  <2>10. Accounts(R)'
    BY <1>4, <1>5 DEF Accounts
  <2>11. Accounted'
    BY <2>9, <2>10 DEF Accounted
  <2> QED
    BY <1>5, <2>2, <2>6, <2>7, <2>8, <2>11
<1>6. CASE /\ forked < clients_num /\ forked' = forked + 1 /\ parent' = parent
           /\ child' = [child EXCEPT ![forked + 1].pc = "asleep"]
  <2>1. forked \in Nat /\ clients_num \in Int /\ MaxClients \in Nat /\ clients_num <= MaxClients
    BY <1>1, BenchAssumption DEF BenchTypeOK
  <2>2. PICK x \in Clients : x = forked + 1
    BY <1>6, <2>1 DEF Clients
  <2>3. forked' \in 0..MaxClients
    BY <1>6, <2>1
  <2>4. child[x].pc = "none"
    BY <1>1, <1>2, <2>1, <2>2 DEF Forking
  <2>5. /\ BenchTypeOK' /\ ChildrenAreFair' /\ Accounted'
        /\ \A d \in Clients : d # x => child'[d] = child[d]
        /\ child'[x].pc = "asleep"
    <3>0. child[x] = NewChild
      BY <1>1, <2>4 DEF Forking
    <3>1. child' = [child EXCEPT ![x] = r] /\ parent' \in {"fork", "child"}
      BY <1>0, <1>2, <1>6, <2>2, <3>0
    <3> QED
      BY <1>5, <2>3, <2>4, <3>1
  <2>6. \A d \in Clients : /\ child'[d].pc = "none" => child'[d] = NewChild
                           /\ child'[d].pc # "none" => d <= forked'
    BY <1>1, <1>2, <1>6, <2>1, <2>2, <2>5, ClientsAre DEF Forking
  <2>7. forked' <= clients_num'
    BY <1>2, <1>6, <2>1
  <2>8. Forking'
    BY <1>2, <1>6, <2>6, <2>7 DEF Forking
  <2> QED
    BY <2>5, <2>8 DEF BenchInv
<1>7. CASE UNCHANGED <<forked, child>> /\ parent' \in {"read", "failed"}
           /\ (parent' = "read" => forked = clients_num)
  <2>1. BenchTypeOK'
    BY <1>1, <1>2, <1>7 DEF BenchTypeOK
  <2>2. ChildrenAreFair'
    BY <1>1, <1>2, <1>7 DEF ChildrenAreFair, Fair
  <2>3. Forking'
    BY <1>1, <1>2, <1>7 DEF Forking
  <2>4. PICK q \in Seq(Clients) : Told(R, q)
    BY <1>3
  <2>5. Told(R, q)'
    BY <1>2, <1>7, <2>4 DEF Told, Ended
  <2>6. Cardinality(R) = 0 /\ forked - 0 = forked
    BY <1>1, <1>4, FS_EmptySet DEF BenchTypeOK
  <2>7. Accounts(R)'
    BY <1>2, <1>4, <1>7, <2>6 DEF Accounts
  <2>8. Accounted'
    BY <2>5, <2>7 DEF Accounted
  <2> QED
    BY <2>1, <2>2, <2>3, <2>8 DEF BenchInv
<1>8. CASE /\ clients_num < 0 /\ parent' = "child" /\ forked' = forked
           /\ child' = [child EXCEPT ![1].pc = "asleep"]
  <2>1. forked \in Nat /\ clients_num \in Int /\ forked \in 0..MaxClients
    BY <1>1, BenchAssumption DEF BenchTypeOK
  <2>2. PICK x \in Clients : x = 1
    BY ClientsAre
  <2>3. forked = 0
    BY <1>1, <1>2, <1>8, <2>1 DEF Forking
  <2>4. child[x].pc = "none"
    BY <1>1, <1>2, <2>2, <2>3 DEF Forking
  <2>5. /\ BenchTypeOK' /\ ChildrenAreFair' /\ Accounted'
        /\ \A d \in Clients : d # x => child'[d] = child[d]
        /\ child'[x].pc = "asleep"
    <3>0. child[x] = NewChild
      BY <1>1, <2>4 DEF Forking
    <3>1. child' = [child EXCEPT ![x] = r] /\ parent' \in {"fork", "child"}
          /\ forked' \in 0..MaxClients
      BY <1>0, <1>8, <2>1, <2>2, <3>0
    <3> QED
      BY <1>5, <2>4, <3>1
  <2>6. Forking'
    BY <1>1, <1>8, <2>5 DEF Forking
  <2> QED
    BY <2>5, <2>6 DEF BenchInv
<1> QED
  BY <1>6, <1>7, <1>8 DEF Fork

\* The child whose line is the first in the pipe is among those whose lines were read.
LEMMA ReadLineKeepsInv == ASSUME BenchInv, ReadLine PROVE BenchInv'
<1>1. BenchTypeOK /\ ChildrenAreFair /\ Forking /\ Accounted
  BY DEF BenchInv
<1>2. /\ parent = "read" /\ pipe # <<>> /\ pipe' = Tail(pipe) /\ clients_num' = clients_num - 1
      /\ total' = [success |-> total.success + Head(pipe).success,
                   failed  |-> total.failed + Head(pipe).failed]
      /\ parent' = (IF clients_num' = 0 THEN "done" ELSE "read")
      /\ opt' = opt /\ forked' = forked /\ child' = child
  BY DEF ReadLine
<1>3. PICK R \in SUBSET Clients : Accounts(R) /\ \E q \in Seq(Clients) : Told(R, q)
  BY <1>1 DEF Accounted
<1>4. PICK q \in Seq(Clients) : Told(R, q)
  BY <1>3
<1>5. /\ pipe \in Seq([success : Nat, failed : Nat]) /\ total \in [success : Nat, failed : Nat]
      /\ child \in [Clients -> Child] /\ clients_num \in Int /\ clients_num <= MaxClients
      /\ forked \in Nat /\ MaxClients \in Nat
  BY <1>1, BenchAssumption DEF BenchTypeOK
<1>6. /\ Len(q) = Len(pipe) /\ Len(q) \in Nat /\ Len(q) >= 1 /\ q # <<>>
      /\ Head(pipe) = pipe[1] /\ Head(pipe) \in [success : Nat, failed : Nat]
      /\ pipe' \in Seq([success : Nat, failed : Nat]) /\ Len(pipe') = Len(pipe) - 1
      /\ \A i \in 1..Len(pipe') : pipe'[i] = pipe[i + 1]
  <2>1. Len(q) = Len(pipe) /\ Len(pipe) \in Nat
    BY <1>4, <1>5 DEF Told
  <2>2. Head(pipe) = pipe[1] /\ Len(pipe) >= 1
    BY <1>2, <1>5, <2>1
  <2>3. Head(pipe) \in [success : Nat, failed : Nat]
    BY <1>2, <1>5, HeadTailProperties
  <2>4. /\ pipe' \in Seq([success : Nat, failed : Nat]) /\ Len(pipe') = Len(pipe) - 1
        /\ \A i \in 1..Len(pipe') : pipe'[i] = pipe[i + 1]
    BY <1>2, <1>5, HeadTailProperties
  <2>5. q # <<>>
    BY <2>1, <2>2
  <2> QED
    BY <2>1, <2>2, <2>3, <2>4, <2>5
<1>7. PICK x \in Clients \ R : x = q[1] /\ x \in Ended /\ pipe[1] = LineOf(child[x])
  BY <1>4, <1>6 DEF Told, Ended
<1>8. PICK p : p = Tail(q)
  OBVIOUS
<1>9. /\ p \in Seq(Clients) /\ Len(p) = Len(q) - 1 /\ \A i \in 1..Len(p) : p[i] = q[i + 1]
      /\ \A i \in 1..Len(p) : i + 1 \in 1..Len(q) /\ i + 1 # 1 /\ i \in Int
      /\ 1 \in 1..Len(q)
  BY <1>6, <1>8, HeadTailProperties
<1>10. PICK S \in SUBSET Clients : S = R \cup {x}
  OBVIOUS
<1>11. Cardinality(S) = Cardinality(R) + 1 /\ Cardinality(R) \in Nat
  BY <1>7, <1>10, ClientsAre, FS_Subset, FS_AddElement, FS_CardinalityType
<1>12. total'.success = Sum(S, [d \in Clients |-> child[d].success])
  <2>1. PICK f \in [Clients -> Nat] : f = [d \in Clients |-> child[d].success]
    BY <1>5 DEF Child
  <2>2. Sum(S, f) = Sum(R, f) + f[x]
    BY <1>7, <1>10, SumOverSome
  <2>3. total.success = Sum(R, f)
    BY <1>4, <2>1 DEF Told
  <2>4. Head(pipe).success = f[x]
    BY <1>6, <1>7, <2>1 DEF LineOf
  <2> QED
    BY <1>2, <2>1, <2>2, <2>3, <2>4
<1>13. total'.failed = Sum(S, [d \in Clients |-> child[d].failed])
  <2>1. PICK f \in [Clients -> Nat] : f = [d \in Clients |-> child[d].failed]
    BY <1>5 DEF Child
  <2>2. Sum(S, f) = Sum(R, f) + f[x]
    BY <1>7, <1>10, SumOverSome
  <2>3. total.failed = Sum(R, f)
    BY <1>4, <2>1 DEF Told
  <2>4. Head(pipe).failed = f[x]
    BY <1>6, <1>7, <2>1 DEF LineOf
  <2> QED
    BY <1>2, <2>1, <2>2, <2>3, <2>4
<1>14. S \subseteq Ended /\ \A i \in 1..Len(p) : p[i] \in Ended \ S
  <2>1. \A i \in 1..Len(p) : p[i] \in Ended \ R /\ p[i] # x
    BY <1>4, <1>7, <1>9 DEF Told
  <2>2. R \subseteq Ended
    BY <1>4 DEF Told
  <2> QED
    BY <1>7, <1>10, <2>1, <2>2
<1>15. \A i, j \in 1..Len(p) : p[i] = p[j] => i = j
  <2>1. TAKE i, j \in 1..Len(p)
  <2>2. p[i] = p[j] => i + 1 = j + 1
    BY <1>4, <1>9 DEF Told
  <2> QED
    BY <1>9, <2>2
<1>16. Len(pipe') = Len(p) /\ \A i \in 1..Len(p) : pipe'[i] = LineOf(child[p[i]])
  <2>1. Len(pipe') = Len(p)
    BY <1>6, <1>9
  <2>2. ASSUME NEW i \in 1..Len(p) PROVE pipe'[i] = LineOf(child[p[i]])
    <3>1. i + 1 \in 1..Len(q) /\ p[i] = q[i + 1]
      BY <1>9
    <3>2. pipe[i + 1] = LineOf(child[q[i + 1]])
      BY <1>4, <3>1 DEF Told
    <3>3. pipe'[i] = pipe[i + 1]
      BY <1>6, <2>1
    <3> QED
      BY <3>1, <3>2, <3>3
  <2> QED
    BY <2>1, <2>2
<1>17. Told(S, p)'
  BY <1>2, <1>12, <1>13, <1>14, <1>15, <1>16 DEF Told, Ended
<1>18. Accounts(S)'
  <2>1. clients_num = forked - Cardinality(R)
    BY <1>2, <1>3 DEF Accounts
  <2>2. clients_num' = forked' - Cardinality(S)
    BY <1>2, <1>5, <1>11, <2>1
  <2> QED
    BY <1>2, <2>2 DEF Accounts
<1>19. Accounted'
  BY <1>9, <1>17, <1>18 DEF Accounted
<1>20. BenchTypeOK'
  <2>1. total' \in [success : Nat, failed : Nat]
    BY <1>2, <1>5, <1>6
  <2>2. clients_num' \in Int /\ clients_num' <= MaxClients
    BY <1>2, <1>5
  <2>3. parent' \in {"read", "done"}
    BY <1>2
  <2> QED
    BY <1>1, <1>2, <1>6, <2>1, <2>2, <2>3 DEF BenchTypeOK
<1>21. ChildrenAreFair'
  BY <1>1, <1>2 DEF ChildrenAreFair, Fair
<1>22. Forking'
  BY <1>1, <1>2 DEF Forking
<1> QED
  BY <1>19, <1>20, <1>21, <1>22 DEF BenchInv

LEMMA BenchKeepsInv == BenchInv /\ [BenchNext]_benchVars => BenchInv'
<1> SUFFICES ASSUME BenchInv, [BenchNext]_benchVars PROVE BenchInv'
  OBVIOUS
<1>1. CASE Probe
  <2>1. /\ parent = "probe" /\ parent' \in {"fork", "failed"} /\ opt' = opt /\ forked' = forked
        /\ clients_num' = clients_num /\ total' = total /\ pipe' = pipe /\ child' = child
    BY <1>1 DEF Probe
  <2>2. BenchTypeOK'
    BY <2>1 DEF BenchInv, BenchTypeOK
  <2>3. ChildrenAreFair'
    BY <2>1 DEF BenchInv, ChildrenAreFair, Fair
  <2>4. Forking'
    BY <2>1 DEF BenchInv, Forking
  <2>5. PICK R \in SUBSET Clients : Accounts(R) /\ \E q \in Seq(Clients) : Told(R, q)
    BY DEF BenchInv, Accounted
  <2>6. \E q \in Seq(Clients) : Told(R, q)'
    BY <2>1, <2>5 DEF Told, Ended
  <2>7. Accounts(R)'
    BY <2>1, <2>5 DEF Accounts
  <2>8. Accounted'
    BY <2>6, <2>7 DEF Accounted
  <2> QED
    BY <2>2, <2>3, <2>4, <2>8 DEF BenchInv
<1>2. CASE Fork
  BY <1>2, ForkKeepsInv
<1>3. CASE ReadLine
  BY <1>3, ReadLineKeepsInv
<1>4. ASSUME NEW c \in Clients, ChildStep(c) \/ Read(c) \/ AlarmHandler(c) PROVE BenchInv'
  BY <1>4, ChildStepKeepsInv
<1>5. CASE UNCHANGED benchVars
  <2>1. /\ parent' = parent /\ opt' = opt /\ forked' = forked /\ child' = child
        /\ clients_num' = clients_num /\ total' = total /\ pipe' = pipe
    BY <1>5 DEF benchVars
  <2>2. BenchTypeOK' /\ ChildrenAreFair' /\ Forking'
    BY <2>1 DEF BenchInv, BenchTypeOK, ChildrenAreFair, Fair, Forking
  <2>3. Accounted'
    BY <2>1 DEF BenchInv, Accounted, Accounts, Told, Ended
  <2> QED
    BY <2>2, <2>3 DEF BenchInv
<1> QED
  BY <1>1, <1>2, <1>3, <1>4, <1>5 DEF BenchNext

\* Every child is fair in its two counts, and what the parent has added up is what
\* the children it has read counted (Worker, WebBench).
THEOREM BenchIsInvariant == BenchSpec => []BenchInv
  BY BenchStarts, BenchKeepsInv, PTL DEF BenchSpec

\* The totals, once every child that was forked has been read.
LEMMA AccountsAreReal == BenchInv => TotalsAreReal
<1> SUFFICES ASSUME BenchInv, parent = "done" PROVE
        LET lost == SumFunction([c \in Clients |-> child[c].lost])
            returned == SumFunction([c \in Clients |-> child[c].answered + child[c].closed])
        IN  /\ ~opt.force => /\ total.success <= returned + forked
                             /\ returned <= total.success + lost
            /\ lost - forked <= total.failed /\ total.failed <= lost
  BY DEF TotalsAreReal
<1>1. BenchTypeOK /\ ChildrenAreFair /\ Forking /\ Accounted
  BY DEF BenchInv
<1>2. PICK R \in SUBSET Clients : Accounts(R) /\ \E q \in Seq(Clients) : Told(R, q)
  BY <1>1 DEF Accounted
<1>3. /\ R \subseteq Ended
      /\ total.success = Sum(R, [c \in Clients |-> child[c].success])
      /\ total.failed = Sum(R, [c \in Clients |-> child[c].failed])
  BY <1>2 DEF Told
<1>4. forked \in 0..MaxClients /\ MaxClients \in Nat /\ forked \in Nat
  BY <1>1, BenchAssumption DEF BenchTypeOK
<1>5. Cardinality(R) \in Nat /\ Cardinality(R) = forked
  <2>1. Cardinality(R) \in Nat
    BY ClientsAre, FS_Subset, FS_CardinalityType
  <2>2. 0 = forked - Cardinality(R)
    BY <1>2 DEF Accounts
  <2> QED
    BY <1>4, <2>1, <2>2
<1>6. R = 1..forked
  <2>1. R \in SUBSET (1..forked)
    BY <1>1, <1>3, <1>4, ClientsAre DEF Ended, Forking, Clients
  <2>2. IsFiniteSet(1..forked) /\ Cardinality(1..forked) = forked
    BY <1>4, FS_Interval
  <2> QED
    BY <1>5, <2>1, <2>2, FS_Subset
<1>7. \A c \in Clients \ R : child[c] = NewChild
  BY <1>1, <1>4, <1>6 DEF Forking, Clients
<1>8. \A c \in Clients : child[c] \in Child /\ Fair(child[c])
  BY <1>1 DEF BenchTypeOK, ChildrenAreFair
<1>9. \A c \in Clients : /\ child[c].success \in Nat /\ child[c].failed \in Nat
                         /\ Returned(child[c]) \in Nat /\ child[c].lost \in Nat
  BY <1>8, ChildNumbers
<1>10. PICK success, failed, returned, lost :
         /\ success = [c \in Clients |-> IF c \in R THEN child[c].success ELSE 0]
         /\ failed = [c \in Clients |-> IF c \in R THEN child[c].failed ELSE 0]
         /\ returned = [c \in Clients |-> child[c].answered + child[c].closed]
         /\ lost = [c \in Clients |-> child[c].lost]
  OBVIOUS
<1>x. \A c \in Clients : returned[c] = Returned(child[c])
  BY <1>10 DEF Returned
<1>11. /\ success \in [Clients -> Int] /\ failed \in [Clients -> Int]
       /\ returned \in [Clients -> Int] /\ lost \in [Clients -> Int]
  BY <1>9, <1>10, <1>x
<1>12. total.success = SumFunction(success) /\ total.failed = SumFunction(failed)
  <2>1. success = [c \in Clients |-> IF c \in R THEN [d \in Clients |-> child[d].success][c] ELSE 0]
    BY <1>10
  <2>2. failed = [c \in Clients |-> IF c \in R THEN [d \in Clients |-> child[d].failed][c] ELSE 0]
    BY <1>10
  <2> QED
    BY <1>3, <2>1, <2>2 DEF Sum
<1>13. ASSUME ~opt.force PROVE SumFunction(success) <= SumFunction(returned) + Cardinality(R)
  <2>1. ASSUME NEW c \in Clients PROVE success[c] <= returned[c] + (IF c \in R THEN 1 ELSE 0)
    <3>1. child[c].success <= Returned(child[c]) + Late(child[c]) /\ Late(child[c]) <= 1
      BY <1>8, <1>13, ChildNumbers DEF Fair, Answers, Late
    <3> QED
      BY <1>8, <1>9, <1>10, <1>x, <3>1, ChildNumbers
  <2> QED
    BY <1>11, <2>1, ClientsAre, SumsDifferByOnes
<1>14. SumFunction(lost) <= SumFunction(failed) + Cardinality(R)
  <2>1. ASSUME NEW c \in Clients PROVE lost[c] <= failed[c] + (IF c \in R THEN 1 ELSE 0)
    <3>1. CASE c \in R
      <4>1. child[c].lost - 1 <= child[c].failed
        BY <1>3, <1>8, <3>1 DEF Ended, Fair, Failures
      <4> QED
        BY <1>9, <1>10, <3>1, <4>1
    <3>2. CASE c \notin R
      BY <1>7, <1>10, <3>2, NewChildIs
    <3> QED
      BY <3>1, <3>2
  <2> QED
    BY <1>11, <2>1, ClientsAre, SumsDifferByOnes
<1>15. SumFunction(failed) <= SumFunction(lost) + Cardinality({})
  <2>1. ASSUME NEW c \in Clients PROVE failed[c] <= lost[c] + (IF c \in {} THEN 1 ELSE 0)
    <3>1. CASE c \in R
      <4>1. child[c].failed <= child[c].lost
        BY <1>3, <1>8, <3>1 DEF Ended, Fair, Failures
      <4> QED
        BY <1>9, <1>10, <3>1, <4>1
    <3>2. CASE c \notin R
      BY <1>7, <1>9, <1>10, <3>2
    <3> QED
      BY <3>1, <3>2
  <2> QED
    BY <1>11, <2>1, ClientsAre, SumsDifferByOnes
<1>y. ASSUME ~opt.force PROVE SumFunction(returned) <= SumFunction(success) + SumFunction(lost)
  <2>1. ASSUME NEW c \in Clients PROVE returned[c] <= success[c] + lost[c]
    <3>1. CASE c \in R
      <4>1. Returned(child[c]) <= child[c].success + child[c].lost
        BY <1>3, <1>8, <1>y, <3>1 DEF Ended, Fair, Answers
      <4> QED
        BY <1>x, <1>10, <3>1, <4>1
    <3>2. CASE c \notin R
      BY <1>7, <1>10, <1>x, <3>2, NewChildIs
    <3> QED
      BY <3>1, <3>2
  <2> QED
    BY <1>11, <2>1, ClientsAre, SumsAdd
<1>16. /\ SumFunction(success) \in Int /\ SumFunction(failed) \in Int
       /\ SumFunction(returned) \in Int /\ SumFunction(lost) \in Int
  BY <1>11, ClientsAre, SumIsNumber
<1>17. Cardinality({}) = 0
  BY FS_EmptySet
<1>18. ~opt.force => /\ total.success <= SumFunction(returned) + forked
                        /\ SumFunction(returned) <= total.success + SumFunction(lost)
  BY <1>5, <1>12, <1>13, <1>y
<1>19. SumFunction(lost) - forked <= total.failed /\ total.failed <= SumFunction(lost)
  BY <1>4, <1>5, <1>12, <1>14, <1>15, <1>16, <1>17
<1> QED
  BY <1>10, <1>18, <1>19

\* The types of the load generator's variables (web_bench.cpp).
THEOREM BenchTypeIsInvariant == BenchSpec => []BenchTypeOK
  BY BenchIsInvariant, PTL DEF BenchInv

\* For every number of clients, of rounds and of failures: the totals printed count no
\* success without a read that returned, of an answer or of the end of the stream, but
\* one for each client; they miss no read that returned but for each socket that could
\* not be closed; and the failures are those that happened, less at most one for each
\* client (Worker, WebBench).
THEOREM TotalsAreTrue == BenchSpec => []TotalsAreReal
  BY BenchIsInvariant, AccountsAreReal, PTL
=============================================================================
