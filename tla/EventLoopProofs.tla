-------------------------- MODULE EventLoopProofs --------------------------
(***************************************************************************)
(* Proofs about EventLoop for any threads, functions and sockets: its      *)
(* types, that no wakeup is lost, and that its queue is the first-in       *)
(* first-out queue of TaskQueue; and that an EventLoopThread uses its loop *)
(* as EventLoop lets any thread do, so that all of it holds there too.     *)
(***************************************************************************)
EXTENDS EventLoopThread, SequenceTheorems, TLAPS

\* NoLostWakeup speaks of the loop blocked in epoll_wait only.  The eventfd may
\* be drained, or its edge consumed, earlier, so the induction needs to know for
\* every phase who still owes the loop a round: the phase itself, when the swap
\* or the loop's own write is still to come, or a wakeup.
PendingCovered ==
    pending # <<>> => WakeupComing \/ lpc \in {"handle", "selfwake"}

LoopInv == TypeOK /\ PendingCovered /\ NoLostStop

-----------------------------------------------------------------------------
LEMMA InitType == Init => TypeOK
<1> SUFFICES ASSUME Init PROVE TypeOK
  OBVIOUS
<1>1. <<>> \in Seq(Tasks)
  BY EmptySeq
<1>2. tpc \in [Threads -> {"idle", "wakeup"}]
  BY DEF Init
<1> QED
  BY <1>1, <1>2 DEF Init, TypeOK, LoopPhases

LEMMA NextType == TypeOK /\ [Next]_vars => TypeOK'
<1> SUFFICES ASSUME TypeOK, [Next]_vars PROVE TypeOK'
  OBVIOUS
<1> USE DEF TypeOK, LoopPhases, loopVars, queueVars, fdVars, stopVars
<1>1. ASSUME NEW p \in Threads, NEW t \in Tasks, QueueInLoop(p, t) PROVE TypeOK'
  BY <1>1, AppendProperties DEF QueueInLoop, Push
<1>2. ASSUME NEW p \in Threads, StopLoop(p) PROVE TypeOK'
  BY <1>2 DEF StopLoop
<1>3. ASSUME NEW p \in Threads, WakeUpFrom(p) PROVE TypeOK'
  BY <1>3 DEF WakeUpFrom, WakeUp
<1>4. CASE LoopStart
  BY <1>4 DEF LoopStart
<1>5. CASE TestStop
  BY <1>5 DEF TestStop
<1>6. ASSUME NEW cs \in SUBSET Channels, PollSockets(cs) PROVE TypeOK'
  BY <1>6 DEF PollSockets
<1>7. CASE PollWakeup
  BY <1>7 DEF PollWakeup
<1>8. ASSUME NEW c \in Channels \cup {WakeupChannel}, HandleEvents(c) PROVE TypeOK'
  BY <1>8 DEF HandleEvents, HandleRead
<1>9. CASE SwapPending
  BY <1>9 DEF SwapPending
<1>10. CASE RunFunction
  BY <1>10, AppendProperties, HeadTailProperties DEF RunFunction
<1>11. CASE FunctionReturns
  BY <1>11 DEF FunctionReturns
<1>12. CASE FunctionsDone
  BY <1>12 DEF FunctionsDone
<1>13. CASE HandleExpire
  BY <1>13 DEF HandleExpire
<1>14. ASSUME NEW t \in Tasks, QueueFromLoop(t) PROVE TypeOK'
  BY <1>14, AppendProperties DEF QueueFromLoop, InCallback, Push
<1>15. CASE WakeUpFromLoop
  BY <1>15 DEF WakeUpFromLoop, WakeUp
<1>16. CASE StopFromLoop
  BY <1>16 DEF StopFromLoop
<1>17. CASE UNCHANGED vars
  BY <1>17 DEF vars
<1> QED
  BY <1>1, <1>2, <1>3, <1>4, <1>5, <1>6, <1>7, <1>8, <1>9, <1>10, <1>11, <1>12,
     <1>13, <1>14, <1>15, <1>16, <1>17 DEF Next, LoopStep, Environment

\* The types of every variable of the loop, in every reachable state, and the
\* phases in which the locals of Loop() and PerformPendingFunctions exist.
THEOREM TypeCorrect == Spec => []TypeOK
  BY InitType, NextType, PTL DEF Spec

-----------------------------------------------------------------------------
LEMMA InitInv == Init => LoopInv
  BY InitType DEF Init, LoopInv, PendingCovered, NoLostStop

LEMMA NextInv == LoopInv /\ [Next]_vars => LoopInv'
<1> SUFFICES ASSUME LoopInv, [Next]_vars PROVE LoopInv'
  OBVIOUS
<1>0. TypeOK /\ TypeOK' /\ PendingCovered /\ NoLostStop
  BY NextType DEF LoopInv
<1> SUFFICES PendingCovered' /\ NoLostStop'
  BY <1>0 DEF LoopInv
<1> USE <1>0 DEF PendingCovered, NoLostStop, WakeupComing
<1> USE DEF loopVars, queueVars, fdVars, stopVars
<1>1. ASSUME NEW p \in Threads, NEW t \in Tasks, QueueInLoop(p, t)
      PROVE  PendingCovered' /\ NoLostStop'
  <2>1. tpc'[p] = "wakeup"
    BY <1>1 DEF QueueInLoop, TypeOK
  <2> QED
    BY <2>1
<1>2. ASSUME NEW p \in Threads, StopLoop(p) PROVE PendingCovered' /\ NoLostStop'
  <2>1. tpc'[p] = "wakeup"
    BY <1>2 DEF StopLoop, TypeOK
  <2> QED
    BY <2>1
<1>3. ASSUME NEW p \in Threads, WakeUpFrom(p) PROVE PendingCovered' /\ NoLostStop'
  <2>1. edge' /\ counter' > 0
    BY <1>3 DEF WakeUpFrom, WakeUp, TypeOK
  <2> QED
    BY <2>1
<1>4. CASE LoopStart
  BY <1>4 DEF LoopStart
<1>5. CASE TestStop
  BY <1>5 DEF TestStop
<1>6. ASSUME NEW cs \in SUBSET Channels, PollSockets(cs)
      PROVE  PendingCovered' /\ NoLostStop'
  BY <1>6 DEF PollSockets
<1>7. CASE PollWakeup
  BY <1>7 DEF PollWakeup, TypeOK
<1>8. ASSUME NEW c \in Channels \cup {WakeupChannel}, HandleEvents(c)
      PROVE  PendingCovered' /\ NoLostStop'
  BY <1>8 DEF HandleEvents
<1>9. CASE SwapPending
  BY <1>9 DEF SwapPending
<1>10. CASE RunFunction
  BY <1>10 DEF RunFunction
<1>11. CASE FunctionReturns
  BY <1>11 DEF FunctionReturns
<1>12. CASE FunctionsDone
  BY <1>12 DEF FunctionsDone
<1>13. CASE HandleExpire
  BY <1>13 DEF HandleExpire
<1>14. ASSUME NEW t \in Tasks, QueueFromLoop(t) PROVE PendingCovered' /\ NoLostStop'
  <2>1. lpc = "handle" \/ (lpc = "task" /\ calling)
    BY <1>14 DEF QueueFromLoop, InCallback, TypeOK
  <2>2. lpc' \in {"handle", "selfwake"}
    BY <1>14, <2>1 DEF QueueFromLoop
  <2> QED
    BY <2>2
<1>15. CASE WakeUpFromLoop
  <2>1. edge' /\ counter' > 0
    BY <1>15 DEF WakeUpFromLoop, WakeUp, TypeOK
  <2> QED
    BY <2>1
<1>16. CASE StopFromLoop
  BY <1>16 DEF StopFromLoop, InCallback
<1>17. CASE UNCHANGED vars
  BY <1>17 DEF vars
<1> QED
  BY <1>1, <1>2, <1>3, <1>4, <1>5, <1>6, <1>7, <1>8, <1>9, <1>10, <1>11, <1>12,
     <1>13, <1>14, <1>15, <1>16, <1>17 DEF Next, LoopStep, Environment

LEMMA Invariance == Spec => []LoopInv
  BY InitInv, NextInv, PTL DEF Spec

\* Whatever the order of pushes, writes, drains and swaps, the loop is never
\* blocked in epoll_wait with a function queued and no wakeup coming.
THEOREM WakeupNeverLost == Spec => []NoLostWakeup
<1>1. LoopInv => NoLostWakeup
  BY DEF LoopInv, PendingCovered, NoLostWakeup
<1> QED
  BY <1>1, Invariance, PTL

\* A loop whose is_stop_ is set is never blocked in epoll_wait with no wakeup
\* coming, whoever called StopLoop.
THEOREM StopNeverLost == Spec => []NoLostStop
<1>1. LoopInv => NoLostStop
  BY DEF LoopInv
<1> QED
  BY <1>1, Invariance, PTL

-----------------------------------------------------------------------------
(* Refinement.  Pushing and running are steps of the abstract queue; the    *)
(* swap leaves functions \o pending as it was, because the vector it fills  *)
(* is empty; returning from Loop() closes the queue.                        *)

LEMMA OneThenRest ==
  ASSUME NEW S, NEW e \in S, NEW s \in Seq(S)
  PROVE  /\ <<e>> \o s # <<>>
         /\ Head(<<e>> \o s) = e
         /\ Tail(<<e>> \o s) = s
<1>1. <<e>> \in Seq(S) /\ Len(<<e>>) = 1 /\ <<e>>[1] = e
  OBVIOUS
<1>2. /\ <<e>> \o s \in Seq(S)
      /\ Len(<<e>> \o s) = 1 + Len(s)
      /\ \A i \in 1 .. 1 + Len(s) :
            (<<e>> \o s)[i] = IF i <= 1 THEN <<e>>[i] ELSE s[i - 1]
  BY <1>1, ConcatProperties
<1>3. Len(s) \in Nat
  BY LenProperties
<1>4. <<e>> \o s # <<>>
  BY <1>2, <1>3, EmptySeq
<1>5. /\ Tail(<<e>> \o s) \in Seq(S)
      /\ Len(Tail(<<e>> \o s)) = Len(s)
      /\ \A i \in 1 .. Len(s) : Tail(<<e>> \o s)[i] = s[i]
  BY <1>2, <1>3, <1>4, HeadTailProperties
<1>6. Tail(<<e>> \o s) = s
  BY <1>5, SeqEqual
<1>7. Head(<<e>> \o s) = e
  BY <1>1, <1>2, <1>3
<1> QED
  BY <1>4, <1>6, <1>7

LEMMA PushSubmits ==
  ASSUME TypeOK, lpc # "returned", lpc' # "returned", NEW t \in Tasks, Push(t)
  PROVE  Queue!Submit(t)
<1>1. t \notin Range(functions \o pending) \cup Range(executed)
  BY RangeConcatenation DEF TypeOK, Push, Fresh
<1>2. Append(functions \o pending, t) = functions \o Append(pending, t)
  <2>1. Append(functions \o pending, t) = (functions \o pending) \o <<t>>
    BY ConcatProperties, AppendIsConcat DEF TypeOK
  <2>2. Append(pending, t) = pending \o <<t>>
    BY AppendIsConcat DEF TypeOK
  <2>3. <<t>> \in Seq(Tasks)
    OBVIOUS
  <2>4. functions \in Seq(Tasks) /\ pending \in Seq(Tasks)
    BY DEF TypeOK
  <2>5. (functions \o pending) \o <<t>> = functions \o (pending \o <<t>>)
    BY <2>3, <2>4, ConcatAssociative
  <2> QED
    BY <2>1, <2>2, <2>5
<1>3. /\ pending' = Append(pending, t)
      /\ functions' = functions
      /\ executed' = executed
  BY DEF Push
<1>4. functions' \o pending' = Append(functions \o pending, t)
  BY <1>2, <1>3
<1>5. (lpc # "returned")' = (lpc # "returned")
  BY Zenon
<1> QED
  BY <1>1, <1>3, <1>4, <1>5 DEF Queue!Submit, Queue!Range, Range

LEMMA RunExecutes == TypeOK /\ RunFunction => Queue!Execute
<1> SUFFICES ASSUME TypeOK, RunFunction PROVE Queue!Execute
  OBVIOUS
<1>1. PICK t \in Tasks, rest \in Seq(Tasks) : functions = <<t>> \o rest
  <2>1. functions = SubSeq(functions, 1, Len(functions))
    BY SubSeqFull DEF TypeOK
  <2>2. Len(functions) \in Nat \ {0}
    BY EmptySeq DEF TypeOK, RunFunction
  <2>3. functions[1] \in Tasks
    BY <2>2, ElementOfSeq DEF TypeOK
  <2>4. SubSeq(functions, 1, Len(functions)) =
          <<functions[1]>> \o SubSeq(functions, 2, Len(functions))
    BY <2>2, SubSeqRecursiveFirst DEF TypeOK
  <2>5. SubSeq(functions, 2, Len(functions)) \in Seq(Tasks)
    BY TailIsSubSeq, HeadTailProperties DEF TypeOK, RunFunction
  <2> QED
    BY <2>1, <2>3, <2>4, <2>5
<1>2. <<t>> \in Seq(Tasks) /\ rest \o pending \in Seq(Tasks)
  BY <1>1, ConcatProperties DEF TypeOK
<1>3. functions \o pending = <<t>> \o (rest \o pending)
  BY <1>1, <1>2, ConcatAssociative DEF TypeOK
<1>4. Head(functions) = t /\ Tail(functions) = rest
  BY <1>1, OneThenRest
<1>5. /\ functions \o pending # <<>>
      /\ Head(functions \o pending) = t
      /\ Tail(functions \o pending) = rest \o pending
  BY <1>2, <1>3, OneThenRest
<1> QED
  BY <1>4, <1>5 DEF Queue!Execute, RunFunction

LEMMA StepSimulates == TypeOK /\ [Next]_vars => [Queue!TQNext]_(Queue!tqVars)
<1> SUFFICES ASSUME TypeOK, [Next]_vars PROVE [Queue!TQNext]_(Queue!tqVars)
  OBVIOUS
<1> USE DEF Queue!tqVars, Queue!TQNext, loopVars, queueVars
<1>1. ASSUME NEW p \in Threads, NEW t \in Tasks, QueueInLoop(p, t)
      PROVE  Queue!TQNext
  BY <1>1, PushSubmits DEF QueueInLoop
<1>2. ASSUME NEW p \in Threads, StopLoop(p) \/ WakeUpFrom(p)
      PROVE  UNCHANGED Queue!tqVars
  BY <1>2 DEF StopLoop, WakeUpFrom
<1>3. CASE TestStop
  BY <1>3 DEF TestStop, Queue!Close
<1>4. ASSUME NEW cs \in SUBSET Channels, PollSockets(cs)
      PROVE  UNCHANGED Queue!tqVars
  BY <1>4 DEF PollSockets
<1>5. ASSUME NEW c \in Channels \cup {WakeupChannel}, HandleEvents(c)
      PROVE  UNCHANGED Queue!tqVars
  BY <1>5 DEF HandleEvents
<1>6. CASE SwapPending
  <2>1. functions = <<>>
    BY <1>6 DEF SwapPending, TypeOK
  <2>2. functions \o pending = pending /\ pending \o <<>> = pending
    BY <2>1, ConcatEmptySeq DEF TypeOK
  <2> QED
    BY <1>6, <2>2 DEF SwapPending
<1>7. CASE RunFunction
  BY <1>7, RunExecutes
<1>8. ASSUME NEW t \in Tasks, QueueFromLoop(t) PROVE Queue!TQNext
  <2>1. lpc # "returned" /\ lpc' # "returned"
    BY <1>8 DEF QueueFromLoop, InCallback
  <2> QED
    BY <1>8, <2>1, PushSubmits DEF QueueFromLoop
<1>9. CASE LoopStart \/ PollWakeup \/ FunctionReturns \/ FunctionsDone \/ HandleExpire
           \/ WakeUpFromLoop \/ StopFromLoop
  BY <1>9 DEF LoopStart, PollWakeup, FunctionReturns, FunctionsDone, HandleExpire,
              WakeUpFromLoop, StopFromLoop, InCallback
<1>10. CASE UNCHANGED vars
  BY <1>10 DEF vars
<1> QED
  BY <1>1, <1>2, <1>3, <1>4, <1>5, <1>6, <1>7, <1>8, <1>9, <1>10
     DEF Next, LoopStep, Environment

\* The loop's queue is the abstract one: first in, first out, nothing lost,
\* nothing run twice, nothing run once Loop() has returned.
THEOREM LoopIsATaskQueue == Spec => Queue!TQSafeSpec
<1>1. Init => Queue!TQInit
  <2>1. <<>> \o <<>> = <<>>
    BY ConcatEmptySeq, EmptySeq
  <2> QED
    BY <2>1 DEF Init, Queue!TQInit
<1> QED
  BY <1>1, TypeCorrect, StepSimulates, PTL DEF Spec, Queue!TQSafeSpec

-----------------------------------------------------------------------------
(* The loop of an EventLoopThread.                                          *)

LEMMA ThreadStep == [ThreadNext]_allVars => [Next]_vars
<1> SUFFICES ASSUME ThreadNext PROVE [Next]_vars
  BY DEF allVars
<1>1. CASE DestroyStop
  BY <1>1, OwnerIsAThread DEF DestroyStop, Next, Environment
<1>2. CASE InLoop
  BY <1>2 DEF InLoop, Next, Environment
<1>3. CASE UseLoop
  BY <1>3 DEF UseLoop, Next, Environment
<1>4. CASE FinishWakeup
  BY <1>4 DEF FinishWakeup, Next
<1>5. CASE StartLoop \/ LoopPublished \/ Destroy \/ DestroyJoin \/ Joined
           \/ Publish \/ LoopReturned \/ ClearSubLoop
  BY <1>5 DEF StartLoop, LoopPublished, Destroy, DestroyJoin, Joined, Publish,
              LoopReturned, ClearSubLoop
<1> QED
  BY <1>1, <1>2, <1>3, <1>4, <1>5 DEF ThreadNext

\* StartLoop, Worker and the destructor do with the loop only what EventLoop lets
\* any thread do with one (event_loop_thread.cpp): every behaviour of an
\* EventLoopThread is one of its EventLoop.
THEOREM ThreadUsesItsLoop == ThreadSpec => Spec
<1>1. ThreadInit => Init
  BY DEF ThreadInit
<1> QED
  BY <1>1, ThreadStep, PTL DEF ThreadSpec, Spec

\* An IO thread is never asleep on a function or a stop it was given, however its
\* start, its use by the main loop and its destruction interleave.
THEOREM ThreadNeverMisses == ThreadSpec => [](NoLostWakeup /\ NoLostStop)
  BY ThreadUsesItsLoop, WakeupNeverLost, StopNeverLost, PTL
=============================================================================
