----------------------------- MODULE MemoryPool -----------------------------
(***************************************************************************)
(* memoryPool::MemoryPool: slots of one size, cut from blocks one after    *)
(* the other or taken from the list of slots given back.  Two mutexes      *)
(* guard the two, but allocate and nofree_solve look at them before they   *)
(* lock.                                                                   *)
(*                                                                         *)
(* Each locked section is one step, each look another; that of             *)
(* nofree_solve is two, for currentSlot_ and for lastSlot_.  A slot is its *)
(* block and its place in it: index SlotsPerBlock is the first that does   *)
(* not fit in the block any more.  Pointers into two blocks compare as     *)
(* their addresses happen to.                                              *)
(***************************************************************************)
EXTENDS Naturals, FiniteSets, Sequences, Functions

CONSTANTS
    Callers,        \* threads
    SlotsPerBlock,
    MaxBlocks,      \* bounds of the model: operator new, and the list's length
    MaxFree

ASSUME PoolAssumption ==
    /\ IsFiniteSet(Callers) /\ Callers # {}
    /\ SlotsPerBlock \in Nat \ {0}
    /\ MaxBlocks \in Nat /\ MaxFree \in Nat

VARIABLES
    current,        \* currentSlot_; its block is the last of those allocated
    last,           \* the block lastSlot_ is the end of
    freeSlots,      \* the list freeSlot_ begins
    pc,             \* where each thread is in allocate()
    looked,         \* what it saw in currentSlot_
    held,           \* the slots that were allocated and not given back
    serial          \* history: no two threads were in allocate() at once

poolVars == <<current, last, freeSlots, pc, looked, held, serial>>

Slot == [block : Nat, index : Nat]

Phases == {"idle", "pop", "solve", "compare", "cut", "grow"}

\* NULL, as which currentSlot_ and lastSlot_ begin: the end of block 0.
NoSlot == [block |-> 0, index |-> SlotsPerBlock]

PoolTypeOK ==
    /\ current \in Slot
    /\ last = current.block
    /\ freeSlots \in Seq(Slot)
    /\ pc \in [Callers -> Phases]
    /\ looked \in [Callers -> Slot]
    /\ held \subseteq Slot
    /\ serial \in BOOLEAN

PoolInit ==
    /\ current = NoSlot
    /\ last = 0
    /\ freeSlots = <<>>
    /\ pc = [t \in Callers |-> "idle"]
    /\ looked = [t \in Callers |-> NoSlot]
    /\ held = {}
    /\ serial = TRUE

-----------------------------------------------------------------------------
Goto(t, phase) == pc' = [pc EXCEPT ![t] = phase]

\* allocate looks at freeSlot_.
Allocate(t) ==
    /\ pc[t] = "idle"
    /\ Goto(t, IF freeSlots = <<>> THEN "solve" ELSE "pop")
    /\ serial' = (serial /\ \A u \in Callers : pc[u] = "idle")
    /\ UNCHANGED <<current, last, freeSlots, looked, held>>

\* Mutant: the slot stays in the list.
PopFreeStay(t) ==
    /\ pc[t] = "pop"
    /\ IF freeSlots = <<>> THEN Goto(t, "solve") /\ UNCHANGED held
       ELSE Goto(t, "idle") /\ held' = held \cup {Head(freeSlots)}
    /\ UNCHANGED <<current, last, freeSlots, looked, serial>>

\* With the mutex it looks again: another thread may have taken the last one.
PopFree(t) ==
    /\ pc[t] = "pop"
    /\ \/ /\ freeSlots = <<>>
          /\ Goto(t, "solve")
          /\ UNCHANGED <<freeSlots, held>>
       \/ /\ freeSlots # <<>>
          /\ Goto(t, "idle")
          /\ held' = held \cup {Head(freeSlots)}
          /\ freeSlots' = Tail(freeSlots)
    /\ UNCHANGED <<current, last, looked, serial>>

\* nofree_solve looks at currentSlot_.
LookCurrent(t) ==
    /\ pc[t] = "solve"
    /\ Goto(t, "compare")
    /\ looked' = [looked EXCEPT ![t] = current]
    /\ UNCHANGED <<current, last, freeSlots, held, serial>>

\* Mutant: the slot that begins in the block and ends behind it is in it.
AtEndLate(s) == IF s.block = last THEN {s.index > SlotsPerBlock} ELSE BOOLEAN

\* The ways currentSlot_ >= lastSlot_ may come out.
AtEnd(s) == IF s.block = last THEN {s.index >= SlotsPerBlock} ELSE BOOLEAN

Compare(t) ==
    /\ pc[t] = "compare"
    /\ \E full \in AtEnd(looked[t]) : Goto(t, IF full THEN "grow" ELSE "cut")
    /\ looked' = [looked EXCEPT ![t] = NoSlot]
    /\ UNCHANGED <<current, last, freeSlots, held, serial>>

\* The next slot, whether or not there still is room for it.
Cut(t) ==
    /\ pc[t] = "cut"
    /\ Goto(t, "idle")
    /\ held' = held \cup {current}
    /\ current' = [block |-> current.block, index |-> current.index + 1]
    /\ UNCHANGED <<last, freeSlots, looked, serial>>

\* What is left of the block before is never used.
AllocateBlock(t) ==
    /\ pc[t] = "grow"
    /\ current.block < MaxBlocks
    /\ Goto(t, "idle")
    /\ held' = held \cup {[block |-> current.block + 1, index |-> 0]}
    /\ current' = [block |-> current.block + 1, index |-> 1]
    /\ last' = current.block + 1
    /\ UNCHANGED <<freeSlots, looked, serial>>

\* A slot is given back by whoever has it then.
DeAllocate(s) ==
    /\ s \in held
    /\ Len(freeSlots) < MaxFree
    /\ held' = held \ {s}
    /\ freeSlots' = <<s>> \o freeSlots
    /\ UNCHANGED <<current, last, pc, looked, serial>>

PoolNext ==
    \/ \E t \in Callers :
          \/ Allocate(t) \/ PopFree(t)
          \/ LookCurrent(t) \/ Compare(t) \/ Cut(t) \/ AllocateBlock(t)
    \/ \E s \in held : DeAllocate(s)

PoolSpec == PoolInit /\ [][PoolNext]_poolVars

-----------------------------------------------------------------------------
\* s is cut before c is.
CutBefore(s, c) == s.block < c.block \/ (s.block = c.block /\ s.index < c.index)

\* memory_pool.cpp:84-91, 74-76: no slot is given to two callers.  One that is given
\* comes from the list or from the block, and neither holds a slot a caller has, nor
\* the list the same slot twice.
OneOwner ==
    /\ IsInjective(freeSlots)
    /\ held \cap Range(freeSlots) = {}
    /\ \A s \in held \cup Range(freeSlots) : CutBefore(s, current)

\* memory_pool.cpp:70: threads that looked before the last slot was cut go on cutting
\* behind the block, but fewer of them than there are threads; and callers that come
\* one at a time, as LFUCache's do with its mutex, never get a slot behind it.
OverrunBound ==
    /\ current.index < SlotsPerBlock + Cardinality(Callers)
    /\ serial => current.index <= SlotsPerBlock
=============================================================================
