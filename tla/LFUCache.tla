------------------------------ MODULE LFUCache ------------------------------
(***************************************************************************)
(* cache::LFUCache and the threads that fill it: BuildResponse calls Get,  *)
(* reads the file when the key is missing, and calls Set.  Get and Set     *)
(* hold mutex_ and are one step each; another thread's may come between.   *)
(*                                                                         *)
(* The chain below Dummyhead_ is a sequence of small lists, each with its  *)
(* frequency; a freq_node is named by that frequency, which no two lists   *)
(* of the chain share (ChainInOrder).  A capacity of zero turns the cache  *)
(* off: nothing changes.                                                   *)
(***************************************************************************)
EXTENDS SequencesExt, FiniteSetsExt

CONSTANTS
    Threads,    \* the IO threads
    Keys,       \* file names
    Nodes,      \* the pool's elements for a Node<Key>
    NULL,
    Capacity,   \* page_cache_capacity
    MaxFreq,    \* bounds of the model: hits of one node,
    MaxTwice    \* and keys set when they are in the cache

ASSUME CacheAssumption ==
    /\ Capacity \in Nat \ {0} /\ MaxFreq \in Nat \ {0} /\ MaxTwice \in Nat
    /\ NULL \notin Keys \cup Nodes

VARIABLES
    chain,      \* the lists below Dummyhead_
    kmap,       \* kmap_
    fmap,       \* fmap_
    keyOf,      \* key_ of each node in use
    filling,    \* per thread: the key it missed and is reading
    newer,      \* history: <<m, n>> if m was used after n was, both in use
    hits,       \* history: how often each was used
    twice       \* history: Set calls that found their key in the cache

vars == <<chain, kmap, fmap, keyOf, filling, newer, hits, twice>>

List == [freq : Nat, nodes : Seq(Nodes)]

InUse == UNION {Range(chain[i].nodes) : i \in DOMAIN chain}

TypeOK ==
    /\ chain \in Seq(List)
    /\ DOMAIN kmap \subseteq Keys /\ \A k \in DOMAIN kmap : kmap[k] \in Nodes
    /\ DOMAIN fmap \subseteq Keys /\ \A k \in DOMAIN fmap : fmap[k] \in Nat
    /\ keyOf \in [Nodes -> Keys \cup {NULL}]
    /\ filling \in [Threads -> Keys \cup {NULL}]
    /\ newer \subseteq InUse \X InUse
    /\ hits \in [Nodes -> Nat]
    /\ twice \in Nat

Init ==
    /\ chain = <<>>
    /\ kmap = <<>> /\ fmap = <<>>
    /\ keyOf = [n \in Nodes |-> NULL]
    /\ filling = [t \in Threads |-> NULL]
    /\ newer = {}
    /\ hits = [n \in Nodes |-> 0]
    /\ twice = 0

-----------------------------------------------------------------------------
(* The two levels of lists.                                                *)

\* KeyList: a node is added in front, and the last one was added longest ago.
Add(nodes, n) == <<n>> \o nodes

\* The node is unlinked where it is.
Del(nodes, n) == RemoveAt(nodes, CHOOSE i \in DOMAIN nodes : nodes[i] = n)

GetLast(nodes) == Last(nodes)

\* Where the list of a frequency is; Dummyhead_, with frequency 0, comes first.
Position(f) == IF f = 0 THEN 0 ELSE CHOOSE i \in DOMAIN chain : chain[i].freq = f

\* LFUCache::Del of a list that has become empty.
DropEmpty(ch, i) == IF i > 0 /\ ch[i].nodes = <<>> THEN RemoveAt(ch, i) ELSE ch

\* The chain with a list for the next frequency behind position i.
WithNext(ch, i) ==
    LET f == IF i = 0 THEN 0 ELSE ch[i].freq
    IN  IF i < Len(ch) /\ ch[i + 1].freq = f + 1 THEN ch
        ELSE InsertAt(ch, i + 1, [freq |-> f + 1, nodes |-> <<>>])

\* Mutant: the node goes to the tail of the next list.
AddFreqBehind(ch, i, n) ==
    LET nxt   == [WithNext(ch, i) EXCEPT ![i + 1].nodes = Append(@, n)]
        moved == IF i = 0 THEN nxt ELSE [nxt EXCEPT ![i].nodes = Del(@, n)]
    IN  DropEmpty(moved, i)

\* AddFreq: a node moves from the list at position i to the head of the next.
AddFreq(ch, i, n) ==
    LET nxt   == [WithNext(ch, i) EXCEPT ![i + 1].nodes = Add(@, n)]
        moved == IF i = 0 THEN nxt ELSE [nxt EXCEPT ![i].nodes = Del(@, n)]
    IN  DropEmpty(moved, i)

\* n is used, and the other nodes in use are these.
Used(n, others) == (newer \cap (others \X others)) \cup ({n} \X others)

Put(f, k, v) == [x \in DOMAIN f \cup {k} |-> IF x = k THEN v ELSE f[x]]

\* Mutant: nothing is erased.
EraseNothing(f, k) == f

Erase(f, k) == [x \in DOMAIN f \ {k} |-> f[x]]

-----------------------------------------------------------------------------
GetHit(t, k) ==
    LET n == kmap[k]
        i == Position(fmap[k])
    IN  /\ filling[t] = NULL
        /\ k \in DOMAIN fmap
        /\ hits[n] < MaxFreq
        /\ chain' = AddFreq(chain, i, n)
        /\ fmap' = [fmap EXCEPT ![k] = @ + 1]
        /\ newer' = Used(n, InUse \ {n})
        /\ hits' = [hits EXCEPT ![n] = @ + 1]
        /\ UNCHANGED <<kmap, keyOf, filling, twice>>

GetMiss(t, k) ==
    /\ filling[t] = NULL
    /\ k \notin DOMAIN fmap
    /\ filling' = [filling EXCEPT ![t] = k]
    /\ UNCHANGED <<chain, kmap, fmap, keyOf, newer, hits, twice>>

\* The file cannot be opened or mapped: nothing is cached.
OpenFails(t) ==
    /\ filling[t] # NULL
    /\ filling' = [filling EXCEPT ![t] = NULL]
    /\ UNCHANGED <<chain, kmap, fmap, keyOf, newer, hits, twice>>

\* When the cache is full, the last node of the least frequent list goes.
Victim == IF Cardinality(DOMAIN kmap) = Capacity THEN GetLast(chain[1].nodes) ELSE NULL

\* Set of a key that was missing when this thread looked.
Set(t) ==
    LET k     == filling[t]
        v     == Victim
        kept  == IF v = NULL THEN chain
                 ELSE DropEmpty([chain EXCEPT ![1].nodes = Del(@, v)], 1)
        kmap1 == IF v = NULL THEN kmap ELSE Erase(kmap, keyOf[v])
        fmap1 == IF v = NULL THEN fmap ELSE Erase(fmap, keyOf[v])
        n     == CHOOSE x \in Nodes : x \notin InUse
    IN  /\ k # NULL
        /\ Nodes # InUse
        /\ k \in DOMAIN kmap1 => twice < MaxTwice
        /\ twice' = IF k \in DOMAIN kmap1 THEN twice + 1 ELSE twice
        /\ chain' = AddFreq(kept, 0, n)
        /\ kmap' = Put(kmap1, k, n)
        /\ fmap' = Put(fmap1, k, 1)
        /\ keyOf' = [x \in Nodes |-> IF x = n THEN k ELSE IF x = v THEN NULL ELSE keyOf[x]]
        /\ filling' = [filling EXCEPT ![t] = NULL]
        /\ newer' = Used(n, InUse \ {v})
        /\ hits' = [x \in Nodes |-> IF x = n THEN 1 ELSE IF x = v THEN 0 ELSE hits[x]]

Next ==
    \E t \in Threads :
        \/ \E k \in Keys : GetHit(t, k) \/ GetMiss(t, k)
        \/ OpenFails(t)
        \/ Set(t)

Spec == Init /\ [][Next]_vars

-----------------------------------------------------------------------------
\* The chain is in order of frequency, has no empty list, and holds each node
\* in use once, in the list of the number of times it was used: the pointers of
\* AddFreq, Del and Set never fork, cross or dangle.
ChainInOrder ==
    /\ \A i, j \in DOMAIN chain : i < j => chain[i].freq < chain[j].freq
    /\ \A i \in DOMAIN chain :
          /\ chain[i].nodes # <<>>
          /\ IsInjective(chain[i].nodes)
          /\ \A n \in Range(chain[i].nodes) : hits[n] = chain[i].freq
    /\ \A n \in Nodes : n \in InUse <=> keyOf[n] # NULL

\* Both maps have the same keys, and lead to the key's node and to the list it is
\* in, also when two threads miss a key at once and both set it.
MapsAgree ==
    /\ DOMAIN fmap = DOMAIN kmap
    /\ \A k \in DOMAIN kmap :
          /\ keyOf[kmap[k]] = k
          /\ \E i \in DOMAIN chain :
                chain[i].freq = fmap[k] /\ kmap[k] \in Range(chain[i].nodes)

\* As long as no two threads set the same key, the cache holds at most Capacity
\* files, and each node in use is one a key leads to.
SizeBound ==
    twice = 0 => Cardinality(InUse) <= Capacity /\ InUse = Range(kmap)

\* The two lists, the two maps and the count of what is in them are one cache.
CacheIsConsistent == ChainInOrder /\ MapsAgree /\ SizeBound

\* What Set evicts was used least, and among those least recently
\* (src/WebServer/README.md:226).
EvictsLeastUsed ==
    [][\A n \in Nodes : keyOf[n] # NULL /\ keyOf'[n] = NULL =>
          \A m \in InUse \ {n} :
              hits[n] < hits[m] \/ (hits[n] = hits[m] /\ <<m, n>> \in newer)]_vars
=============================================================================
