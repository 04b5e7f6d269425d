-------------------------- MODULE OldServerProofs --------------------------
(***************************************************************************)
(* Proofs about the server of old_version, for any number of connections,  *)
(* of descriptors and of timers.                                           *)
(*                                                                         *)
(* All its tables are keyed by descriptor, and a descriptor is closed when *)
(* the last holder of its Channel lets go of it.  The proofs therefore     *)
(* rest on one fact: whatever a table, a queue or a timer leads to still   *)
(* has its descriptor, and no two connections have the same one.           *)
(***************************************************************************)
EXTENDS OldServer, SequenceTheorems, WellFoundedInduction, TLAPS

\* No two connections have the same descriptor, and one nobody has accepted yet
\* has none.
OneDescriptor ==
    /\ \A c, d \in Peers : fd[c] # 0 /\ fd[c] = fd[d] => c = d
    /\ \A c \in Peers : peer[c] = "new" => fd[c] = 0

\* What a map holds for a descriptor is the connection that has it.
MapsPoint ==
    /\ \A f \in Fds : connMap[f] # NULL => fd[connMap[f]] = f
    /\ \A f \in Fds : channelMap[f] # NULL => fd[channelMap[f]] = f
    /\ \A f \in Fds : timerMap[f] # NULL => fd[timerMap[f].conn] = f

\* Whoever is held otherwise has a descriptor.
HeldIsOpen ==
    /\ \A c \in Range(mainQueue) \cup Range(ioQueue) \cup ret : fd[c] # 0
    /\ \A node \in heap : fd[node.conn] # 0
    /\ current # NULL => fd[current] # 0

\* A connection that is on its way to the poller is in the main loop's map and
\* nowhere else yet.
OnItsWay ==
    \A c \in Range(ioQueue) :
        /\ connMap[fd[c]] = c /\ channelMap[fd[c]] # c /\ timerMap[fd[c]] = NULL
        /\ c \notin Range(mainQueue) /\ c \notin ret /\ c # current
        /\ \A node \in heap : node.conn # c

\* A channel has one node in the heap, ever, and that one's descriptor has a
\* latest node.
OneNode ==
    /\ \A m, n \in heap : m.conn = n.conn => m = n
    /\ \A n \in heap : timerMap[fd[n.conn]] # NULL /\ n.conn \notin first

\* What the IO loop has still to handle is of channels that are in the poller.
EventsAreOfChannels ==
    /\ current # NULL <=> io \in {"closing", "expiring"}
    /\ batch # {} => io \in {"events", "closing"}
    /\ \A c \in armed : Registered(c)
    /\ \A e \in batch :
          IF e.event = "wakeup" THEN e.conn = NULL
          ELSE e.conn \in ret /\ Registered(e.conn) /\ e.conn # current
    /\ \A e1, e2 \in batch : e1.conn = e2.conn => e1 = e2
    /\ \A e \in batch : e.event \in {"err", "hup"} => peer[e.conn] = "reset"

\* A channel in the poller, other than one that is being closed, belongs to a
\* connection that the main loop has, and has not been asked to delete.
InPollerIsInMap ==
    \A c \in Peers : Registered(c) /\ c # current =>
        connMap[fd[c]] = c /\ c \notin Range(mainQueue)

ServerInv ==
    /\ TypeOK /\ OneDescriptor /\ MapsPoint /\ HeldIsOpen /\ OnItsWay
    /\ OneNode /\ EventsAreOfChannels /\ InPollerIsInMap

-----------------------------------------------------------------------------
(* The facts about sets of numbers and sequences that they need.           *)

LEMMA LeastNumber ==
  ASSUME NEW S \in SUBSET Nat, S # {}
  PROVE  \E m \in S : \A k \in S : m <= k
<1> DEFINE Less == {ss \in Nat \X Nat : ss[1] < ss[2]}
<1>1. IsWellFoundedOn(Less, Nat)
  BY NatLessThanWellFounded DEF OpToRel
<1>2. PICK m \in S : \A k \in S : <<k, m>> \notin Less
  <2> HIDE DEF Less
  <2> QED
    BY <1>1, WFMin
<1>3. ASSUME NEW k \in S, k < m PROVE FALSE
  <2>1. <<k, m>> \in Nat \X Nat /\ <<k, m>>[1] < <<k, m>>[2]
    BY <1>3
  <2>2. <<k, m>> \in Less
    BY <2>1, Zenon
  <2> QED
    BY <2>2, <1>2, Zenon
<1> QED
  BY <1>3

LEMMA MinIsIn ==
  ASSUME NEW S \in SUBSET Nat, S # {}
  PROVE  Min(S) \in S
  BY LeastNumber DEF Min

LEMMA QueueRange ==
  ASSUME NEW S, NEW s \in Seq(S), NEW t \in Seq(S), NEW e \in S
  PROVE  /\ ToSet(s) = Range(s) /\ Range(s) \subseteq S
         /\ ToSet(s \o t) = Range(s) \cup Range(t)
         /\ Append(s, e) \in Seq(S) /\ Range(Append(s, e)) = Range(s) \cup {e}
         /\ <<>> \in Seq(S) /\ Range(<<>>) = {}
<1>1. ToSet(s) = Range(s) /\ ToSet(s \o t) = Range(s \o t)
  BY DEF ToSet, Range
<1>2. Range(s \o t) = Range(s) \cup Range(t)
  BY RangeConcatenation
<1>3. Range(s) \subseteq S
  BY RangeOfSeq
<1>4. /\ Append(s, e) \in Seq(S) /\ Len(Append(s, e)) = Len(s) + 1
      /\ \A i \in 1 .. Len(s) : Append(s, e)[i] = s[i]
      /\ Append(s, e)[Len(s) + 1] = e
  BY AppendProperties
<1>5. /\ Len(s) \in Nat /\ DOMAIN s = 1 .. Len(s)
      /\ DOMAIN Append(s, e) = 1 .. Len(s) + 1
  BY <1>4, LenProperties
<1>6. Range(Append(s, e)) = Range(s) \cup {e}
  BY <1>4, <1>5 DEF Range
<1>7. <<>> \in Seq(S) /\ Range(<<>>) = {}
  BY DEF Range
<1> QED
  BY <1>1, <1>2, <1>3, <1>4, <1>6, <1>7

-----------------------------------------------------------------------------
(* ~Channel: whoever is held after the step keeps its descriptor.          *)

Kept ==
    /\ fd' \in [Peers -> Fds \cup {0}]
    /\ \A c \in Peers : fd'[c] \in {0, fd[c]}
    /\ \A f \in Fds : connMap'[f] # NULL => fd'[connMap'[f]] = fd[connMap'[f]]
    /\ \A f \in Fds : channelMap'[f] # NULL => fd'[channelMap'[f]] = fd[channelMap'[f]]
    /\ \A f \in Fds : timerMap'[f] # NULL => fd'[timerMap'[f].conn] = fd[timerMap'[f].conn]
    /\ \A c \in Range(mainQueue') \cup Range(ioQueue') \cup ret' : fd'[c] = fd[c]
    /\ \A node \in heap' : fd'[node.conn] = fd[node.conn]
    /\ current' # NULL => fd'[current'] = fd[current']

LEMMA ReleaseKeeps ==
  ASSUME fd \in [Peers -> Fds \cup {0}], Release,
         mainQueue' \in Seq(Peers), ioQueue' \in Seq(Peers),
         connMap' \in [Fds -> Peers \cup {NULL}], channelMap' \in [Fds -> Peers \cup {NULL}],
         timerMap' \in [Fds -> TimerNode \cup {NULL}], heap' \subseteq TimerNode,
         ret' \subseteq Peers, current' \in Peers \cup {NULL}
  PROVE  Kept
<1>1. /\ ToSet(mainQueue' \o ioQueue') = Range(mainQueue') \cup Range(ioQueue')
      /\ Range(mainQueue') \subseteq Peers /\ Range(ioQueue') \subseteq Peers
  <2>1. CASE Peers = {}
    <3>1. mainQueue' = <<>> /\ ioQueue' = <<>>
      BY <2>1, ElementOfSeq, LenProperties, EmptySeq
    <3> QED
      BY <3>1 DEF ToSet, Range
  <2>2. CASE Peers # {}
    BY <2>2, QueueRange
  <2> QED
    BY <2>1, <2>2
<1>2. \A node \in TimerNode : node # NULL /\ node.conn \in Peers
  BY OldAssumption DEF TimerNode
<1> DEFINE H(c) == Held(c, connMap', channelMap', mainQueue' \o ioQueue',
                        heap' \cup Range(timerMap'), ret' \cup {current'})
<1>3. fd' = [c \in Peers |-> IF H(c) THEN fd[c] ELSE 0]
  BY DEF Release
<1>4. \A f \in Fds : connMap'[f] # NULL => H(connMap'[f])
  BY DEF Held, Range
<1>5. \A f \in Fds : channelMap'[f] # NULL => H(channelMap'[f])
  BY DEF Held, Range
<1>6. \A f \in Fds : timerMap'[f] # NULL => H(timerMap'[f].conn)
  BY DEF Held, Range
<1>7. \A c \in Range(mainQueue') \cup Range(ioQueue') \cup ret' : H(c)
  BY <1>1 DEF Held
<1>8. \A node \in heap' : H(node.conn)
  BY <1>2 DEF Held
<1>9. current' # NULL => H(current')
  BY DEF Held
<1> HIDE DEF H
<1> QED
  BY <1>1, <1>2, <1>3, <1>4, <1>5, <1>6, <1>7, <1>8, <1>9 DEF Kept

-----------------------------------------------------------------------------
(* One step at a time.                                                     *)

LEMMA InitHolds == Init => ServerInv
<1> SUFFICES ASSUME Init PROVE ServerInv
  OBVIOUS
<1>1. <<>> \in Seq(Peers) /\ Range(<<>>) = {}
  BY DEF Range
<1>2. TypeOK
  BY <1>1, OldAssumption DEF Init, HttpInit, TypeOK
<1>3. OneDescriptor /\ MapsPoint /\ HeldIsOpen /\ OnItsWay /\ OneNode
  BY <1>1 DEF Init, OneDescriptor, MapsPoint, HeldIsOpen, OnItsWay, OneNode
<1>4. EventsAreOfChannels /\ InPollerIsInMap
  BY <1>1 DEF Init, EventsAreOfChannels, InPollerIsInMap, Registered
<1> QED
  BY <1>2, <1>3, <1>4 DEF ServerInv

\* A step outside the IO loop, after which every channel is still in the poller.
LEMMA EventsKept ==
  ASSUME TypeOK, EventsAreOfChannels, UNCHANGED <<batch, ret, current, io>>,
         \A d \in Peers : Registered(d) => Registered(d)',
         \A d \in Peers : peer[d] = "reset" => peer'[d] = "reset",
         \A d \in armed' : Registered(d)'
  PROVE  EventsAreOfChannels'
<1>1. ret \subseteq Peers
  BY DEF TypeOK
<1>2. \A e \in batch : e.event # "wakeup" =>
          e.conn \in ret /\ Registered(e.conn)' /\ e.conn # current
  BY <1>1 DEF EventsAreOfChannels
<1>3. \A e \in batch : e.event \in {"err", "hup"} => peer'[e.conn] = "reset"
  BY <1>1 DEF EventsAreOfChannels
<1> QED
  BY <1>2, <1>3 DEF EventsAreOfChannels

LEMMA HandleNewConnKeeps ==
  ASSUME ServerInv, NEW c \in Peers, HandleNewConn(c)
  PROVE  ServerInv'
<1> DEFINE free == Fds \ Range(fd)
<1> USE OldAssumption DEF ServerInv
<1>1. fd[c] = 0 /\ peer[c] = "new"
  BY DEF HandleNewConn, OneDescriptor
<1>2. CASE peer' = [peer EXCEPT ![c] = "reset"] /\ UNCHANGED <<fd, connMap, ioQueue>>
  <2>1. /\ peer' = [peer EXCEPT ![c] = "reset"]
        /\ UNCHANGED <<fd, connMap, ioQueue>>
        /\ UNCHANGED <<kind, mainQueue, channelMap, loopVars, timerVars, time,
                       unread, armed, http>>
    BY <1>2 DEF HandleNewConn, httpVars
  <2>2. TypeOK'
    BY <2>1 DEF TypeOK, loopVars, timerVars
  <2>3. OneDescriptor' /\ MapsPoint' /\ HeldIsOpen' /\ OnItsWay' /\ OneNode' /\ InPollerIsInMap'
    BY <2>1, <1>1 DEF TypeOK, OneDescriptor, MapsPoint, HeldIsOpen, OnItsWay, OneNode,
                      InPollerIsInMap, Registered, loopVars, timerVars
  <2>4. EventsAreOfChannels'
    BY <2>1, EventsKept DEF TypeOK, EventsAreOfChannels, Registered, loopVars
  <2> QED
    BY <2>2, <2>3, <2>4
<1>3. CASE /\ free # {} /\ peer' = [peer EXCEPT ![c] = "open"]
           /\ fd' = [fd EXCEPT ![c] = Min(free)]
           /\ connMap' = [connMap EXCEPT ![Min(free)] = c]
           /\ ioQueue' = Append(ioQueue, c)
  <2> DEFINE n == Min(free)
  <2>1. n \in Fds /\ n # 0 /\ \A d \in Peers : fd[d] # n
    <3>1. free \in SUBSET Nat
      OBVIOUS
    <3>2. n \in free
      BY <1>3, <3>1, MinIsIn
    <3> QED
      BY <3>2 DEF Range, TypeOK
  <2> HIDE DEF n
  <2>2. /\ peer' = [peer EXCEPT ![c] = "open"]
        /\ fd' = [fd EXCEPT ![c] = n]
        /\ connMap' = [connMap EXCEPT ![n] = c]
        /\ ioQueue' = Append(ioQueue, c)
        /\ UNCHANGED <<kind, mainQueue, channelMap, loopVars, timerVars, time,
                       unread, armed, http>>
    BY <1>3 DEF HandleNewConn, httpVars, n
  <2>3. ioQueue' \in Seq(Peers) /\ Range(ioQueue') = Range(ioQueue) \cup {c}
    BY <2>2, QueueRange DEF TypeOK
  <2>4. TypeOK'
    BY <2>1, <2>2, <2>3 DEF TypeOK, loopVars, timerVars
  <2>5. /\ \A d \in Peers : d # c => fd'[d] = fd[d]
        /\ fd'[c] = n
        /\ \A f \in Fds : f # n => connMap'[f] = connMap[f]
        /\ connMap'[n] = c
    BY <2>1, <2>2 DEF TypeOK
  <2>6. /\ connMap[n] = NULL /\ channelMap[n] = NULL /\ timerMap[n] = NULL
        /\ \A node \in heap : node.conn \in Peers /\ node.conn # c
        /\ \A f \in Fds : /\ connMap[f] # c /\ channelMap[f] # c
                          /\ timerMap[f] # NULL => timerMap[f].conn \in Peers \ {c}
        /\ c # current /\ c \notin Range(mainQueue) \cup Range(ioQueue) \cup ret
        /\ Range(mainQueue) \subseteq Peers /\ Range(ioQueue) \subseteq Peers
    BY <2>1, <1>1, QueueRange DEF TypeOK, MapsPoint, HeldIsOpen, TimerNode
  <2>7. OneDescriptor'
    BY <2>1, <2>2, <2>5 DEF OneDescriptor, TypeOK
  <2>8. MapsPoint'
    BY <2>1, <2>2, <2>5, <2>6 DEF MapsPoint, timerVars, TypeOK
  <2>9. HeldIsOpen'
    BY <2>1, <2>2, <2>3, <2>5, <2>6 DEF HeldIsOpen, TypeOK, timerVars, loopVars
  <2>10. OnItsWay'
    BY <2>1, <2>2, <2>3, <2>5, <2>6 DEF OnItsWay, HeldIsOpen, TypeOK, timerVars, loopVars
  <2>11. OneNode'
    BY <2>2, <2>5, <2>6 DEF OneNode, TypeOK, timerVars
  <2>12. \A d \in Peers : Registered(d)' <=> Registered(d) /\ d # c
    BY <2>1, <2>2, <2>5, <2>6, <1>1 DEF Registered, TypeOK
  <2>13. EventsAreOfChannels'
    <3>1. \A d \in Peers : Registered(d) => Registered(d)'
      BY <2>12, <1>1 DEF Registered
    <3>2. \A d \in Peers : peer[d] = "reset" => peer'[d] = "reset"
      BY <2>2, <1>1 DEF TypeOK
    <3>3. \A d \in armed' : Registered(d)'
      BY <2>2, <3>1 DEF EventsAreOfChannels, TypeOK
    <3> QED
      BY <2>2, <3>1, <3>2, <3>3, EventsKept DEF loopVars
  <2>14. InPollerIsInMap'
    BY <2>1, <2>2, <2>5, <2>12 DEF InPollerIsInMap, loopVars, TypeOK, Registered
  <2> QED
    BY <2>4, <2>7, <2>8, <2>9, <2>10, <2>11, <2>13, <2>14
<1> QED
  BY <1>2, <1>3 DEF HandleNewConn

\* Steps that let go of some of what is held.
LEMMA Shrunk ==
  ASSUME ServerInv, TypeOK', Kept,
         UNCHANGED <<peer, timerMap, heap, ioQueue, first>>,
         \A f \in Fds : connMap'[f] \in {connMap[f], NULL},
         \A f \in Fds : channelMap'[f] \in {channelMap[f], NULL},
         mainQueue' \in {mainQueue, <<>>}, ret' \subseteq ret, current' \in {current, NULL},
         \A c \in Range(ioQueue) : connMap'[fd[c]] = c
  PROVE  /\ OneDescriptor' /\ MapsPoint' /\ HeldIsOpen' /\ OnItsWay' /\ OneNode'
         /\ \A d \in Peers : Registered(d)' <=> Registered(d) /\ channelMap'[fd[d]] = d
         /\ \A d \in Peers : Registered(d)' => fd'[d] = fd[d]
<1> USE OldAssumption DEF ServerInv
<1>1. \A d \in Peers : fd'[d] # 0 => fd'[d] = fd[d] /\ fd[d] \in Fds
  BY DEF TypeOK, Kept
<1>2. OneDescriptor'
  BY <1>1 DEF OneDescriptor, Kept
<1>3. MapsPoint'
  <2>1. ASSUME NEW f \in Fds, connMap'[f] # NULL
        PROVE  connMap'[f] = connMap[f] /\ connMap[f] # NULL
    BY <2>1
  <2>2. ASSUME NEW f \in Fds, channelMap'[f] # NULL
        PROVE  channelMap'[f] = channelMap[f] /\ channelMap[f] # NULL
    BY <2>2
  <2>3. \A f \in Fds : connMap'[f] # NULL => fd'[connMap'[f]] = f
    BY <2>1 DEF MapsPoint, Kept, TypeOK
  <2>4. \A f \in Fds : channelMap'[f] # NULL => fd'[channelMap'[f]] = f
    BY <2>2 DEF MapsPoint, Kept, TypeOK
  <2>5. \A f \in Fds : timerMap[f] # NULL => fd'[timerMap[f].conn] = f
    BY DEF MapsPoint, Kept, TypeOK
  <2> QED
    BY <2>3, <2>4, <2>5 DEF MapsPoint
<1>4. Range(mainQueue') \subseteq Range(mainQueue)
  BY DEF Range
<1>5. HeldIsOpen'
  BY <1>4 DEF HeldIsOpen, Kept
<1>6. \A c \in Range(ioQueue) : c \in Peers /\ fd'[c] = fd[c] /\ fd[c] \in Fds
  <2>1. Range(ioQueue) \subseteq Peers
    BY RangeOfSeq DEF TypeOK
  <2>2. \A c \in Range(ioQueue) : fd[c] # 0 /\ fd'[c] = fd[c]
    BY DEF Kept, HeldIsOpen
  <2> QED
    BY <2>1, <2>2, <1>1
<1>7. \A n \in heap : n.conn \in Peers /\ fd'[n.conn] = fd[n.conn]
  BY DEF Kept, TypeOK, TimerNode
<1>8. OnItsWay'
  <2>1. ASSUME NEW c \in Range(ioQueue)
        PROVE  /\ connMap'[fd[c]] = c /\ channelMap'[fd[c]] # c /\ timerMap[fd[c]] = NULL
               /\ c \notin Range(mainQueue') /\ c \notin ret' /\ c # current'
               /\ \A node \in heap : node.conn # c
    <3>1. c # NULL /\ c \in Peers /\ fd[c] \in Fds
      BY <1>6
    <3>2. channelMap'[fd[c]] # c
      BY <3>1 DEF OnItsWay
    <3> QED
      BY <3>1, <3>2, <1>4 DEF OnItsWay
  <2> QED
    BY <2>1, <1>6 DEF OnItsWay
<1>9. OneNode'
  BY <1>7 DEF OneNode
<1>10. \A d \in Peers : Registered(d)' <=> Registered(d) /\ channelMap'[fd[d]] = d
  <2>1. ASSUME NEW d \in Peers, Registered(d), channelMap'[fd[d]] = d
        PROVE  Registered(d)'
    <3>1. fd[d] \in Fds /\ d # NULL
      BY <2>1 DEF Registered, TypeOK
    <3>2. fd'[d] = fd[d]
      BY <2>1, <3>1 DEF Kept
    <3> QED
      BY <2>1, <3>2 DEF Registered
  <2>2. ASSUME NEW d \in Peers, Registered(d)'
        PROVE  Registered(d) /\ channelMap'[fd[d]] = d
    <3>1. fd'[d] = fd[d] /\ fd[d] \in Fds /\ channelMap'[fd[d]] = d
      BY <2>2, <1>1 DEF Registered
    <3> QED
      BY <3>1 DEF Registered
  <2> QED
    BY <2>1, <2>2
<1>11. \A d \in Peers : Registered(d)' => fd'[d] = fd[d]
  BY <1>1 DEF Registered
<1> QED
  BY <1>2, <1>3, <1>5, <1>8, <1>9, <1>10, <1>11

LEMMA DeleteFromMapKeeps ==
  ASSUME ServerInv, DeleteFromMap
  PROVE  ServerInv'
<1> USE OldAssumption DEF ServerInv
<1>1. /\ connMap' = [f \in Fds |-> IF \E c \in Range(mainQueue) : fd[c] = f
                                   THEN NULL ELSE connMap[f]]
      /\ mainQueue' = <<>> /\ Release
      /\ UNCHANGED <<kind, ioQueue, channelMap, loopVars, timerVars, time,
                     peer, unread, armed, http>>
  BY QueueRange DEF DeleteFromMap, TypeOK, httpVars, ToSet, Range
<1>2. mainQueue' \in Seq(Peers) /\ Range(mainQueue') = {}
  BY <1>1 DEF Range
<1>3. Kept
  BY <1>1, <1>2, ReleaseKeeps DEF TypeOK, loopVars, timerVars
<1>4. TypeOK'
  BY <1>1, <1>2, <1>3 DEF TypeOK, Kept, loopVars, timerVars
<1>5. \A c, d \in Peers : fd[c] # 0 /\ fd[c] = fd[d] => c = d
  BY DEF OneDescriptor
<1>6. Range(mainQueue) \subseteq Peers /\ Range(ioQueue) \subseteq Peers
  BY QueueRange, RangeOfSeq DEF TypeOK
<1>7. \A c \in Range(ioQueue) : connMap'[fd[c]] = c
  BY <1>1, <1>5, <1>6 DEF OnItsWay, HeldIsOpen, TypeOK
<1>8. /\ OneDescriptor' /\ MapsPoint' /\ HeldIsOpen' /\ OnItsWay' /\ OneNode'
      /\ \A d \in Peers : Registered(d)' <=> Registered(d) /\ channelMap'[fd[d]] = d
      /\ \A d \in Peers : Registered(d)' => fd'[d] = fd[d]
  BY <1>1, <1>3, <1>4, <1>7, Shrunk DEF loopVars, timerVars
<1>9. \A d \in Peers : Registered(d) <=> Registered(d)'
  BY <1>1, <1>8 DEF Registered
<1>10. EventsAreOfChannels'
  BY <1>1, <1>9, EventsKept DEF loopVars, EventsAreOfChannels, TypeOK
<1>11. InPollerIsInMap'
  <2>1. ASSUME NEW d \in Peers, Registered(d)', d # current'
        PROVE  connMap'[fd'[d]] = d /\ d \notin Range(mainQueue')
    <3>1. Registered(d) /\ fd'[d] = fd[d] /\ d # current /\ fd[d] # 0
      BY <2>1, <1>1, <1>8 DEF loopVars, Registered
    <3>2. connMap[fd[d]] = d /\ d \notin Range(mainQueue)
      BY <3>1 DEF InPollerIsInMap
    <3> QED
      BY <3>1, <3>2, <1>1, <1>2, <1>5, <1>6 DEF TypeOK
  <2> QED
    BY <2>1 DEF InPollerIsInMap
<1> QED
  BY <1>4, <1>8, <1>10, <1>11

LEMMA RemoveFromPollerKeeps ==
  ASSUME ServerInv, RemoveFromPoller
  PROVE  ServerInv'
<1> USE OldAssumption DEF ServerInv
<1>1. /\ io \in {"closing", "expiring"}
      /\ channelMap' = [channelMap EXCEPT ![fd[current]] = NULL]
      /\ armed' = armed \ {current}
      /\ io' = IF io = "closing" THEN "events" ELSE "timers"
      /\ current' = NULL /\ Release
      /\ UNCHANGED <<kind, connMap, mainQueue, ioQueue, ret, batch, timerVars, time,
                     peer, unread, http>>
  BY DEF RemoveFromPoller, httpVars
<1>2. current \in Peers /\ fd[current] \in Fds
  BY <1>1 DEF EventsAreOfChannels, HeldIsOpen, TypeOK
<1>3. Kept
  BY <1>1, <1>2, ReleaseKeeps DEF TypeOK, timerVars
<1>4. TypeOK'
  BY <1>1, <1>2, <1>3 DEF TypeOK, Kept, timerVars
<1>5. \A c \in Range(ioQueue) : connMap'[fd[c]] = c
  BY <1>1 DEF OnItsWay
<1>6. \A f \in Fds : channelMap'[f] \in {channelMap[f], NULL}
  BY <1>1, <1>2 DEF TypeOK
<1>7. /\ OneDescriptor' /\ MapsPoint' /\ HeldIsOpen' /\ OnItsWay' /\ OneNode'
      /\ \A d \in Peers : Registered(d)' <=> Registered(d) /\ channelMap'[fd[d]] = d
      /\ \A d \in Peers : Registered(d)' => fd'[d] = fd[d]
  BY <1>1, <1>3, <1>4, <1>5, <1>6, Shrunk DEF timerVars
<1>8. \A d \in Peers : Registered(d)' <=> Registered(d) /\ d # current
  BY <1>1, <1>2, <1>7 DEF Registered, TypeOK, OneDescriptor
<1>9. EventsAreOfChannels'
  <2>1. \A e \in batch : e.event # "wakeup" =>
            e.conn \in ret /\ e.conn \in Peers /\ Registered(e.conn) /\ e.conn # current
    BY DEF EventsAreOfChannels, TypeOK
  <2>2. \A c \in armed' : Registered(c)'
    BY <1>1, <1>8 DEF EventsAreOfChannels, TypeOK
  <2>3. io = "expiring" => batch = {}
    BY DEF EventsAreOfChannels
  <2> QED
    BY <1>1, <1>8, <2>1, <2>2, <2>3 DEF EventsAreOfChannels, TypeOK
<1>10. InPollerIsInMap'
  BY <1>1, <1>7, <1>8 DEF InPollerIsInMap
<1> QED
  BY <1>4, <1>7, <1>9, <1>10

LEMMA EndOfEventsKeeps ==
  ASSUME ServerInv, EndOfEvents
  PROVE  ServerInv'
<1> USE OldAssumption DEF ServerInv
<1>1. /\ io = "events" /\ batch = {} /\ io' = "timers" /\ ret' = {} /\ Release
      /\ UNCHANGED <<kind, connMap, channelMap, mainQueue, ioQueue, batch, current, timerVars,
                     time, peer, unread, armed, http>>
  BY DEF EndOfEvents, httpVars, serverVars
<1>2. Kept
  BY <1>1, ReleaseKeeps DEF TypeOK, timerVars
<1>3. TypeOK'
  BY <1>1, <1>2 DEF TypeOK, Kept, timerVars
<1>4. \A c \in Range(ioQueue) : connMap'[fd[c]] = c
  BY <1>1 DEF OnItsWay
<1>5. /\ OneDescriptor' /\ MapsPoint' /\ HeldIsOpen' /\ OnItsWay' /\ OneNode'
      /\ \A d \in Peers : Registered(d)' <=> Registered(d) /\ channelMap'[fd[d]] = d
      /\ \A d \in Peers : Registered(d)' => fd'[d] = fd[d]
  BY <1>1, <1>2, <1>3, <1>4, Shrunk DEF timerVars
<1>6. \A d \in Peers : Registered(d)' <=> Registered(d)
  BY <1>1, <1>5 DEF Registered
<1>7. EventsAreOfChannels'
  BY <1>1, <1>6 DEF EventsAreOfChannels, TypeOK
<1>8. InPollerIsInMap'
  BY <1>1, <1>5, <1>6 DEF InPollerIsInMap
<1> QED
  BY <1>3, <1>5, <1>7, <1>8

LEMMA PollKeeps ==
  ASSUME ServerInv, Poll
  PROVE  ServerInv'
<1> DEFINE ready == IF kind = "http" THEN armed ELSE {c \in Peers : Registered(c)}
           reports == {[conn |-> c, event |-> Event(c)] : c \in ready}
           wakeup == [conn |-> NULL, event |-> "wakeup"]
<1> USE OldAssumption DEF ServerInv
<1>1. /\ io = "poll" /\ io' = "events" /\ ret' = ready /\ armed' = {}
      /\ batch' = reports \cup (IF ioQueue = <<>> THEN {} ELSE {wakeup})
      /\ UNCHANGED <<kind, serverVars, current, timerVars, time, fd, peer, unread, http>>
  BY DEF Poll, httpVars
<1>2. /\ ready \subseteq Peers /\ \A c \in ready : Registered(c) /\ fd[c] # 0
  BY DEF EventsAreOfChannels, TypeOK, Registered
<1>3. \A c \in Peers : /\ Event(c) \in {"in", "out", "hup", "err"}
                       /\ Event(c) \in {"err", "hup"} => peer[c] = "reset"
  BY DEF Event
<1> HIDE DEF ready
<1>4. current = NULL
  BY <1>1 DEF EventsAreOfChannels
<1>5. \A e \in batch' : \/ e = wakeup
                        \/ e.conn \in ready /\ e = [conn |-> e.conn, event |-> Event(e.conn)]
  BY <1>1
<1>6. batch' \subseteq [conn : Peers \cup {NULL}, event : {"in", "out", "hup", "err", "wakeup"}]
  BY <1>2, <1>3, <1>5
<1>7. TypeOK'
  BY <1>1, <1>2, <1>6 DEF TypeOK, serverVars, timerVars
<1>8. OneDescriptor' /\ MapsPoint' /\ OneNode' /\ InPollerIsInMap'
  BY <1>1 DEF OneDescriptor, MapsPoint, OneNode, InPollerIsInMap, Registered, serverVars, timerVars
<1>9. HeldIsOpen'
  BY <1>1, <1>2 DEF HeldIsOpen, serverVars, timerVars
<1>10. OnItsWay'
  <2>1. \A c \in Range(ioQueue) : channelMap[fd[c]] # c
    BY DEF OnItsWay
  <2>2. \A c \in Range(ioQueue) : c \notin ret'
    BY <1>1, <1>2, <2>1 DEF Registered
  <2> QED
    BY <1>1, <2>2 DEF OnItsWay, serverVars, timerVars
<1>11. EventsAreOfChannels'
  <2>1. \A c \in Peers : Registered(c)' <=> Registered(c)
    BY <1>1 DEF Registered, serverVars
  <2>2. \A e \in batch' : IF e.event = "wakeup" THEN e.conn = NULL
                          ELSE e.conn \in ret' /\ Registered(e.conn)' /\ e.conn # current'
    BY <1>1, <1>2, <1>3, <1>4, <1>5, <2>1
  <2>3. \A e1, e2 \in batch' : e1.conn = e2.conn => e1 = e2
    BY <1>2, <1>5
  <2>4. \A e \in batch' : e.event \in {"err", "hup"} => peer'[e.conn] = "reset"
    BY <1>1, <1>2, <1>3, <1>5
  <2> QED
    BY <1>1, <1>4, <2>2, <2>3, <2>4 DEF EventsAreOfChannels
<1> QED
  BY <1>7, <1>8, <1>9, <1>10, <1>11

LEMMA DoPendingFunctorsKeeps ==
  ASSUME ServerInv, NEW e \in batch, DoPendingFunctors(e)
  PROVE  ServerInv'
<1> USE OldAssumption DEF ServerInv
<1>1. /\ io = "events" /\ batch' = batch \ {e}
      /\ channelMap' = [f \in Fds |-> IF \E c \in ToSet(ioQueue) : fd[c] = f
                                      THEN CHOOSE c \in ToSet(ioQueue) : fd[c] = f
                                      ELSE channelMap[f]]
      /\ armed' = armed \cup {c \in ToSet(ioQueue) : Readable(c)}
      /\ ioQueue' = <<>>
      /\ UNCHANGED <<kind, connMap, mainQueue, ret, io, current, timerVars, time,
                     fd, peer, unread, http>>
  BY DEF DoPendingFunctors, Taking, httpVars
<1>2. ToSet(ioQueue) = Range(ioQueue) /\ Range(ioQueue) \subseteq Peers
  BY RangeOfSeq DEF ToSet, Range, TypeOK
<1>3. ioQueue' \in Seq(Peers) /\ Range(ioQueue') = {}
  BY <1>1 DEF Range
<1>4. \A c \in Range(ioQueue) : fd[c] \in Fds /\ channelMap'[fd[c]] = c
  <2>1. ASSUME NEW c \in Range(ioQueue) PROVE fd[c] \in Fds /\ channelMap'[fd[c]] = c
    <3>1. c \in Peers /\ fd[c] # 0 /\ fd[c] \in Fds
      BY <1>2 DEF HeldIsOpen, TypeOK
    <3>2. \A d \in Range(ioQueue) : fd[d] = fd[c] => d = c
      BY <1>2, <3>1 DEF OneDescriptor
    <3> QED
      BY <1>1, <1>2, <3>1, <3>2
  <2> QED
    BY <2>1
<1>5. /\ \A f \in Fds : (\A c \in Range(ioQueue) : fd[c] # f) => channelMap'[f] = channelMap[f]
      /\ \A f \in Fds : channelMap'[f] # NULL => fd[channelMap'[f]] = f
  BY <1>1, <1>2, <1>4 DEF MapsPoint
<1>6. channelMap' \in [Fds -> Peers \cup {NULL}]
  BY <1>1, <1>2, <1>4 DEF TypeOK
<1>7. TypeOK'
  BY <1>1, <1>2, <1>3, <1>6 DEF TypeOK, timerVars
<1>8. OneDescriptor' /\ MapsPoint' /\ HeldIsOpen' /\ OnItsWay' /\ OneNode'
  BY <1>1, <1>3, <1>5 DEF OneDescriptor, MapsPoint, HeldIsOpen, OnItsWay, OneNode, timerVars
<1>9. \A d \in Peers : Registered(d)' <=> Registered(d) \/ d \in Range(ioQueue)
  <2>1. ASSUME NEW d \in Peers, Registered(d) PROVE Registered(d)'
    <3>1. fd[d] \in Fds /\ channelMap[fd[d]] = d
      BY <2>1 DEF Registered, TypeOK
    <3>2. \A c \in Range(ioQueue) : fd[c] = fd[d] => c = d
      BY <1>2, <2>1 DEF OneDescriptor, Registered
    <3>3. channelMap'[fd[d]] = d
      BY <1>4, <1>5, <3>1, <3>2
    <3> QED
      BY <1>1, <2>1, <3>3 DEF Registered
  <2>2. ASSUME NEW d \in Range(ioQueue) PROVE Registered(d)'
    BY <1>1, <1>4 DEF Registered
  <2>3. ASSUME NEW d \in Peers, Registered(d)', d \notin Range(ioQueue) PROVE Registered(d)
    <3>1. fd[d] \in Fds /\ fd[d] # 0 /\ channelMap'[fd[d]] = d
      BY <2>3, <1>1 DEF Registered, TypeOK
    <3>2. \A c \in Range(ioQueue) : fd[c] # fd[d]
      BY <1>4, <2>3, <3>1
    <3> QED
      BY <1>5, <3>1, <3>2 DEF Registered
  <2> QED
    BY <2>1, <2>2, <2>3
<1>10. EventsAreOfChannels'
  <2>1. \A c \in armed' : Registered(c)'
    BY <1>1, <1>2, <1>9 DEF EventsAreOfChannels, TypeOK
  <2>2. \A x \in batch' : IF x.event = "wakeup" THEN x.conn = NULL
                          ELSE x.conn \in ret' /\ Registered(x.conn)' /\ x.conn # current'
    BY <1>1, <1>9 DEF EventsAreOfChannels, TypeOK
  <2> QED
    BY <1>1, <2>1, <2>2 DEF EventsAreOfChannels
<1>11. InPollerIsInMap'
  BY <1>1, <1>9 DEF InPollerIsInMap, OnItsWay
<1> QED
  BY <1>7, <1>8, <1>10, <1>11

LEMMA HandleEventsKeeps ==
  ASSUME ServerInv, NEW e \in batch, HandleEvents(e)
  PROVE  ServerInv'
<1> USE OldAssumption DEF ServerInv
<1>1. /\ io = "events" /\ batch' = batch \ {e}
      /\ UNCHANGED <<kind, connMap, ioQueue, channelMap, ret, timerVars, time,
                     fd, peer, unread, armed, http>>
  BY DEF HandleEvents, Taking, httpVars, netVars
<1>2. current = NULL
  BY <1>1 DEF EventsAreOfChannels
<1>3. \A c \in Peers : Registered(c)' <=> Registered(c)
  BY <1>1 DEF Registered
<1>4. CASE e.event = "hup" /\ HandleClose(e.conn, "closing")
  <2>1. /\ mainQueue' = Append(mainQueue, e.conn)
        /\ io' = "closing" /\ current' = e.conn
    BY <1>4 DEF HandleClose
  <2>2. e.conn \in Peers /\ e.conn \in ret /\ Registered(e.conn) /\ fd[e.conn] # 0
    BY <1>4 DEF EventsAreOfChannels, TypeOK, Registered
  <2>3. mainQueue' \in Seq(Peers) /\ Range(mainQueue') = Range(mainQueue) \cup {e.conn}
    BY <2>1, <2>2, QueueRange DEF TypeOK
  <2>4. TypeOK'
    BY <1>1, <2>1, <2>2, <2>3 DEF TypeOK, timerVars
  <2>5. OneDescriptor' /\ MapsPoint' /\ OneNode'
    BY <1>1 DEF OneDescriptor, MapsPoint, OneNode, timerVars
  <2>6. HeldIsOpen' /\ OnItsWay'
    BY <1>1, <2>1, <2>2, <2>3 DEF HeldIsOpen, OnItsWay, timerVars
  <2>7. EventsAreOfChannels'
    BY <1>1, <1>3, <2>1, <2>2 DEF EventsAreOfChannels, TypeOK
  <2>8. InPollerIsInMap'
    BY <1>1, <1>2, <1>3, <2>1, <2>2, <2>3 DEF InPollerIsInMap
  <2> QED
    BY <2>4, <2>5, <2>6, <2>7, <2>8
<1>5. CASE UNCHANGED <<mainQueue, io, current>>
  <2>1. TypeOK' /\ OneDescriptor' /\ MapsPoint' /\ HeldIsOpen' /\ OnItsWay' /\ OneNode'
    BY <1>1, <1>5 DEF TypeOK, OneDescriptor, MapsPoint, HeldIsOpen, OnItsWay, OneNode, timerVars
  <2>2. EventsAreOfChannels' /\ InPollerIsInMap'
    BY <1>1, <1>5, <1>3 DEF EventsAreOfChannels, InPollerIsInMap, TypeOK
  <2> QED
    BY <2>1, <2>2
<1> QED
  BY <1>4, <1>5 DEF HandleEvents

\* addTimer for a channel whose events are being handled.
LEMMA AddTimerKeeps ==
  ASSUME ServerInv, NEW c \in Peers, fd[c] \in Fds, c \notin Range(ioQueue),
         NEW timeout \in Nat, NEW n \in Nat \ {0}, AddTimer(c, timeout, n)
  PROVE  /\ timerMap' \in [Fds -> TimerNode \cup {NULL}] /\ heap' \subseteq TimerNode
         /\ first' \subseteq Peers /\ made' \in [Peers -> Nat] /\ due' \in [Peers -> Nat]
         /\ \A f \in Fds : timerMap'[f] # NULL /\ f # fd[c] => timerMap'[f] = timerMap[f]
         /\ timerMap'[fd[c]] # NULL /\ timerMap'[fd[c]].conn = c
         /\ timerMap'[fd[c]].exp = Clock + timeout
         /\ \A f \in Fds : f # fd[c] => timerMap'[f] = timerMap[f]
         /\ \A m, k \in heap' : m.conn = k.conn => m = k
         /\ \A k \in heap' : k.conn \notin first' /\ (k \in heap \/ k.conn = c)
<1> DEFINE Node(i) == [conn |-> c, id |-> made[c] + i, exp |-> Clock + timeout]
<1> USE OldAssumption DEF ServerInv
<1>1. /\ heap' = IF c \in first THEN heap \cup {Node(1)} ELSE heap
      /\ first' = first \ {c}
      /\ timerMap' = [timerMap EXCEPT ![fd[c]] = Node(n)]
      /\ made' = [made EXCEPT ![c] = @ + n]
      /\ due' = [due EXCEPT ![c] = time + timeout]
  BY DEF AddTimer
<1>2. /\ made[c] \in Nat /\ time \in Nat /\ Clock \in Nat
      /\ time + timeout \in Nat /\ made[c] + n \in Nat
  BY DEF TypeOK, Clock
<1>3. \A i \in Nat : /\ Node(i) \in TimerNode /\ Node(i) # NULL
                     /\ Node(i).conn = c /\ Node(i).exp = Clock + timeout
  BY <1>2 DEF TimerNode
<1>4. \A k \in heap : k.conn \in Peers /\ k.conn \notin first
  BY DEF OneNode, TypeOK, TimerNode
<1>5. Node(1) \in TimerNode /\ Node(1).conn = c /\ Node(n) \in TimerNode
      /\ Node(n) # NULL /\ Node(n).conn = c /\ Node(n).exp = Clock + timeout
  BY <1>3
<1> HIDE DEF Node
<1>6. \A m, k \in heap' : m.conn = k.conn => m = k
  BY <1>1, <1>4, <1>5 DEF OneNode
<1>7. \A k \in heap' : k.conn \notin first' /\ (k \in heap \/ k.conn = c)
  BY <1>1, <1>4, <1>5
<1> QED
  BY <1>1, <1>2, <1>5, <1>6, <1>7 DEF TypeOK

\* A handler that leaves the tables alone, and sets a timer or none.
LEMMA HandlerKeeps ==
  ASSUME ServerInv, NEW e \in batch, Taking(e), e.event \in {"in", "out"},
         UNCHANGED <<kind, serverVars, ret, io, current, time, fd, peer>>,
         DOMAIN unread' = Peers, DOMAIN http' = Peers,
         \A c \in armed' : c \in armed \/ c = e.conn, deleted' \subseteq Peers,
         \/ NoTimer
         \/ \E timeout \in Nat, n \in Nat \ {0} : AddTimer(e.conn, timeout, n)
  PROVE  ServerInv'
<1> USE OldAssumption DEF ServerInv
<1> DEFINE c == e.conn
<1>1. /\ c \in Peers /\ c \in ret /\ Registered(c)
      /\ fd[c] \in Fds /\ channelMap[fd[c]] = c /\ c \notin Range(ioQueue)
  BY DEF EventsAreOfChannels, TypeOK, Registered, OnItsWay
<1>2. /\ timerMap' \in [Fds -> TimerNode \cup {NULL}] /\ heap' \subseteq TimerNode
      /\ first' \subseteq Peers /\ made' \in [Peers -> Nat] /\ due' \in [Peers -> Nat]
      /\ \A f \in Fds : timerMap'[f] = timerMap[f] \/ f = fd[c]
      /\ \A f \in Fds : timerMap'[f] # NULL => fd[timerMap'[f].conn] = f
      /\ \A f \in Fds : timerMap[f] # NULL => timerMap'[f] # NULL
      /\ \A m, k \in heap' : m.conn = k.conn => m = k
      /\ \A k \in heap' : k.conn \notin first' /\ (k \in heap \/ k.conn = c)
      /\ \A k \in heap' : timerMap'[fd[k.conn]] # NULL /\ fd[k.conn] # 0
  <2>1. CASE NoTimer
    BY <2>1, <1>1 DEF NoTimer, TypeOK, MapsPoint, OneNode, HeldIsOpen
  <2>2. CASE \E timeout \in Nat, n \in Nat \ {0} : AddTimer(c, timeout, n)
    <3>1. PICK timeout \in Nat, n \in Nat \ {0} : AddTimer(c, timeout, n)
      BY <2>2
    <3> HIDE DEF c
    <3>2. /\ timerMap' \in [Fds -> TimerNode \cup {NULL}] /\ heap' \subseteq TimerNode
          /\ first' \subseteq Peers /\ made' \in [Peers -> Nat] /\ due' \in [Peers -> Nat]
          /\ timerMap'[fd[c]] # NULL /\ timerMap'[fd[c]].conn = c
          /\ \A f \in Fds : f # fd[c] => timerMap'[f] = timerMap[f]
          /\ \A m, k \in heap' : m.conn = k.conn => m = k
          /\ \A k \in heap' : k.conn \notin first' /\ (k \in heap \/ k.conn = c)
      BY <1>1, <3>1, AddTimerKeeps
    <3>3. \A f \in Fds : timerMap'[f] # NULL => fd[timerMap'[f].conn] = f
      BY <3>2 DEF MapsPoint
    <3>4. \A k \in heap : fd[k.conn] \in Fds /\ timerMap[fd[k.conn]] # NULL
      BY DEF OneNode, HeldIsOpen, TypeOK, TimerNode
    <3>5. \A f \in Fds : timerMap[f] # NULL => timerMap'[f] # NULL
      BY <3>2
    <3>6. \A k \in heap' : timerMap'[fd[k.conn]] # NULL /\ fd[k.conn] # 0
      BY <3>2, <3>4, <3>5, <1>1
    <3> QED
      BY <3>2, <3>3, <3>5, <3>6
  <2> QED
    BY <2>1, <2>2
<1>3. batch' = batch \ {e} /\ batch' \subseteq batch /\ armed' \subseteq Peers
  BY <1>1 DEF Taking, TypeOK
<1>4. TypeOK'
  BY <1>2, <1>3 DEF TypeOK, serverVars
<1>5. OneDescriptor' /\ MapsPoint' /\ OneNode'
  BY <1>2 DEF OneDescriptor, MapsPoint, OneNode, serverVars
<1>6. HeldIsOpen'
  BY <1>2 DEF HeldIsOpen, serverVars
<1>7. OnItsWay'
  <2>1. \A d \in Range(ioQueue) : d \in Peers /\ fd[d] \in Fds /\ d # c /\ fd[d] # fd[c]
    <3>1. \A d \in Range(ioQueue) : d \in Peers /\ fd[d] # 0
      BY RangeOfSeq DEF TypeOK, HeldIsOpen
    <3> QED
      BY <3>1, <1>1 DEF OneDescriptor, TypeOK
  <2>2. \A d \in Range(ioQueue) : timerMap'[fd[d]] = NULL
    BY <2>1, <1>2 DEF OnItsWay
  <2>3. \A d \in Range(ioQueue) : \A k \in heap' : k.conn # d
    BY <2>1, <1>2 DEF OnItsWay
  <2> QED
    BY <2>2, <2>3 DEF OnItsWay, serverVars
<1>8. \A d \in Peers : Registered(d)' <=> Registered(d)
  BY DEF Registered, serverVars
<1>9. EventsAreOfChannels'
  <2>1. \A d \in armed' : Registered(d)'
    BY <1>1, <1>8 DEF EventsAreOfChannels, TypeOK
  <2>2. \A x \in batch' : IF x.event = "wakeup" THEN x.conn = NULL
                          ELSE x.conn \in ret' /\ Registered(x.conn)' /\ x.conn # current'
    BY <1>3, <1>8 DEF EventsAreOfChannels, TypeOK
  <2> QED
    BY <1>3, <2>1, <2>2 DEF EventsAreOfChannels
<1>10. InPollerIsInMap'
  BY <1>8 DEF InPollerIsInMap, serverVars
<1> QED
  BY <1>4, <1>5, <1>6, <1>7, <1>9, <1>10

LEMMA HttpHandleReadKeeps ==
  ASSUME ServerInv, NEW e \in batch, HttpHandleRead(e)
  PROVE  ServerInv'
<1> USE OldAssumption DEF ServerInv
<1>1. /\ Taking(e) /\ e.event = "in"
      /\ UNCHANGED <<kind, serverVars, ret, io, current, time, fd, peer>>
      /\ deleted' = deleted \cup {e.conn} \/ deleted' = deleted
      /\ armed' = armed \cup {e.conn} \/ armed' = armed
      /\ NoTimer \/ AddTimer(e.conn, ExpiredTime, 1)
  BY DEF HttpHandleRead
<1>2. DOMAIN http' = Peers /\ DOMAIN unread' = Peers
  <2>1. DOMAIN http' = DOMAIN http
    BY DEF HttpHandleRead, HttpRead
  <2>2. DOMAIN unread' = DOMAIN unread
    BY DEF HttpHandleRead
  <2> QED
    BY <2>1, <2>2 DEF TypeOK
<1>3. e.conn \in Peers
  BY <1>1 DEF EventsAreOfChannels, TypeOK
<1>4. \A c \in armed' : c \in armed \/ c = e.conn
  BY <1>1
<1>5. deleted' \subseteq Peers
  BY <1>1, <1>3 DEF TypeOK
<1>6. \/ NoTimer
      \/ \E timeout \in Nat, n \in Nat \ {0} : AddTimer(e.conn, timeout, n)
  BY <1>1
<1> QED
  BY <1>1, <1>2, <1>4, <1>5, <1>6, HandlerKeeps

LEMMA HttpHandleWriteKeeps ==
  ASSUME ServerInv, NEW e \in batch, HttpHandleWrite(e)
  PROVE  ServerInv'
<1> USE OldAssumption DEF ServerInv
<1>1. /\ Taking(e) /\ e.event = "out"
      /\ UNCHANGED <<kind, serverVars, ret, io, current, time, fd, peer, deleted, unread>>
      /\ armed' = armed \cup {e.conn} \/ armed' = armed
  BY DEF HttpHandleWrite, UpdatePoller
<1>2. DOMAIN http' = Peers
  <2>1. DOMAIN http' = DOMAIN http
    BY DEF HttpHandleWrite, HandleSuccess, HandleError
  <2> QED
    BY <2>1 DEF TypeOK
<1>3. NoTimer \/ AddTimer(e.conn, KeepAliveTime, 1) \/ AddTimer(e.conn, ExpiredTime, 1)
  BY DEF HttpHandleWrite
<1>4. \/ NoTimer
      \/ \E timeout \in Nat, n \in Nat \ {0} : AddTimer(e.conn, timeout, n)
  BY <1>3
<1>5. DOMAIN unread' = Peers /\ deleted' \subseteq Peers
  BY <1>1 DEF TypeOK
<1>6. \A c \in armed' : c \in armed \/ c = e.conn
  BY <1>1
<1> QED
  BY <1>1, <1>2, <1>4, <1>5, <1>6, HandlerKeeps

LEMMA FtpHandleReadKeeps ==
  ASSUME ServerInv, NEW e \in batch, FtpHandleRead(e)
  PROVE  ServerInv'
<1> USE OldAssumption DEF ServerInv
<1>1. /\ Taking(e) /\ e.event = "in"
      /\ UNCHANGED <<kind, serverVars, ret, io, current, time, fd, peer, armed, http>>
      /\ unread' = [unread EXCEPT ![e.conn] = <<>>]
      /\ deleted' = deleted \cup {e.conn} \/ deleted' = deleted
      /\ NoTimer \/ AddTimer(e.conn, 0, 1) \/ AddTimer(e.conn, 0, 2)
  BY DEF FtpHandleRead, httpVars
<1>2. DOMAIN http' = Peers /\ DOMAIN unread' = Peers
  BY <1>1 DEF TypeOK
<1>3. e.conn \in Peers
  BY <1>1 DEF EventsAreOfChannels, TypeOK
<1>4. deleted' \subseteq Peers
  BY <1>1, <1>3 DEF TypeOK
<1>5. \/ NoTimer
      \/ \E timeout \in Nat, n \in Nat \ {0} : AddTimer(e.conn, timeout, n)
  BY <1>1
<1> QED
  BY <1>1, <1>2, <1>4, <1>5, HandlerKeeps

\* A node that is not the latest is put back as the latest; the latest closes
\* its connection.
LEMMA HandleExpiredEventKeeps ==
  ASSUME ServerInv, HandleExpiredEvent
  PROVE  ServerInv'
<1> USE OldAssumption DEF ServerInv
<1>1. /\ io = "timers"
      /\ UNCHANGED <<kind, connMap, ioQueue, channelMap, ret, batch, deleted, first,
                     made, due, time, fd, peer, unread, armed, http>>
  BY DEF HandleExpiredEvent, netVars, httpVars
<1>2. current = NULL /\ batch = {}
  BY <1>1 DEF EventsAreOfChannels
<1>3. \A c \in Peers : Registered(c)' <=> Registered(c)
  BY <1>1 DEF Registered
<1>4. ASSUME NEW node \in heap, Latest(node), heap' = heap \ {node},
             timerMap' = [timerMap EXCEPT ![fd[node.conn]] = NULL],
             HandleClose(node.conn, "expiring")
      PROVE  ServerInv'
  <2>1. /\ mainQueue' = Append(mainQueue, node.conn)
        /\ io' = "expiring" /\ current' = node.conn
    BY <1>4 DEF HandleClose
  <2>2. node.conn \in Peers /\ fd[node.conn] \in Fds /\ node.conn \notin Range(ioQueue)
    BY DEF TypeOK, TimerNode, HeldIsOpen, OnItsWay
  <2>3. mainQueue' \in Seq(Peers) /\ Range(mainQueue') = Range(mainQueue) \cup {node.conn}
    BY <2>1, <2>2, QueueRange DEF TypeOK
  <2>4. timerMap' \in [Fds -> TimerNode \cup {NULL}] /\ heap' \subseteq heap
        /\ \A f \in Fds : timerMap'[f] = IF f = fd[node.conn] THEN NULL ELSE timerMap[f]
    BY <1>4, <2>2 DEF TypeOK
  <2>5. TypeOK'
    BY <1>1, <2>1, <2>2, <2>3, <2>4 DEF TypeOK
  <2>6. OneDescriptor' /\ MapsPoint' /\ HeldIsOpen'
    BY <1>1, <2>1, <2>2, <2>3, <2>4 DEF OneDescriptor, MapsPoint, HeldIsOpen
  <2>7. OnItsWay'
    <3>1. \A d \in Range(ioQueue) : fd[d] \in Fds
      BY RangeOfSeq DEF TypeOK, HeldIsOpen
    <3>2. \A d \in Range(ioQueue) : timerMap'[fd[d]] = NULL
      BY <3>1, <2>4 DEF OnItsWay
    <3> QED
      BY <1>1, <2>1, <2>2, <2>3, <2>4, <3>2 DEF OnItsWay
  <2>8. OneNode'
    <3>1. \A k \in heap' : k.conn \in Peers /\ fd[k.conn] \in Fds /\ k.conn # node.conn
      BY <1>4 DEF OneNode, HeldIsOpen, TypeOK, TimerNode
    <3>2. \A k \in heap' : fd[k.conn] # fd[node.conn]
      BY <3>1, <2>2 DEF OneDescriptor
    <3>3. \A k \in heap' : timerMap'[fd[k.conn]] # NULL
      BY <3>1, <3>2, <2>4 DEF OneNode
    <3> QED
      BY <1>1, <2>4, <3>3 DEF OneNode
  <2>9. EventsAreOfChannels'
    BY <1>1, <1>2, <1>3, <2>1, <2>2 DEF EventsAreOfChannels, TypeOK
  <2>10. InPollerIsInMap'
    BY <1>1, <1>2, <1>3, <2>1, <2>2, <2>3 DEF InPollerIsInMap
  <2> QED
    BY <2>5, <2>6, <2>7, <2>8, <2>9, <2>10
<1>5. ASSUME NEW node \in heap,
             heap' = (heap \ {node}) \cup {timerMap[fd[node.conn]]},
             UNCHANGED <<timerMap, mainQueue, io, current>>
      PROVE  ServerInv'
  <2> DEFINE latest == timerMap[fd[node.conn]]
  <2>1. node.conn \in Peers /\ fd[node.conn] \in Fds /\ node.conn \notin first
    BY DEF TypeOK, TimerNode, HeldIsOpen, OneNode
  <2>2. latest \in TimerNode /\ latest # NULL /\ latest.conn \in Peers
        /\ fd[latest.conn] = fd[node.conn]
    BY <2>1 DEF OneNode, TypeOK, MapsPoint, TimerNode
  <2>3. latest.conn = node.conn
    BY <2>1, <2>2 DEF OneDescriptor
  <2> HIDE DEF latest
  <2>4. heap' = (heap \ {node}) \cup {latest}
    BY <1>5 DEF latest
  <2>5. TypeOK'
    BY <1>1, <1>5, <2>2, <2>4 DEF TypeOK
  <2>6. OneDescriptor' /\ MapsPoint'
    BY <1>1, <1>5 DEF OneDescriptor, MapsPoint
  <2>7. HeldIsOpen'
    BY <1>1, <1>5, <2>1, <2>3, <2>4 DEF HeldIsOpen
  <2>8. OnItsWay'
    <3>1. \A d \in Range(ioQueue) : \A k \in heap' : k.conn # d
      BY <2>3, <2>4 DEF OnItsWay
    <3> QED
      BY <1>1, <1>5, <3>1 DEF OnItsWay
  <2>9. OneNode'
    <3>1. \A m, k \in heap' : m.conn = k.conn => m = k
      BY <2>3, <2>4 DEF OneNode
    <3>2. \A k \in heap' : timerMap[fd[k.conn]] # NULL /\ k.conn \notin first
      BY <2>1, <2>3, <2>4 DEF OneNode
    <3> QED
      BY <1>1, <1>5, <3>1, <3>2 DEF OneNode
  <2>10. EventsAreOfChannels' /\ InPollerIsInMap'
    BY <1>1, <1>3, <1>5 DEF EventsAreOfChannels, InPollerIsInMap, TypeOK
  <2> QED
    BY <2>5, <2>6, <2>7, <2>8, <2>9, <2>10
<1>6. ASSUME io' = "poll", UNCHANGED <<heap, timerMap, mainQueue, current>>
      PROVE  ServerInv'
  <2>1. TypeOK' /\ OneDescriptor' /\ MapsPoint' /\ HeldIsOpen' /\ OnItsWay' /\ OneNode'
    BY <1>1, <1>6 DEF TypeOK, OneDescriptor, MapsPoint, HeldIsOpen, OnItsWay, OneNode
  <2>2. EventsAreOfChannels' /\ InPollerIsInMap'
    BY <1>1, <1>2, <1>3, <1>6 DEF EventsAreOfChannels, InPollerIsInMap, TypeOK
  <2> QED
    BY <2>1, <2>2
<1> QED
  BY <1>4, <1>5, <1>6 DEF HandleExpiredEvent

\* The network, the clock: nothing that the server keeps.
LEMMA OutsideKeeps ==
  ASSUME ServerInv, UNCHANGED <<kind, serverVars, loopVars, timerVars, fd, http>>,
         time' \in Nat, peer' \in [Peers -> {"new", "open", "shut", "reset"}],
         \A c \in Peers : peer'[c] = "new" => peer[c] = "new",
         \A c \in Peers : peer[c] = "reset" => peer'[c] = "reset",
         DOMAIN unread' = Peers,
         armed' \subseteq Peers, \A c \in armed' : c \in armed \/ Registered(c)
  PROVE  ServerInv'
<1> USE OldAssumption DEF ServerInv
<1>1. TypeOK'
  BY DEF TypeOK, serverVars, loopVars, timerVars
<1>2. OneDescriptor' /\ MapsPoint' /\ HeldIsOpen' /\ OnItsWay' /\ OneNode'
  BY DEF OneDescriptor, MapsPoint, HeldIsOpen, OnItsWay, OneNode,
         serverVars, loopVars, timerVars
<1>3. \A c \in Peers : Registered(c)' <=> Registered(c)
  BY DEF Registered, serverVars
<1>4. EventsAreOfChannels'
  BY <1>3, EventsKept DEF EventsAreOfChannels, loopVars
<1>5. InPollerIsInMap'
  BY <1>3 DEF InPollerIsInMap, serverVars, loopVars
<1> QED
  BY <1>1, <1>2, <1>4, <1>5

LEMMA ArrivesKeeps ==
  ASSUME ServerInv, NEW c \in Peers, NEW messages, Arrives(c, messages)
  PROVE  ServerInv'
<1>1. /\ UNCHANGED <<kind, serverVars, loopVars, timerVars, time, fd, peer, http>>
      /\ unread' = [unread EXCEPT ![c] = @ \o messages]
      /\ armed' = armed \/ (armed' = armed \cup {c} /\ Registered(c))
  BY DEF Arrives, httpVars
<1>2. TypeOK
  BY DEF ServerInv
<1> QED
  BY <1>1, <1>2, OutsideKeeps DEF TypeOK

LEMMA LeaveKeeps ==
  ASSUME ServerInv, NEW c \in Peers, Leave(c)
  PROVE  ServerInv'
<1>1. /\ UNCHANGED <<kind, serverVars, loopVars, timerVars, time, fd, unread, http>>
      /\ peer[c] \in {"open", "shut"}
      /\ \/ peer' = [peer EXCEPT ![c] = "shut"] /\ peer[c] = "open"
         \/ peer' = [peer EXCEPT ![c] = "reset"]
      /\ armed' = armed \/ (armed' = armed \cup {c} /\ Registered(c))
  BY DEF Leave, httpVars
<1>2. TypeOK
  BY DEF ServerInv
<1> QED
  BY <1>1, <1>2, OutsideKeeps DEF TypeOK

LEMMA TickKeeps ==
  ASSUME ServerInv, Tick
  PROVE  ServerInv'
<1>1. /\ UNCHANGED <<kind, serverVars, loopVars, timerVars, fd, http, peer, unread, armed>>
      /\ time' = time + 1
  BY DEF Tick, netVars, httpVars
<1>2. TypeOK
  BY DEF ServerInv
<1> QED
  BY <1>1, <1>2, OutsideKeeps DEF TypeOK

LEMMA StepKeeps == ServerInv /\ [Next]_vars => ServerInv'
<1> SUFFICES ASSUME ServerInv, [Next]_vars PROVE ServerInv'
  OBVIOUS
<1>1. ASSUME NEW c \in Peers, HandleNewConn(c) PROVE ServerInv'
  BY <1>1, HandleNewConnKeeps
<1>2. ASSUME NEW c \in Peers, HttpSend(c) PROVE ServerInv'
  <2>1. PICK messages : Arrives(c, messages)
    BY <1>2 DEF HttpSend
  <2> QED
    BY <2>1, ArrivesKeeps
<1>3. ASSUME NEW c \in Peers, FtpSend(c) PROVE ServerInv'
  <2>1. PICK message \in FtpSends[c] : Arrives(c, <<message>>)
    BY <1>3 DEF FtpSend
  <2> QED
    BY <2>1, ArrivesKeeps
<1>4. ASSUME NEW c \in Peers, Leave(c) PROVE ServerInv'
  BY <1>4, LeaveKeeps
<1>5. ASSUME NEW e \in batch,
             \/ DoPendingFunctors(e) \/ HandleEvents(e)
             \/ HttpHandleRead(e) \/ HttpHandleWrite(e) \/ FtpHandleRead(e)
      PROVE  ServerInv'
  BY <1>5, DoPendingFunctorsKeeps, HandleEventsKeeps, HttpHandleReadKeeps,
     HttpHandleWriteKeeps, FtpHandleReadKeeps
<1>6. ASSUME \/ DeleteFromMap \/ Poll \/ EndOfEvents \/ RemoveFromPoller
             \/ HandleExpiredEvent \/ Tick
      PROVE  ServerInv'
  BY <1>6, DeleteFromMapKeeps, PollKeeps, EndOfEventsKeeps, RemoveFromPollerKeeps,
     HandleExpiredEventKeeps, TickKeeps
<1>7. CASE UNCHANGED vars
  <2>1. /\ UNCHANGED <<kind, serverVars, loopVars, timerVars, fd, http, peer, unread, armed, time>>
    BY <1>7 DEF vars, netVars, httpVars
  <2> QED
    BY <2>1, OutsideKeeps DEF ServerInv, TypeOK
<1> QED
  BY <1>1, <1>2, <1>3, <1>4, <1>5, <1>6, <1>7 DEF Next

LEMMA ServerInvHolds == Spec => []ServerInv
<1>1. ServerInv /\ [Next]_vars => ServerInv'
  BY StepKeeps
<1> QED
  BY InitHolds, <1>1, PTL DEF Spec

-----------------------------------------------------------------------------
\* The tables of the server and the places of its loops are what they should be,
\* as long as it runs.
THEOREM TypeCorrect == Spec => []TypeOK
<1>1. ServerInv => TypeOK
  BY DEF ServerInv
<1> QED
  BY <1>1, ServerInvHolds, PTL

\* A handler is a bind of a bare this: httpConnection and ftpConnection live as
\* long as the map of the main loop holds them.  Whatever that loop deletes, and
\* whatever timers expire, a handler about to run is of a connection it holds.
THEOREM HandlersAreAlive == Spec => []HandlerIsAlive
<1>1. ServerInv => HandlerIsAlive
  <2> SUFFICES ASSUME ServerInv, NEW e \in batch, e.event \in {"in", "out"}
               PROVE  connMap[fd[e.conn]] = e.conn
    BY DEF HandlerIsAlive
  <2>1. e.conn \in Peers /\ Registered(e.conn) /\ e.conn # current
    BY DEF ServerInv, EventsAreOfChannels, TypeOK
  <2> QED
    BY <2>1 DEF ServerInv, InPollerIsInMap
<1> QED
  BY <1>1, ServerInvHolds, PTL

-----------------------------------------------------------------------------
(* The timers reckon in a clock that starts again every Wrap.              *)

\* When the turn of the clock began that t is in.
TurnOf(t) == t - (t % Wrap)

LEMMA TurnsInOrder ==
  ASSUME NEW t \in Nat, NEW u \in Nat, t <= u
  PROVE  /\ TurnOf(t) \in Int /\ TurnOf(t) <= TurnOf(u)
         /\ TurnOf(u) + (u % Wrap) = u /\ u % Wrap \in Nat
<1> DEFINE p == t \div Wrap
           q == u \div Wrap
<1>1. /\ p \in Int /\ q \in Int /\ t % Wrap \in Nat /\ u % Wrap \in Nat
      /\ t = Wrap * p + (t % Wrap) /\ u = Wrap * q + (u % Wrap)
      /\ t % Wrap < Wrap /\ u % Wrap < Wrap /\ Wrap \in Nat \ {0}
  BY OldAssumption
<1> HIDE DEF p, q
<1>2. CASE p <= q
  <2>1. Wrap * p <= Wrap * q
    BY <1>1, <1>2
  <2> QED
    BY <1>1, <2>1 DEF TurnOf
<1>3. CASE q + 1 <= p
  <2>1. Wrap * (q + 1) <= Wrap * p /\ Wrap * (q + 1) = Wrap * q + Wrap
    BY <1>1, <1>3
  <2> QED
    BY <1>1, <2>1
<1> QED
  BY <1>1, <1>2, <1>3

\* The latest node of a channel stands for the time its channel is due: it was
\* made in some turn of the clock up to now, and reckons from the turn's start.
NodesTellWhenDue ==
    \A f \in Fds : timerMap[f] # NULL =>
        \E t \in 0 .. time : due[timerMap[f].conn] = timerMap[f].exp + TurnOf(t)

LEMMA AddTimerTells ==
  ASSUME ServerInv, NodesTellWhenDue, NEW c \in Peers, fd[c] \in Fds, c \notin Range(ioQueue),
         NEW timeout \in Nat, NEW n \in Nat \ {0}, AddTimer(c, timeout, n), time' = time
  PROVE  NodesTellWhenDue'
<1> USE OldAssumption
<1>1. /\ timerMap'[fd[c]] # NULL /\ timerMap'[fd[c]].conn = c
      /\ timerMap'[fd[c]].exp = Clock + timeout
      /\ \A f \in Fds : f # fd[c] => timerMap'[f] = timerMap[f]
  BY AddTimerKeeps
<1>2. due' = [due EXCEPT ![c] = time + timeout] /\ due \in [Peers -> Nat] /\ time \in Nat
  BY DEF AddTimer, ServerInv, TypeOK
<1>3. ASSUME NEW f \in Fds, timerMap'[f] # NULL
      PROVE  \E t \in 0 .. time : due'[timerMap'[f].conn] = timerMap'[f].exp + TurnOf(t)
  <2>1. CASE f = fd[c]
    <3>1. TurnOf(time) + (time % Wrap) = time /\ time % Wrap \in Nat /\ TurnOf(time) \in Int
      BY <1>2, TurnsInOrder
    <3>2. due'[c] = (time % Wrap) + timeout + TurnOf(time)
      BY <3>1, <1>2
    <3> QED
      BY <2>1, <1>1, <1>2, <3>2 DEF Clock
  <2>2. CASE f # fd[c]
    <3>1. timerMap'[f] = timerMap[f] /\ timerMap[f].conn \in Peers /\ fd[timerMap[f].conn] = f
      BY <2>2, <1>1, <1>3 DEF ServerInv, MapsPoint, TypeOK, TimerNode
    <3>2. due'[timerMap[f].conn] = due[timerMap[f].conn]
      BY <2>2, <3>1, <1>2
    <3> QED
      BY <1>3, <3>1, <3>2 DEF NodesTellWhenDue
  <2> QED
    BY <2>1, <2>2
<1> QED
  BY <1>2, <1>3 DEF NodesTellWhenDue

LEMMA NodesTellStep ==
  ASSUME ServerInv, ServerInv', NodesTellWhenDue, [Next]_vars
  PROVE  NodesTellWhenDue'
<1>1. ASSUME timerMap' = timerMap, due' = due, time' \in {time, time + 1}
      PROVE  NodesTellWhenDue'
  <2>1. ASSUME NEW f \in Fds, timerMap[f] # NULL
        PROVE  \E t \in 0 .. time' : due[timerMap[f].conn] = timerMap[f].exp + TurnOf(t)
    <3>1. PICK t \in 0 .. time : due[timerMap[f].conn] = timerMap[f].exp + TurnOf(t)
      BY <2>1 DEF NodesTellWhenDue
    <3>2. t \in 0 .. time'
      BY <1>1 DEF ServerInv, TypeOK
    <3> QED
      BY <3>1, <3>2
  <2> QED
    BY <1>1, <2>1 DEF NodesTellWhenDue
<1>2. ASSUME NEW e \in batch, e.event \in {"in", "out"}, time' = time,
             \/ NoTimer
             \/ \E timeout \in Nat, n \in Nat \ {0} : AddTimer(e.conn, timeout, n)
      PROVE  NodesTellWhenDue'
  <2>1. e.conn \in Peers /\ fd[e.conn] \in Fds /\ e.conn \notin Range(ioQueue)
    BY <1>2 DEF ServerInv, EventsAreOfChannels, TypeOK, Registered, OnItsWay
  <2> QED
    BY <1>1, <1>2, <2>1, AddTimerTells DEF NoTimer
<1>3. ASSUME NEW e \in batch, HttpHandleRead(e) PROVE NodesTellWhenDue'
  <2>1. /\ time' = time /\ e.event = "in"
        /\ NoTimer \/ AddTimer(e.conn, ExpiredTime, 1)
    BY <1>3 DEF HttpHandleRead
  <2> QED
    BY <2>1, <1>2, OldAssumption
<1>4. ASSUME NEW e \in batch, HttpHandleWrite(e) PROVE NodesTellWhenDue'
  <2>1. /\ time' = time /\ e.event = "out"
        /\ NoTimer \/ AddTimer(e.conn, KeepAliveTime, 1) \/ AddTimer(e.conn, ExpiredTime, 1)
    BY <1>4 DEF HttpHandleWrite
  <2> QED
    BY <2>1, <1>2, OldAssumption
<1>5. ASSUME NEW e \in batch, FtpHandleRead(e) PROVE NodesTellWhenDue'
  <2>1. /\ time' = time /\ e.event = "in"
        /\ NoTimer \/ AddTimer(e.conn, 0, 1) \/ AddTimer(e.conn, 0, 2)
    BY <1>5 DEF FtpHandleRead
  <2> QED
    BY <2>1, <1>2
<1>6. ASSUME HandleExpiredEvent PROVE NodesTellWhenDue'
  <2>1. /\ due' = due /\ time' = time
        /\ \/ \E node \in heap : timerMap' = [timerMap EXCEPT ![fd[node.conn]] = NULL]
           \/ timerMap' = timerMap
    BY <1>6 DEF HandleExpiredEvent
  <2>2. \A f \in Fds : timerMap'[f] # NULL => timerMap'[f] = timerMap[f]
    BY <2>1 DEF ServerInv, TypeOK
  <2> QED
    BY <2>1, <2>2 DEF NodesTellWhenDue
<1>7. ASSUME NEW c \in Peers, HandleNewConn(c) \/ HttpSend(c) \/ FtpSend(c) \/ Leave(c)
      PROVE  NodesTellWhenDue'
  BY <1>7, <1>1 DEF HandleNewConn, HttpSend, FtpSend, Arrives, Leave, timerVars
<1>8. ASSUME NEW e \in batch, DoPendingFunctors(e) \/ HandleEvents(e) PROVE NodesTellWhenDue'
  BY <1>8, <1>1 DEF DoPendingFunctors, HandleEvents, timerVars
<1>9. ASSUME \/ DeleteFromMap \/ Poll \/ EndOfEvents \/ RemoveFromPoller \/ Tick
             \/ UNCHANGED vars
      PROVE  NodesTellWhenDue'
  BY <1>9, <1>1 DEF DeleteFromMap, Poll, EndOfEvents, RemoveFromPoller, Tick, vars, timerVars
<1> QED
  BY <1>3, <1>4, <1>5, <1>6, <1>7, <1>8, <1>9 DEF Next

\* A timer closes a connection only if that was marked, or if the time it was
\* last given is over by the real time: neither an older node of the connection,
\* nor a clock that has started again meanwhile, closes it early.
THEOREM TimersCloseWhenDue == Spec => ClosedWhenDue
<1>1. Init => NodesTellWhenDue
  BY DEF Init, NodesTellWhenDue
<1>2. ServerInv /\ ServerInv' /\ NodesTellWhenDue /\ [Next]_vars => NodesTellWhenDue'
  BY NodesTellStep
<1>3. ServerInv /\ NodesTellWhenDue /\ [Next]_vars =>
          (io' = "expiring" /\ io = "timers" =>
               current' \in deleted \/ due[current'] <= time)
  <2> SUFFICES ASSUME ServerInv, NodesTellWhenDue, [Next]_vars,
                      io' = "expiring", io = "timers"
               PROVE  current' \in deleted \/ due[current'] <= time
    OBVIOUS
  <2>1. HandleExpiredEvent
    BY DEF Next, vars, loopVars, netVars, HandleNewConn, DeleteFromMap, Poll, Taking,
           DoPendingFunctors, HandleEvents, HttpHandleRead, HttpHandleWrite, FtpHandleRead,
           EndOfEvents, RemoveFromPoller, HttpSend, FtpSend, Arrives, Leave, Tick
  <2>2. PICK node \in heap : Over(node) /\ Latest(node) /\ current' = node.conn
    BY <2>1 DEF HandleExpiredEvent, HandleClose
  <2>3. /\ node.conn \in Peers /\ fd[node.conn] \in Fds /\ node.exp \in Nat
        /\ timerMap[fd[node.conn]] = node /\ node # NULL /\ time \in Nat
    BY <2>2, OldAssumption DEF ServerInv, TypeOK, TimerNode, HeldIsOpen, Latest
  <2>4. PICK t \in 0 .. time : due[node.conn] = node.exp + TurnOf(t)
    BY <2>3 DEF NodesTellWhenDue
  <2>5. /\ TurnOf(t) \in Int /\ TurnOf(t) <= TurnOf(time) /\ TurnOf(time) \in Int
        /\ TurnOf(time) + (time % Wrap) = time /\ time % Wrap \in Nat
    BY <2>3, TurnsInOrder
  <2>6. CASE Clock >= node.exp
    BY <2>2, <2>3, <2>4, <2>5, <2>6 DEF Clock
  <2> QED
    BY <2>2, <2>6 DEF Over
<1> QED
  BY <1>1, <1>2, <1>3, ServerInvHolds, PTL DEF Spec, ClosedWhenDue

-----------------------------------------------------------------------------
(* Edges: epoll reports a change once, and somebody has to remember it.    *)

\* There is something the server has to do for c, and it knows that.
Owed(c) ==
    /\ Registered(c) /\ peer[c] # "reset" /\ current # c
    /\ ToWrite(c) \/ Readable(c)
    /\ c \notin deleted

Reported(c) == c \in armed \/ \E e \in batch : e.conn = c

\* There is no answer yet for a connection that is not in the poller yet.
NewIsQuiet ==
    \A c \in Peers : peer[c] = "new" \/ c \in Range(ioQueue) => ~ToWrite(c)

EdgeInv == NewIsQuiet /\ NoLostEdge

LEMMA EdgeInvIs ==
  NoLostEdge <=> (kind = "http" => \A c \in Peers : Owed(c) => Reported(c))
  BY DEF NoLostEdge, Owed, Reported

\* Nothing new is owed to a connection, and the reports are still there.
LEMMA NothingForgotten ==
  ASSUME ServerInv, EdgeInv, kind' = kind, UNCHANGED http,
         \A c \in Peers : peer'[c] = "new" => peer[c] = "new",
         \A c \in Range(ioQueue') : c \in Range(ioQueue) \/ peer[c] = "new",
         kind = "http" => \A c \in Peers : Owed(c)' => Reported(c)' \/ Owed(c),
         kind = "http" => \A c \in Peers : Reported(c) /\ Owed(c)' => Reported(c)'
  PROVE  EdgeInv'
<1>1. NewIsQuiet'
  BY DEF EdgeInv, NewIsQuiet, ToWrite
<1>2. kind = "http" => \A c \in Peers : Owed(c) => Reported(c)
  BY EdgeInvIs DEF EdgeInv
<1>3. kind' = "http" => \A c \in Peers : Owed(c)' => Reported(c)'
  BY <1>2
<1>4. NoLostEdge'
  BY <1>3 DEF NoLostEdge, Owed, Reported
<1> QED
  BY <1>1, <1>4 DEF EdgeInv

\* The main loop, the end of the events and the removal: channels go.
LEMMA EdgesWhenReleased ==
  ASSUME ServerInv, EdgeInv, DeleteFromMap \/ EndOfEvents \/ RemoveFromPoller
  PROVE  EdgeInv'
<1>1. /\ UNCHANGED <<kind, http, peer, unread, ioQueue, batch, deleted>> /\ Release
      /\ \/ UNCHANGED <<armed, channelMap, current>>
         \/ /\ io \in {"closing", "expiring"} /\ armed' = armed \ {current}
            /\ channelMap' = [channelMap EXCEPT ![fd[current]] = NULL]
  BY DEF DeleteFromMap, EndOfEvents, RemoveFromPoller, httpVars, serverVars, loopVars, timerVars
<1>2. \A c \in Peers : fd'[c] \in {0, fd[c]}
  BY <1>1 DEF Release
<1>3. \A c \in Peers : Registered(c)' => Registered(c) /\ fd'[c] = fd[c]
  BY <1>1, <1>2, OldAssumption DEF Registered, ServerInv, TypeOK, HeldIsOpen
<1>4. CASE UNCHANGED <<armed, channelMap, current>>
  <2>1. \A c \in Peers : Owed(c)' => Owed(c)
    BY <1>1, <1>3, <1>4 DEF Owed, ToWrite, Readable
  <2>2. \A c \in Peers : Reported(c) => Reported(c)'
    BY <1>1, <1>4 DEF Reported
  <2> QED
    BY <1>1, <2>1, <2>2, NothingForgotten
<1>5. CASE /\ io \in {"closing", "expiring"} /\ armed' = armed \ {current}
           /\ channelMap' = [channelMap EXCEPT ![fd[current]] = NULL]
  <2>1. current \in Peers /\ fd[current] \in Fds /\ current # NULL
    BY <1>5 DEF ServerInv, EventsAreOfChannels, HeldIsOpen, TypeOK
  <2>2. channelMap'[fd[current]] = NULL
    BY <1>5, <2>1 DEF ServerInv, TypeOK
  <2>3. \A c \in Peers : Registered(c)' => c # current
    BY <1>3, <2>1, <2>2 DEF Registered
  <2>4. \A c \in Peers : Owed(c)' => Owed(c)
    BY <1>1, <1>3, <2>3 DEF Owed, ToWrite, Readable
  <2>5. \A c \in Peers : Reported(c) /\ Owed(c)' => Reported(c)'
    BY <1>1, <1>5, <2>3 DEF Reported, Owed
  <2> QED
    BY <1>1, <2>4, <2>5, NothingForgotten
<1> QED
  BY <1>1, <1>4, <1>5

LEMMA EdgesAtNewConn ==
  ASSUME ServerInv, ServerInv', EdgeInv, NEW c \in Peers, HandleNewConn(c)
  PROVE  EdgeInv'
<1>1. /\ UNCHANGED <<kind, http, unread, armed, batch, current, channelMap, deleted>>
      /\ peer[c] = "new"
      /\ \A d \in Peers : d # c => fd'[d] = fd[d] /\ peer'[d] = peer[d]
  BY DEF HandleNewConn, httpVars, loopVars, timerVars, ServerInv, TypeOK
<1>2. \/ ioQueue' = ioQueue /\ peer'[c] = "reset"
      \/ ioQueue' = Append(ioQueue, c) /\ peer'[c] = "open"
  BY DEF HandleNewConn, ServerInv, TypeOK
<1>3. /\ Range(Append(ioQueue, c)) = Range(ioQueue) \cup {c}
      /\ Range(ioQueue) \subseteq Peers
  <2>1. ioQueue \in Seq(Peers)
    BY DEF ServerInv, TypeOK
  <2> QED
    BY <2>1, QueueRange
<1>4. ~Owed(c)'
  <2>1. CASE peer'[c] = "reset"
    BY <2>1 DEF Owed
  <2>2. CASE c \in Range(ioQueue')
    BY <2>2 DEF Owed, Registered, ServerInv, OnItsWay
  <2> QED
    BY <1>2, <1>3, <2>1, <2>2
<1>5. \A d \in Peers : Owed(d)' => Owed(d)
  <2>1. ASSUME NEW d \in Peers, d # c PROVE Owed(d)' <=> Owed(d)
    BY <1>1, <2>1 DEF Owed, Registered, ToWrite, Readable
  <2> QED
    BY <1>4, <2>1
<1>6. \A d \in Peers : Reported(d) => Reported(d)'
  BY <1>1 DEF Reported
<1>7. \A d \in Peers : peer'[d] = "new" => peer[d] = "new"
  BY <1>1
<1>8. \A d \in Range(ioQueue') : d \in Range(ioQueue) \/ peer[d] = "new"
  BY <1>1, <1>2, <1>3
<1> QED
  BY <1>1, <1>5, <1>6, <1>7, <1>8, NothingForgotten

LEMMA EdgesAtPoll ==
  ASSUME ServerInv, EdgeInv, Poll
  PROVE  EdgeInv'
<1>1. /\ UNCHANGED <<kind, http, unread, current, serverVars, timerVars, fd, peer>>
      /\ io = "poll"
      /\ kind = "http" => \A c \in armed : [conn |-> c, event |-> Event(c)] \in batch'
  BY DEF Poll, httpVars
<1>2. batch = {}
  BY <1>1 DEF ServerInv, EventsAreOfChannels
<1>3. \A c \in Peers : Owed(c)' => Owed(c)
  BY <1>1 DEF Owed, Registered, ToWrite, Readable, serverVars, timerVars
<1>4. kind = "http" => \A c \in Peers : Reported(c) => Reported(c)'
  <2> SUFFICES ASSUME kind = "http", NEW c \in Peers, Reported(c) PROVE Reported(c)'
    OBVIOUS
  <2>1. c \in armed
    BY <1>2 DEF Reported
  <2>2. [conn |-> c, event |-> Event(c)] \in batch'
    BY <1>1, <2>1
  <2> QED
    BY <2>2 DEF Reported
<1> QED
  BY <1>1, <1>3, <1>4, NothingForgotten DEF serverVars

LEMMA EdgesAtFunctors ==
  ASSUME ServerInv, EdgeInv, NEW e \in batch, DoPendingFunctors(e)
  PROVE  EdgeInv'
<1>1. /\ UNCHANGED <<kind, http, unread, current, timerVars, fd, peer>>
      /\ e.event = "wakeup" /\ batch' = batch \ {e}
      /\ armed' = armed \cup {c \in ToSet(ioQueue) : Readable(c)}
      /\ channelMap' = [f \in Fds |-> IF \E c \in ToSet(ioQueue) : fd[c] = f
                                      THEN CHOOSE c \in ToSet(ioQueue) : fd[c] = f
                                      ELSE channelMap[f]]
      /\ ioQueue' = <<>>
  BY DEF DoPendingFunctors, Taking, httpVars
<1>2. ToSet(ioQueue) = Range(ioQueue) /\ Range(ioQueue') = {}
  BY <1>1 DEF ToSet, Range
<1>3. e.conn = NULL
  BY <1>1 DEF ServerInv, EventsAreOfChannels
<1>4. \A c \in Peers : Registered(c)' => Registered(c) \/ c \in Range(ioQueue)
  <2> SUFFICES ASSUME NEW c \in Peers, Registered(c)' PROVE Registered(c) \/ c \in Range(ioQueue)
    OBVIOUS
  <2>1. fd[c] # 0 /\ fd[c] \in Fds /\ channelMap'[fd[c]] = c
    BY <1>1 DEF Registered, ServerInv, TypeOK
  <2> QED
    BY <1>1, <1>2, <2>1 DEF Registered
<1>5. \A c \in Peers : Owed(c)' => Reported(c)' \/ Owed(c)
  <2> SUFFICES ASSUME NEW c \in Peers, Owed(c)' PROVE Reported(c)' \/ Owed(c)
    OBVIOUS
  <2>1. /\ peer[c] # "reset" /\ current # c /\ (ToWrite(c) \/ Readable(c))
        /\ c \notin deleted /\ Registered(c)'
    BY <1>1 DEF Owed, ToWrite, Readable, timerVars
  <2>2. CASE c \in Range(ioQueue)
    BY <1>1, <1>2, <2>1, <2>2 DEF EdgeInv, NewIsQuiet, Reported
  <2> QED
    BY <1>4, <2>1, <2>2 DEF Owed
<1>6. \A c \in Peers : Reported(c) => Reported(c)'
  BY <1>1, <1>3, OldAssumption DEF Reported
<1> QED
  BY <1>1, <1>2, <1>5, <1>6, NothingForgotten

LEMMA EdgesAtEvents ==
  ASSUME ServerInv, EdgeInv, NEW e \in batch, HandleEvents(e)
  PROVE  EdgeInv'
<1>1. /\ UNCHANGED <<kind, http, unread, armed, connMap, ioQueue, channelMap, timerVars, fd, peer>>
      /\ batch' = batch \ {e} /\ io = "events"
      /\ \/ e.event = "hup" /\ current' = e.conn
         \/ e.event = "err" /\ current' = current
         \/ kind = "ftp" /\ current' = current
  BY DEF HandleEvents, Taking, HandleClose, httpVars, netVars
<1>2. current = NULL
  BY <1>1 DEF ServerInv, EventsAreOfChannels
<1>3. \A c \in Peers : Owed(c)' => Owed(c)
  BY <1>1, <1>2, OldAssumption DEF Owed, Registered, ToWrite, Readable, timerVars
<1>4. e.event = "err" => peer[e.conn] = "reset"
  BY DEF ServerInv, EventsAreOfChannels
<1>5. kind = "http" => ~Owed(e.conn)'
  BY <1>1, <1>4 DEF Owed
<1>6. kind = "http" => \A c \in Peers : Reported(c) /\ Owed(c)' => Reported(c)'
  BY <1>1, <1>5 DEF Reported
<1> QED
  BY <1>1, <1>3, <1>6, NothingForgotten

LEMMA EdgesAtTimers ==
  ASSUME ServerInv, EdgeInv, HandleExpiredEvent
  PROVE  EdgeInv'
<1>1. /\ UNCHANGED <<kind, http, unread, armed, batch, ioQueue, channelMap, fd, peer, deleted>>
      /\ io = "timers"
  BY DEF HandleExpiredEvent, httpVars, netVars
<1>2. current = NULL
  BY <1>1 DEF ServerInv, EventsAreOfChannels
<1>3. \A c \in Peers : Owed(c)' => Owed(c)
  BY <1>1, <1>2, OldAssumption DEF Owed, Registered, ToWrite, Readable
<1>4. \A c \in Peers : Reported(c) => Reported(c)'
  BY <1>1 DEF Reported
<1> QED
  BY <1>1, <1>3, <1>4, NothingForgotten

\* A handler that may change what the connection it is of has to say.
LEMMA EdgesAtHandler ==
  ASSUME ServerInv, EdgeInv, NEW e \in batch, Taking(e), e.event \in {"in", "out"},
         UNCHANGED <<kind, serverVars, current, fd, peer>>,
         \A d \in Peers \ {e.conn} : http'[d] = http[d] /\ unread'[d] = unread[d],
         armed \subseteq armed', deleted \subseteq deleted',
         Owed(e.conn)' => e.conn \in armed'
  PROVE  EdgeInv'
<1> DEFINE c == e.conn
<1>1. /\ c \in Peers /\ c \notin Range(ioQueue) /\ fd[c] # 0 /\ peer[c] # "new"
  BY DEF ServerInv, EventsAreOfChannels, TypeOK, OnItsWay, Registered, OneDescriptor
<1>2. NewIsQuiet'
  BY <1>1 DEF EdgeInv, NewIsQuiet, ToWrite, serverVars
<1>3. \A d \in Peers \ {c} : Owed(d)' => Owed(d)
  BY DEF Owed, Registered, ToWrite, Readable, serverVars
<1>4. \A d \in Peers \ {c} : Reported(d) => Reported(d)'
  BY DEF Reported, Taking
<1>5. kind' = "http" => \A d \in Peers : Owed(d)' => Reported(d)'
  <2> SUFFICES ASSUME kind = "http", NEW d \in Peers, Owed(d)' PROVE Reported(d)'
    OBVIOUS
  <2>1. CASE d = c
    BY <2>1 DEF Reported
  <2>2. CASE d # c
    <3>1. Owed(d)
      BY <1>3, <2>2
    <3> QED
      BY <3>1, <2>2, <1>4, EdgeInvIs DEF EdgeInv
  <2> QED
    BY <2>1, <2>2
<1>6. NoLostEdge'
  BY <1>5 DEF NoLostEdge, Owed, Reported
<1> QED
  BY <1>2, <1>6 DEF EdgeInv

LEMMA EdgesAtHttpRead ==
  ASSUME ServerInv, EdgeInv, NEW e \in batch, HttpHandleRead(e)
  PROVE  EdgeInv'
<1> DEFINE c == e.conn
<1>1. /\ Taking(e) /\ e.event = "in"
      /\ UNCHANGED <<kind, serverVars, current, fd, peer>>
      /\ unread' = [unread EXCEPT ![c] = <<>>]
      /\ armed' = IF ToWrite(c)' THEN armed \cup {c} ELSE armed
      /\ deleted' = IF peer[c] # "open" THEN deleted \cup {c} ELSE deleted
  BY DEF HttpHandleRead
<1>2. \A d \in Peers \ {c} : http'[d] = http[d] /\ unread'[d] = unread[d]
  <2>1. PICK h : http' = [http EXCEPT ![c] = h]
    BY DEF HttpHandleRead, HttpRead
  <2> QED
    BY <1>1, <2>1 DEF ServerInv, TypeOK
<1>3. unread'[c] = <<>>
  BY <1>1 DEF ServerInv, TypeOK, EventsAreOfChannels
<1>4. Owed(c)' => c \in armed'
  BY <1>1, <1>3 DEF Owed, Readable
<1> QED
  BY <1>1, <1>2, <1>4, EdgesAtHandler

\* An answer that has been written, or part of it, is not written again.
LEMMA WrittenIs ==
  ASSUME NEW c \in DOMAIN http, HandleSuccess(c) \/ HandleError(c)
  PROVE  http'[c].write = "none" /\ \A d \in DOMAIN http \ {c} : http'[d] = http[d]
<1>1. CASE HandleSuccess(c)
  <2> DEFINE done == [Reset(http[c]) EXCEPT !.write = "none"]
  <2>1. PICK rest : http' = [http EXCEPT ![c] = [done EXCEPT !.out = rest]]
    BY <1>1 DEF HandleSuccess
  <2> HIDE DEF done
  <2>2. http'[c] = [done EXCEPT !.out = rest] /\ \A d \in DOMAIN http \ {c} : http'[d] = http[d]
    BY <2>1
  <2>3. http'[c].write = done.write
    BY <2>2
  <2>4. done.write = "none"
    BY DEF done, Reset
  <2> QED
    BY <2>2, <2>3, <2>4
<1>2. CASE HandleError(c)
  <2> DEFINE done == [http[c] EXCEPT !.write = "none", !.file = 0, !.out = 0]
  <2>1. http' = [http EXCEPT ![c] = done]
    BY <1>2 DEF HandleError
  <2> HIDE DEF done
  <2>2. http'[c] = done /\ \A d \in DOMAIN http \ {c} : http'[d] = http[d]
    BY <2>1
  <2>3. done.write = "none"
    BY DEF done
  <2> QED
    BY <2>2, <2>3
<1> QED
  BY <1>1, <1>2

LEMMA EdgesAtHttpWrite ==
  ASSUME ServerInv, EdgeInv, NEW e \in batch, HttpHandleWrite(e)
  PROVE  EdgeInv'
<1> DEFINE c == e.conn
<1>1. /\ Taking(e) /\ e.event = "out"
      /\ UNCHANGED <<kind, serverVars, current, fd, peer, unread, deleted>>
      /\ armed' = IF Readable(c) THEN armed \cup {c} ELSE armed
  BY DEF HttpHandleWrite, UpdatePoller
<1>2. c \in Peers
  BY <1>1 DEF ServerInv, EventsAreOfChannels, TypeOK
<1>3. HandleSuccess(c) \/ HandleError(c)
  BY DEF HttpHandleWrite
<1>4. http'[c].write = "none" /\ \A d \in Peers \ {c} : http'[d] = http[d]
  BY <1>2, <1>3, WrittenIs DEF ServerInv, TypeOK
<1>5. Owed(c)' => c \in armed'
  BY <1>1, <1>4 DEF Owed, Readable, ToWrite
<1> QED
  BY <1>1, <1>4, <1>5, EdgesAtHandler

LEMMA EdgesAtFtpRead ==
  ASSUME ServerInv, EdgeInv, NEW e \in batch, FtpHandleRead(e)
  PROVE  EdgeInv'
<1>1. kind = "ftp" /\ UNCHANGED <<kind, http, serverVars, peer>>
  BY DEF FtpHandleRead, httpVars
<1> QED
  BY <1>1, NothingForgotten DEF serverVars

LEMMA EdgesAtArrival ==
  ASSUME ServerInv, EdgeInv, NEW c \in Peers, NEW messages, Arrives(c, messages)
  PROVE  EdgeInv'
<1>1. /\ UNCHANGED <<kind, http, serverVars, batch, current, deleted, fd, peer>>
      /\ unread' = [unread EXCEPT ![c] = @ \o messages]
      /\ armed' = IF kind = "http" /\ Registered(c) /\ ~ToWrite(c)
                  THEN armed \cup {c} ELSE armed
  BY DEF Arrives, httpVars, loopVars, timerVars
<1>2. \A d \in Peers \ {c} : unread'[d] = unread[d]
  BY <1>1 DEF ServerInv, TypeOK
<1>3. \A d \in Peers \ {c} : Owed(d)' => Owed(d)
  BY <1>1, <1>2 DEF Owed, Registered, ToWrite, Readable, serverVars
<1>4. kind = "http" => (Owed(c)' => c \in armed' \/ Owed(c))
  BY <1>1 DEF Owed, Registered, ToWrite, serverVars
<1>5. \A d \in Peers : Reported(d) => Reported(d)'
  BY <1>1 DEF Reported
<1>6. kind = "http" => \A d \in Peers : Owed(d)' => Reported(d)' \/ Owed(d)
  BY <1>3, <1>4 DEF Reported
<1> QED
  BY <1>1, <1>5, <1>6, NothingForgotten DEF serverVars

LEMMA EdgesAtLeave ==
  ASSUME ServerInv, EdgeInv, NEW c \in Peers, Leave(c)
  PROVE  EdgeInv'
<1>1. /\ UNCHANGED <<kind, http, serverVars, batch, current, deleted, fd, unread>>
      /\ armed' = IF kind = "http" /\ Registered(c) /\ (peer'[c] = "reset" \/ ~ToWrite(c))
                  THEN armed \cup {c} ELSE armed
      /\ \/ peer[c] = "open" /\ peer' = [peer EXCEPT ![c] = "shut"]
         \/ peer' = [peer EXCEPT ![c] = "reset"]
  BY DEF Leave, httpVars, loopVars, timerVars
<1>2. /\ \A d \in Peers \ {c} : peer'[d] = peer[d]
      /\ (peer'[c] = "shut" /\ peer[c] = "open") \/ peer'[c] = "reset"
  BY <1>1 DEF ServerInv, TypeOK
<1>3. \A d \in Peers \ {c} : Owed(d)' => Owed(d)
  BY <1>1, <1>2 DEF Owed, Registered, ToWrite, Readable, serverVars
<1>4. kind = "http" => (Owed(c)' => c \in armed' \/ Owed(c))
  BY <1>1, <1>2 DEF Owed, Registered, ToWrite, serverVars
<1>5. \A d \in Peers : Reported(d) => Reported(d)'
  BY <1>1 DEF Reported
<1>6. kind = "http" => \A d \in Peers : Owed(d)' => Reported(d)' \/ Owed(d)
  BY <1>3, <1>4 DEF Reported
<1>7. \A d \in Peers : peer'[d] = "new" => peer[d] = "new"
  BY <1>2
<1> QED
  BY <1>1, <1>5, <1>6, <1>7, NothingForgotten DEF serverVars

LEMMA EdgeStep ==
  ASSUME ServerInv, ServerInv', EdgeInv, [Next]_vars
  PROVE  EdgeInv'
<1>1. ASSUME NEW c \in Peers, HandleNewConn(c) PROVE EdgeInv'
  BY <1>1, EdgesAtNewConn
<1>2. ASSUME NEW c \in Peers, HttpSend(c) \/ FtpSend(c) PROVE EdgeInv'
  <2>1. PICK messages : Arrives(c, messages)
    BY <1>2 DEF HttpSend, FtpSend
  <2> QED
    BY <2>1, EdgesAtArrival
<1>3. ASSUME NEW c \in Peers, Leave(c) PROVE EdgeInv'
  BY <1>3, EdgesAtLeave
<1>4. ASSUME NEW e \in batch,
             \/ DoPendingFunctors(e) \/ HandleEvents(e)
             \/ HttpHandleRead(e) \/ HttpHandleWrite(e) \/ FtpHandleRead(e)
      PROVE  EdgeInv'
  BY <1>4, EdgesAtFunctors, EdgesAtEvents, EdgesAtHttpRead, EdgesAtHttpWrite, EdgesAtFtpRead
<1>5. ASSUME DeleteFromMap \/ EndOfEvents \/ RemoveFromPoller PROVE EdgeInv'
  BY <1>5, EdgesWhenReleased
<1>6. ASSUME Poll PROVE EdgeInv'
  BY <1>6, EdgesAtPoll
<1>7. ASSUME HandleExpiredEvent PROVE EdgeInv'
  BY <1>7, EdgesAtTimers
<1>8. ASSUME Tick \/ UNCHANGED vars PROVE EdgeInv'
  <2>1. UNCHANGED <<kind, http, serverVars, batch, current, armed, deleted, fd, unread, peer>>
    BY <1>8 DEF Tick, vars, netVars, httpVars, loopVars, timerVars
  <2>2. \A d \in Peers : (Owed(d)' => Owed(d)) /\ (Reported(d) => Reported(d)')
    BY <2>1 DEF Owed, Reported, Registered, ToWrite, Readable, serverVars
  <2> QED
    BY <2>1, <2>2, NothingForgotten DEF serverVars
<1> QED
  BY <1>1, <1>2, <1>3, <1>4, <1>5, <1>6, <1>7, <1>8 DEF Next

\* Epoll reports an edge once.  As long as a connection has sent something that
\* is not read, or is owed an answer, epoll has yet to report it or the loop has
\* yet to handle the report: no order of reads, answers and arrivals loses it.
THEOREM NoEdgeIsLost == Spec => []NoLostEdge
<1>1. Init => EdgeInv
  BY OldAssumption DEF Init, HttpInit, FreshHttp, EdgeInv, NewIsQuiet, NoLostEdge,
                       ToWrite, Registered
<1>2. ServerInv /\ ServerInv' /\ EdgeInv /\ [Next]_vars => EdgeInv'
  BY EdgeStep
<1>3. EdgeInv => NoLostEdge
  BY DEF EdgeInv
<1> QED
  BY <1>1, <1>2, <1>3, ServerInvHolds, PTL DEF Spec
=============================================================================
