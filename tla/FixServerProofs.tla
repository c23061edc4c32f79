--------------------------- MODULE FixServerProofs ---------------------------
(***************************************************************************)
(* Proofs about FixServer, for every set of sockets, companies, packets    *)
(* and every bound.                                                        *)
(***************************************************************************)
EXTENDS FixServer, FiniteSetTheorems, SequenceTheorems, TLAPS

-----------------------------------------------------------------------------
(* The order in which files are replayed                                    *)

LEMMA NamesAreFinite ==
  ASSUME NEW S \in SUBSET Times
  PROVE  S \subseteq Nat /\ IsFiniteSet(S) /\ Cardinality(S) \in Nat
<1>1. 0 \in Int /\ MaxClock \in Int
  BY ServerAssumption
<1>2. IsFiniteSet(Times)
  BY <1>1, FS_Interval DEF Times
<1>3. IsFiniteSet(S)
  BY <1>2, FS_Subset
<1>4. Times \subseteq Nat
  BY <1>1 DEF Times
<1> QED
  BY <1>3, <1>4, FS_CardinalityType

(* The names that sort before t, and their number: the place of t.          *)
Below(S, t) == {u \in S : u < t}
Place(S, t) == Cardinality(Below(S, t))

LEMMA PlaceType ==
  ASSUME NEW S \in SUBSET Times, NEW t \in S
  PROVE  /\ IsFiniteSet(Below(S, t))
         /\ Place(S, t) \in 0 .. Cardinality(S) - 1
<1>1. S \subseteq Nat /\ IsFiniteSet(S) /\ Cardinality(S) \in Nat
  BY NamesAreFinite
<1>2. Below(S, t) \in SUBSET S /\ t \notin Below(S, t)
  BY <1>1 DEF Below
<1>3. IsFiniteSet(Below(S, t)) /\ Place(S, t) <= Cardinality(S)
  BY <1>1, <1>2, FS_Subset DEF Place
<1>4. Place(S, t) # Cardinality(S)
  BY <1>1, <1>2, FS_Subset DEF Place
<1>5. Place(S, t) \in Nat
  BY <1>3, FS_CardinalityType DEF Place
<1> QED
  BY <1>1, <1>3, <1>4, <1>5

LEMMA PlaceAscends ==
  ASSUME NEW S \in SUBSET Times, NEW t \in S, NEW v \in S
  PROVE  t < v <=> Place(S, t) < Place(S, v)
<1>1. S \subseteq Nat
  BY NamesAreFinite
<1>2. ASSUME NEW a \in S, NEW b \in S
      PROVE  /\ Place(S, a) \in Nat
             /\ a < b => Place(S, a) < Place(S, b)
  <2>1. /\ IsFiniteSet(Below(S, b))
        /\ Place(S, a) \in Nat /\ Place(S, b) \in Nat
    BY PlaceType
  <2>2. SUFFICES ASSUME a < b PROVE Place(S, a) < Place(S, b)
    BY <2>1
  <2>3. /\ Below(S, a) \in SUBSET Below(S, b)
        /\ a \in Below(S, b) /\ a \notin Below(S, a)
    <3>1. a \in Nat /\ b \in Nat /\ ~(a < a)
      BY <1>1
    <3>2. \A u \in S : u < a => u < b
      BY <1>1, <2>2, <3>1
    <3> QED
      BY <2>2, <3>1, <3>2 DEF Below
  <2>4. Place(S, a) <= Place(S, b) /\ Place(S, a) # Place(S, b)
    BY <2>1, <2>3, FS_Subset DEF Place
  <2> QED
    BY <2>1, <2>4
<1>3. t < v \/ v < t \/ t = v
  BY <1>1
<1>4. Place(S, t) \in Nat /\ Place(S, v) \in Nat
  BY <1>2
<1>5. t < v => Place(S, t) < Place(S, v)
  BY <1>2
<1>6. v < t => Place(S, v) < Place(S, t)
  BY <1>2
<1> QED
  BY <1>1, <1>3, <1>4, <1>5, <1>6

(* Every place from 0 up to the number of names is some name's.             *)
LEMMA PlacesAreTaken ==
  ASSUME NEW S \in SUBSET Times,
         NEW k \in 0 .. Cardinality(S) - 1
  PROVE  \E t \in S : Place(S, t) = k
<1> DEFINE place == [t \in S |-> Place(S, t)]
           Places == 0 .. Cardinality(S) - 1
<1>1. S \subseteq Nat /\ IsFiniteSet(S) /\ Cardinality(S) \in Nat
  BY NamesAreFinite
<1>2. place \in [S -> Places]
  BY PlaceType
<1>3. ASSUME NEW t \in S, NEW v \in S, place[t] = place[v]
      PROVE  t = v
  <2>1. Place(S, t) = Place(S, v) /\ Place(S, t) \in Int
    BY <1>3, PlaceType
  <2>2. ~(t < v) /\ ~(v < t)
    BY <2>1, PlaceAscends
  <2> QED
    BY <1>1, <2>2
<1>4. place \in Injection(S, Places)
  BY <1>2, <1>3 DEF Injection, IsInjective
<1>5. 0 \in Int /\ Cardinality(S) - 1 \in Int
  BY <1>1
<1>6. IsFiniteSet(Places) /\ Cardinality(Places) = Cardinality(S)
  BY <1>1, <1>5, FS_Interval
<1>7. place \in Surjection(S, Places)
  BY <1>4, <1>6, FS_Injection
<1> QED
  BY <1>7 DEF Surjection

(* SortedNames lists names of the set, each below the next: the order the   *)
(* sort of MessageStore.cpp:84 gives.                                       *)
LEMMA SortedNamesAscend ==
  ASSUME NEW S \in SUBSET Times
  PROVE  /\ Cardinality(S) \in Nat
         /\ SortedNames(S) \in [1 .. Cardinality(S) -> S]
         /\ \A i, j \in 1 .. Cardinality(S) :
              i < j => SortedNames(S)[i] < SortedNames(S)[j]
<1> DEFINE n == Cardinality(S)
<1>1. n \in Nat
  BY NamesAreFinite
<1>2. ASSUME NEW i \in 1 .. n
      PROVE  SortedNames(S)[i] \in S /\ Place(S, SortedNames(S)[i]) = i - 1
  <2>1. i - 1 \in 0 .. n - 1
    BY <1>1
  <2>2. \E t \in S : Place(S, t) = i - 1
    BY <2>1, PlacesAreTaken
  <2>3. SortedNames(S)[i] = CHOOSE t \in S : Place(S, t) = i - 1
    BY DEF SortedNames, Place, Below
  <2> QED
    BY <2>2, <2>3
<1>3. ASSUME NEW i \in 1 .. n, NEW j \in 1 .. n, i < j
      PROVE  SortedNames(S)[i] < SortedNames(S)[j]
  <2>1. i - 1 < j - 1
    BY <1>1, <1>3
  <2> QED
    BY <1>2, <2>1, PlaceAscends
<1>4. SortedNames(S) \in [1 .. n -> S]
  BY <1>2 DEF SortedNames
<1> QED
  BY <1>1, <1>3, <1>4

-----------------------------------------------------------------------------
(* Type correctness                                                         *)

LEMMA SortsOfValues ==
  /\ Packets \subseteq Packet
  /\ NoSocket \notin Sockets /\ NoComp \notin CompIds /\ NoFile \notin Message
  /\ AllowedCompIds \subseteq CompIds
  /\ NoComp \in Targets /\ CompIds \subseteq Targets
  /\ EmptyDir \in [Times -> Message \cup {NoFile}]
  /\ 0 \in Times /\ Times \subseteq Nat
BY ServerAssumption DEF Targets, EmptyDir, Times

LEMMA FileNamesType ==
  ASSUME NEW dir PROVE FileNames(dir) \in SUBSET Times
BY DEF FileNames

(* What a replay sends are the messages in the files of the target, one     *)
(* after the other in the order of the names.                               *)
LEMMA QueuedMessagesAreFiles ==
  ASSUME TypeOK, NEW c \in Targets
  PROVE  /\ QueuedMessages(c) \in Seq(Message)
         /\ \A i \in DOMAIN QueuedMessages(c) :
              \E t \in FileNames(store[c]) : QueuedMessages(c)[i] = store[c][t]
         /\ \A i, j \in DOMAIN QueuedMessages(c) :
              i < j => \E t, u \in FileNames(store[c]) :
                         /\ t < u
                         /\ QueuedMessages(c)[i] = store[c][t]
                         /\ QueuedMessages(c)[j] = store[c][u]
<1> DEFINE S == FileNames(store[c])
           names == SortedNames(S)
           n == Cardinality(S)
<1>1. /\ S \in SUBSET Times
      /\ \A t \in S : store[c][t] \in Message
  BY DEF TypeOK, FileNames
<1>2. /\ n \in Nat
      /\ names \in [1 .. n -> S]
      /\ \A i, j \in 1 .. n : i < j => names[i] < names[j]
  BY <1>1, SortedNamesAscend
<1> HIDE DEF S, names, n
<1>3. CASE ~storeReady
  <2>1. QueuedMessages(c) = <<>>
    BY <1>3 DEF QueuedMessages
  <2> QED
    BY <2>1
<1>4. CASE storeReady
  <2>1. QueuedMessages(c) = [i \in 1 .. n |-> store[c][names[i]]]
    BY <1>2, <1>4 DEF QueuedMessages, S, names
  <2>2. \A i \in 1 .. n : names[i] \in S /\ store[c][names[i]] \in Message
    BY <1>1, <1>2
  <2>3. QueuedMessages(c) \in Seq(Message)
    BY <1>2, <2>1, <2>2
  <2>4. /\ DOMAIN QueuedMessages(c) = 1 .. n
        /\ \A i \in 1 .. n : QueuedMessages(c)[i] = store[c][names[i]]
    BY <2>1
  <2> HIDE DEF QueuedMessages
  <2>5. ASSUME NEW i \in 1 .. n, NEW j \in 1 .. n, i < j
        PROVE  \E t, u \in S : /\ t < u
                               /\ QueuedMessages(c)[i] = store[c][t]
                               /\ QueuedMessages(c)[j] = store[c][u]
    BY <1>2, <2>2, <2>4, <2>5
  <2> QED
    BY <2>2, <2>3, <2>4, <2>5 DEF S
<1> QED
  BY <1>3, <1>4

LEMMA WriteType ==
  ASSUME outbound \in [Sockets -> Seq(Message)],
         NEW s \in Sockets, NEW msgs \in Seq(Message), write(s, msgs)
  PROVE  /\ outbound' \in [Sockets -> Seq(Message)]
         /\ outbound'[s] = outbound[s] \o msgs
         /\ \A r \in Sockets \ {s} : outbound'[r] = outbound[r]
BY DEF write

LEMMA TakesType ==
  ASSUME TypeOK, NEW s \in Sockets, NEW p \in Packets, Takes(s, p)
  PROVE  p \in Packet /\ buffers' \in [Sockets -> Seq(Packet)]
<1>1. buffers[s] \in Seq(Packet) /\ buffers[s] # <<>> /\ p \in Packet
  BY SortsOfValues DEF Takes, TypeOK
<1>2. Tail(buffers[s]) \in Seq(Packet)
  BY <1>1, HeadTailProperties
<1> QED
  BY <1>1, <1>2 DEF Takes, TypeOK

(* What a crash in the middle of a replay does to the files.                *)
LosesUpTo(c, t) ==
  store' = [store EXCEPT ![c] =
              [u \in Times |-> IF u <= t THEN NoFile ELSE store[c][u]]]

LEMMA LosesTheOldest ==
  ASSUME TypeOK, NEW c \in Targets, NEW t, LosesUpTo(c, t)
  PROVE  /\ store' \in [Targets -> [Times -> Message \cup {NoFile}]]
         /\ \A d \in Targets \ {c} : store'[d] = store[d]
         /\ \A u \in Times :
              store'[c][u] = IF u <= t THEN NoFile ELSE store[c][u]
<1> DEFINE left == [u \in Times |-> IF u <= t THEN NoFile ELSE store[c][u]]
<1>1. left \in [Times -> Message \cup {NoFile}]
  BY DEF TypeOK
<1>2. store' = [store EXCEPT ![c] = left]
  BY DEF LosesUpTo
<1>3. \A u \in Times : left[u] = IF u <= t THEN NoFile ELSE store[c][u]
  OBVIOUS
<1> HIDE DEF left
<1>4. store' \in [Targets -> [Times -> Message \cup {NoFile}]]
  BY <1>1, <1>2 DEF TypeOK
<1>5. store'[c] = left /\ \A d \in Targets \ {c} : store'[d] = store[d]
  BY <1>2 DEF TypeOK
<1> QED
  BY <1>3, <1>4, <1>5

LEMMA CrashInReplayLoses ==
  ASSUME NEW s \in Sockets, NEW c \in AllowedCompIds, CrashInReplay(s, c)
  PROVE  /\ c \in CompIds /\ c \in Targets
         /\ \E t \in FileNames(store[c]) : LosesUpTo(c, t)
         /\ LogonIsNext(s, c) /\ Dies
BY SortsOfValues DEF CrashInReplay, LosesUpTo

(* Every step keeps the types.                                              *)
LEMMA TypeStep ==
  ASSUME TypeOK, [Next]_vars
  PROVE  TypeOK'
<1> USE SortsOfValues
<1>1. CASE Start
  BY <1>1, ServerAssumption
  DEF Start, TypeOK, socketVars, sessionVars, wireVars
<1>2. ASSUME Dies, store' \in [Targets -> [Times -> Message \cup {NoFile}]]
      PROVE  TypeOK'
  <2>1. NoPackets \in [Sockets -> Seq(Packet)] /\ NoPackets \in [Sockets -> Seq(Message)]
    BY DEF NoPackets
  <2>2. /\ NoRoutes \in [CompIds -> Sockets \cup {NoSocket}]
        /\ NoLogons \in [Sockets -> Targets]
    BY DEF NoRoutes, NoLogons
  <2> QED
    BY <1>2, <2>1, <2>2 DEF Dies, TypeOK
<1>17. CASE Crash
  BY <1>2, <1>17 DEF Crash, TypeOK
<1>18. ASSUME NEW s \in Sockets, NEW c \in AllowedCompIds, CrashInReplay(s, c)
       PROVE  TypeOK'
  BY <1>2, <1>18, CrashInReplayLoses, LosesTheOldest
<1>3. CASE Tick
  BY <1>3 DEF Tick, TypeOK, socketVars, sessionVars, wireVars
<1>4. ASSUME NEW s \in Sockets, NewConnection(s) PROVE TypeOK'
  BY <1>4 DEF NewConnection, TypeOK, sessionVars, wireVars, fileVars
<1>5. ASSUME NEW s \in Sockets, ClientDisconnected(s) PROVE TypeOK'
  <2>1. /\ compIdToSocket' \in [CompIds -> Sockets \cup {NoSocket}]
        /\ socketToCompId' \in [Sockets -> Targets]
    <3>1. CASE socketToCompId[s] = NoComp
      BY <1>5, <3>1 DEF ClientDisconnected, TypeOK, sessionVars
    <3>2. CASE socketToCompId[s] # NoComp
      <4>1. /\ socketToCompId' = [socketToCompId EXCEPT ![s] = NoComp]
            /\ compIdToSocket' =
                 [compIdToSocket EXCEPT ![socketToCompId[s]] = NoSocket]
        BY <1>5, <3>2 DEF ClientDisconnected
      <4> QED
        BY <4>1 DEF TypeOK
    <3> QED
      BY <3>1, <3>2
  <2>2. /\ clients' \subseteq Sockets /\ closing' \subseteq Sockets
        /\ buffers' \in [Sockets -> Seq(Packet)]
        /\ inbound' \in [Sockets -> Seq(Packet)]
        /\ outbound' \in [Sockets -> Seq(Message)]
    BY <1>5 DEF ClientDisconnected, TypeOK
  <2> QED
    BY <1>5, <2>1, <2>2 DEF ClientDisconnected, TypeOK, fileVars
<1>6. ASSUME NEW s \in Sockets, ReadyRead(s) PROVE TypeOK'
  <2>1. PICK k \in 0 .. Len(inbound[s]) :
          /\ buffers' = [buffers EXCEPT ![s] = @ \o SubSeq(inbound[s], 1, k)]
          /\ inbound' = [inbound EXCEPT ![s] = SubSeq(@, k + 1, Len(@))]
    BY <1>6 DEF ReadyRead
  <2>2. inbound[s] \in Seq(Packet) /\ buffers[s] \in Seq(Packet)
    BY DEF TypeOK
  <2>3. /\ SubSeq(inbound[s], 1, k) \in Seq(Packet)
        /\ SubSeq(inbound[s], k + 1, Len(inbound[s])) \in Seq(Packet)
    BY <2>2
  <2>4. buffers[s] \o SubSeq(inbound[s], 1, k) \in Seq(Packet)
    BY <2>2, <2>3
  <2>5. /\ buffers' \in [Sockets -> Seq(Packet)]
        /\ inbound' \in [Sockets -> Seq(Packet)]
    BY <2>1, <2>3, <2>4 DEF TypeOK
  <2> QED
    BY <1>6, <2>5 DEF ReadyRead, TypeOK, socketVars, sessionVars, fileVars
<1>7. ASSUME NEW s \in Sockets, LoopEnds(s) PROVE TypeOK'
  BY <1>7 DEF LoopEnds, TypeOK, socketVars, sessionVars, fileVars, wireVars
<1>8. ASSUME NEW s \in Sockets, NEW p \in Packets, LogonAccepted(s, p)
      PROVE  TypeOK'
  <2>1. p \in Packet /\ buffers' \in [Sockets -> Seq(Packet)]
    BY <1>8, TakesType DEF LogonAccepted
  <2>2. p.sender \in CompIds /\ p.sender \in Targets
    BY <1>8 DEF LogonAccepted, isCompIdAllowed
  <2>3. /\ outbound' \in [Sockets -> Seq(Message)]
    BY <1>8, <2>2, QueuedMessagesAreFiles, WriteType DEF LogonAccepted, TypeOK
  <2>4. store' \in [Targets -> [Times -> Message \cup {NoFile}]]
    BY <1>8, <2>2 DEF LogonAccepted, getAndClearQueuedMessages, TypeOK
  <2>5. /\ compIdToSocket' \in [CompIds -> Sockets \cup {NoSocket}]
        /\ socketToCompId' \in [Sockets -> Targets]
    BY <1>8, <2>2 DEF LogonAccepted, TypeOK
  <2> QED
    BY <1>8, <2>1, <2>3, <2>4, <2>5
    DEF LogonAccepted, Loops, TypeOK, socketVars, wireVars
<1>9. ASSUME NEW s \in Sockets, NEW p \in Packets, LogonRefused(s, p)
      PROVE  TypeOK'
  <2>1. buffers' \in [Sockets -> Seq(Packet)]
    BY <1>9, TakesType DEF LogonRefused
  <2> QED
    BY <1>9, <2>1
    DEF LogonRefused, Returns, TypeOK, sessionVars, fileVars, wireVars
<1>10. ASSUME NEW s \in Sockets, NEW p \in Packets, Ignored(s, p)
       PROVE  TypeOK'
  <2>1. buffers' \in [Sockets -> Seq(Packet)]
    BY <1>10, TakesType DEF Ignored
  <2> QED
    BY <1>10, <2>1
    DEF Ignored, Loops, TypeOK, socketVars, sessionVars, fileVars, wireVars
<1>11. ASSUME NEW s \in Sockets, NEW p \in Packets, Rejected(s, p)
       PROVE  TypeOK'
  <2>1. p \in Packet /\ buffers' \in [Sockets -> Seq(Packet)]
    BY <1>11, TakesType DEF Rejected
  <2>2. <<Reject(p)>> \in Seq(Message)
    BY <2>1 DEF Reject, Packet, Message
  <2>3. outbound' \in [Sockets -> Seq(Message)]
    BY <1>11, <2>2, WriteType DEF Rejected, TypeOK
  <2> QED
    BY <1>11, <2>1, <2>3
    DEF Rejected, Returns, TypeOK, socketVars, sessionVars, fileVars, wireVars
<1>12. ASSUME NEW s \in Sockets, NEW p \in Packets, Relayed(s, p)
       PROVE  TypeOK'
  <2> DEFINE r == compIdToSocket[p.deliverTo]
             m == [n |-> routed + 1, to |-> p.deliverTo, tagged |-> TRUE]
  <2>1. p \in Packet /\ buffers' \in [Sockets -> Seq(Packet)]
    BY <1>12, TakesType DEF Relayed
  <2>2. r \in Sockets
    BY <1>12 DEF Relayed, IsOnline, TypeOK
  <2>3. <<m>> \in Seq(Message)
    BY <2>1 DEF Message, Packet, TypeOK
  <2>4. outbound' \in [Sockets -> Seq(Message)]
    BY <1>12, <2>2, <2>3, WriteType DEF Relayed, TypeOK
  <2> QED
    BY <1>12, <2>1, <2>4, SMTT(30)
    DEF Relayed, Loops, TypeOK, socketVars, sessionVars, fileVars, wireVars
<1>13. ASSUME NEW s \in Sockets, NEW p \in Packets, Stored(s, p)
       PROVE  TypeOK'
  <2> DEFINE m == [n |-> routed + 1, to |-> p.deliverTo, tagged |-> FALSE]
  <2>1. p \in Packet /\ buffers' \in [Sockets -> Seq(Packet)]
    BY <1>13, TakesType DEF Stored
  <2>2. m \in Message /\ p.deliverTo \in Targets
    BY <2>1 DEF Message, Packet, TypeOK
  <2>3. store' \in [Targets -> [Times -> Message \cup {NoFile}]]
    <3>1. store' = store \/ store' = [store EXCEPT ![p.deliverTo][clock] = m]
      BY <1>13 DEF Stored, storeMessage
    <3> HIDE DEF m
    <3>2. CASE store' = store
      BY <3>2 DEF TypeOK
    <3>3. CASE store' = [store EXCEPT ![p.deliverTo][clock] = m]
      BY <2>2, <3>3 DEF TypeOK
    <3> QED
      BY <3>1, <3>2, <3>3
  <2> QED
    BY <1>13, <2>1, <2>3, SMTT(30)
    DEF Stored, Loops, TypeOK, socketVars, sessionVars, wireVars
<1>14. ASSUME NEW s \in Sockets, PeerReceives(s) PROVE TypeOK'
  <2>1. outbound[s] \in Seq(Message) /\ outbound[s] # <<>>
    BY <1>14 DEF PeerReceives, TypeOK
  <2>2. Head(outbound[s]) \in Message /\ Tail(outbound[s]) \in Seq(Message)
    BY <2>1, HeadTailProperties
  <2>3. Head(outbound[s]).n \in Nat
    BY <2>2 DEF Message
  <2> QED
    BY <1>14, <2>2, <2>3
    DEF PeerReceives, TypeOK, socketVars, sessionVars, fileVars
<1>15. ASSUME NEW s \in Sockets, NEW p \in Packets, PeerSends(s, p)
       PROVE  TypeOK'
  <2>1. inbound[s] \in Seq(Packet) /\ p \in Packet
    BY DEF TypeOK
  <2>2. Append(inbound[s], p) \in Seq(Packet)
    BY <2>1
  <2> QED
    BY <1>15, <2>2 DEF PeerSends, TypeOK, socketVars, sessionVars, fileVars
<1>16. CASE UNCHANGED vars
  BY <1>16 DEF TypeOK, vars, socketVars, sessionVars, fileVars, wireVars
<1> QED
  BY <1>1, <1>2, <1>3, <1>4, <1>5, <1>6, <1>7, <1>8, <1>9, <1>10, <1>11,
     <1>12, <1>13, <1>14, <1>15, <1>16, <1>17, <1>18
  DEF Next, Iteration

LEMMA TypeInit ==
  ASSUME Init PROVE TypeOK
<1>1. /\ NoPackets \in [Sockets -> Seq(Packet)]
      /\ NoPackets \in [Sockets -> Seq(Message)]
      /\ NoRoutes \in [CompIds -> Sockets \cup {NoSocket}]
      /\ NoLogons \in [Sockets -> Targets]
  BY SortsOfValues DEF NoPackets, NoRoutes, NoLogons
<1> QED
  BY <1>1, SortsOfValues DEF Init, TypeOK

(* Every variable keeps its type in every behaviour of the hub; in          *)
(* particular the enumeration of a directory always ends and what is        *)
(* replayed is a sequence of messages.                                      *)
THEOREM TypeCorrect == Spec => []TypeOK
<1>1. Init => TypeOK
  BY TypeInit
<1>2. TypeOK /\ [Next]_vars => TypeOK'
  BY TypeStep
<1> QED
  BY <1>1, <1>2, PTL DEF Spec

-----------------------------------------------------------------------------
(* Sessions                                                                 *)

(* RoutesAreLive is not inductive.  A route stays live when its socket      *)
(* closes because a session's socket is a client and a client is closed     *)
(* with its session; a logon gives a socket its only route because a socket *)
(* without a session has none.  RefusedStayOut rests on the slot being run  *)
(* only for sockets that are not closing.                                   *)
SessionInv ==
  /\ RoutesAreLive
  /\ RefusedStayOut
  /\ \A s \in Sockets : socketToCompId[s] # NoComp => s \in clients
  /\ closing \subseteq clients
  /\ reader # NoSocket => running /\ reader \in clients \ closing
  /\ ~running => clients = {}

LEMMA SessionInit ==
  ASSUME Init PROVE SessionInv
BY DEF Init, SessionInv, RoutesAreLive, RefusedStayOut, NoRoutes, NoLogons

(* A step that touches no map and no socket, and starts no slot.            *)
LEMMA SessionFrame ==
  ASSUME SessionInv, UNCHANGED <<running, socketVars, sessionVars>>,
         reader' = reader \/ reader' = NoSocket
  PROVE  SessionInv'
BY DEF SessionInv, RoutesAreLive, RefusedStayOut, socketVars, sessionVars

LEMMA SessionStep ==
  ASSUME TypeOK, SessionInv, [Next]_vars
  PROVE  SessionInv'
<1> USE SortsOfValues
<1>1. CASE Start
  BY <1>1 DEF Start, SessionInv, RoutesAreLive, RefusedStayOut, socketVars,
    sessionVars
<1>2. ASSUME Dies PROVE SessionInv'
  BY <1>2 DEF Dies, SessionInv, RoutesAreLive, RefusedStayOut, NoRoutes,
    NoLogons
<1>17. CASE Crash
  BY <1>2, <1>17 DEF Crash
<1>18. ASSUME NEW s \in Sockets, NEW c \in AllowedCompIds, CrashInReplay(s, c)
       PROVE  SessionInv'
  BY <1>2, <1>18 DEF CrashInReplay
<1>3. CASE Tick
  BY <1>3, SessionFrame DEF Tick
<1>4. ASSUME NEW s \in Sockets, NewConnection(s) PROVE SessionInv'
  BY <1>4 DEF NewConnection, Idle, TypeOK, SessionInv, RoutesAreLive,
    RefusedStayOut, sessionVars
<1>5. ASSUME NEW s \in Sockets, ClientDisconnected(s) PROVE SessionInv'
  <2>1. /\ socketToCompId' = [socketToCompId EXCEPT ![s] = NoComp]
        /\ clients' = clients \ {s} /\ closing' = closing \ {s}
        /\ running /\ running' /\ reader' = NoSocket
    BY <1>5 DEF ClientDisconnected, Idle, TypeOK, sessionVars
  <2>2. ASSUME NEW c \in CompIds, compIdToSocket'[c] # NoSocket
        PROVE  compIdToSocket'[c] = compIdToSocket[c] /\ compIdToSocket[c] # s
    <3>1. CASE socketToCompId[s] = c
      <4>1. compIdToSocket' = [compIdToSocket EXCEPT ![c] = NoSocket]
        BY <1>5, <3>1 DEF ClientDisconnected
      <4> QED
        BY <2>2, <4>1 DEF TypeOK
    <3>2. CASE socketToCompId[s] # c
      <4>1. compIdToSocket'[c] = compIdToSocket[c]
        BY <1>5, <3>2 DEF ClientDisconnected, TypeOK, sessionVars
      <4> QED
        BY <2>2, <3>2, <4>1 DEF SessionInv, RoutesAreLive
    <3> QED
      BY <3>1, <3>2
  <2>3. RoutesAreLive'
    BY <2>1, <2>2 DEF SessionInv, RoutesAreLive, TypeOK
  <2>4. RefusedStayOut'
    BY <2>1 DEF SessionInv, RefusedStayOut, TypeOK
  <2>5. \A r \in Sockets : socketToCompId'[r] # NoComp => r \in clients'
    BY <2>1 DEF SessionInv, TypeOK
  <2> QED
    BY <2>1, <2>3, <2>4, <2>5 DEF SessionInv
<1>6. ASSUME NEW s \in Sockets, ReadyRead(s) PROVE SessionInv'
  BY <1>6 DEF ReadyRead, Idle, SessionInv, RoutesAreLive, RefusedStayOut,
    socketVars, sessionVars
<1>7. ASSUME NEW s \in Sockets, LoopEnds(s) PROVE SessionInv'
  BY <1>7, SessionFrame DEF LoopEnds
<1>8. ASSUME NEW s \in Sockets, NEW p \in Packets, LogonAccepted(s, p)
      PROVE  SessionInv'
  <2>1. /\ p.sender \in CompIds
        /\ socketToCompId[s] = NoComp
        /\ compIdToSocket' = [compIdToSocket EXCEPT ![p.sender] = s]
        /\ socketToCompId' = [socketToCompId EXCEPT ![s] = p.sender]
        /\ UNCHANGED <<running, clients, closing, reader>>
    BY <1>8 DEF LogonAccepted, isCompIdAllowed, Loops, socketVars
  <2>2. s \in clients \ closing
    BY <1>8 DEF LogonAccepted, Takes, SessionInv
  <2>3. RoutesAreLive'
    <3>1. \A c \in CompIds : compIdToSocket[c] # s
      BY <2>1 DEF SessionInv, RoutesAreLive
    <3> QED
      BY <2>1, <2>2, <3>1 DEF SessionInv, RoutesAreLive, TypeOK
  <2>4. RefusedStayOut'
    BY <2>1, <2>2 DEF SessionInv, RefusedStayOut, TypeOK
  <2>5. \A r \in Sockets : socketToCompId'[r] # NoComp => r \in clients'
    BY <2>1, <2>2 DEF SessionInv, TypeOK
  <2> QED
    BY <2>1, <2>3, <2>4, <2>5 DEF SessionInv
<1>9. ASSUME NEW s \in Sockets, NEW p \in Packets, LogonRefused(s, p)
      PROVE  SessionInv'
  BY <1>9 DEF LogonRefused, Returns, Takes, SessionInv, RoutesAreLive,
    RefusedStayOut, sessionVars
<1>10. ASSUME NEW s \in Sockets, NEW p \in Packets, Ignored(s, p)
       PROVE  SessionInv'
  BY <1>10, SessionFrame DEF Ignored, Loops
<1>11. ASSUME NEW s \in Sockets, NEW p \in Packets, Rejected(s, p)
       PROVE  SessionInv'
  BY <1>11, SessionFrame DEF Rejected, Returns
<1>12. ASSUME NEW s \in Sockets, NEW p \in Packets, Relayed(s, p)
       PROVE  SessionInv'
  BY <1>12, SessionFrame DEF Relayed, Loops
<1>13. ASSUME NEW s \in Sockets, NEW p \in Packets, Stored(s, p)
       PROVE  SessionInv'
  BY <1>13, SessionFrame DEF Stored, Loops
<1>14. ASSUME NEW s \in Sockets, PeerReceives(s) PROVE SessionInv'
  BY <1>14, SessionFrame DEF PeerReceives
<1>15. ASSUME NEW s \in Sockets, NEW p \in Packets, PeerSends(s, p)
       PROVE  SessionInv'
  BY <1>15, SessionFrame DEF PeerSends
<1>16. CASE UNCHANGED vars
  BY <1>16, SessionFrame DEF vars
<1> QED
  BY <1>1, <1>2, <1>3, <1>4, <1>5, <1>6, <1>7, <1>8, <1>9, <1>10, <1>11,
     <1>12, <1>13, <1>14, <1>15, <1>16, <1>17, <1>18
  DEF Next, Iteration

LEMMA SessionsSound == Spec => []SessionInv
<1>1. Init => SessionInv
  BY SessionInit
<1>2. TypeOK /\ SessionInv /\ [Next]_vars => SessionInv'
  BY SessionStep
<1> QED
  BY <1>1, <1>2, TypeCorrect, PTL DEF Spec

(* Whatever the order of logons, takeovers, disconnects, address reuse,     *)
(* crashes and restarts, compIdToSocketMap_ never holds a socket that is    *)
(* gone or that is another company's (FixServer.cpp:114, :163, :220).       *)
THEOREM RoutesStayLive == Spec => []RoutesAreLive
<1>1. SessionInv => RoutesAreLive
  BY DEF SessionInv
<1> QED
  BY <1>1, SessionsSound, PTL

(* A connection refused at logon never becomes a session, whatever it sent  *)
(* behind the refused logon (FixServer.cpp:155-159).                        *)
THEOREM RefusedNeverJoin == Spec => []RefusedStayOut
<1>1. SessionInv => RefusedStayOut
  BY DEF SessionInv
<1> QED
  BY <1>1, SessionsSound, PTL

-----------------------------------------------------------------------------
(* Where messages are                                                       *)

(* A file is in its message's own directory; a forwarded message is on a    *)
(* wire of its own company.  A connection without a session carries none,   *)
(* which is why a logon, that changes the company of a wire, is harmless.   *)
FilesAtHome ==
  \A c \in Targets, t \in Times : store[c][t] # NoFile => store[c][t].to = c

WiresAtHome ==
  \A s \in Sockets : \A i \in DOMAIN outbound[s] :
    outbound[s][i].n # 0 => /\ outbound[s][i].to \in CompIds
                            /\ outbound[s][i].to = socketToCompId[s]

MailInv == FilesAtHome /\ WiresAtHome /\ NothingWaitsForOnline

LEMMA MailInit ==
  ASSUME Init PROVE MailInv
<1>1. FilesAtHome
  BY DEF Init, FilesAtHome, EmptyDir
<1>2. \A s \in Sockets : DOMAIN outbound[s] = {}
  BY DEF Init, NoPackets
<1> QED
  BY <1>1, <1>2 DEF Init, MailInv, WiresAtHome, NothingWaitsForOnline

(* A step that touches neither files nor wires nor sessions.                *)
LEMMA MailFrame ==
  ASSUME MailInv, UNCHANGED <<storeReady, store, outbound, sessionVars>>
  PROVE  MailInv'
BY DEF MailInv, FilesAtHome, WiresAtHome, NothingWaitsForOnline, IsOnline,
  sessionVars

(* Adding messages of its own company, or rejects, to a wire.               *)
LEMMA WriteAtHome ==
  ASSUME TypeOK, WiresAtHome, UNCHANGED socketToCompId,
         NEW s \in Sockets, NEW msgs \in Seq(Message), write(s, msgs),
         \A i \in DOMAIN msgs :
           msgs[i].n # 0 => /\ msgs[i].to \in CompIds
                            /\ msgs[i].to = socketToCompId[s]
  PROVE  WiresAtHome'
<1>1. outbound[s] \in Seq(Message)
  BY DEF TypeOK
<1>2. /\ outbound'[s] = outbound[s] \o msgs
      /\ \A r \in Sockets \ {s} : outbound'[r] = outbound[r]
  BY WriteType DEF TypeOK
<1>3. ASSUME NEW i \in DOMAIN outbound'[s], outbound'[s][i].n # 0
      PROVE  /\ outbound'[s][i].to \in CompIds
             /\ outbound'[s][i].to = socketToCompId[s]
  <2>1. i \in 1 .. Len(outbound[s]) + Len(msgs)
    BY <1>1, <1>2, ConcatProperties, LenProperties
  <2>2. CASE i <= Len(outbound[s])
    <3>1. i \in DOMAIN outbound[s] /\ outbound'[s][i] = outbound[s][i]
      BY <1>1, <1>2, <2>1, <2>2, ConcatProperties, LenProperties
    <3> QED
      BY <1>3, <3>1 DEF WiresAtHome
  <2>3. CASE ~(i <= Len(outbound[s]))
    <3> DEFINE j == i - Len(outbound[s])
    <3>1. j \in DOMAIN msgs /\ outbound'[s][i] = msgs[j]
      BY <1>1, <1>2, <2>1, <2>3, ConcatProperties, LenProperties
    <3> QED
      BY <1>3, <3>1
  <2> QED
    BY <2>2, <2>3
<1>4. ASSUME NEW r \in Sockets, NEW i \in DOMAIN outbound'[r],
             outbound'[r][i].n # 0
      PROVE  /\ outbound'[r][i].to \in CompIds
             /\ outbound'[r][i].to = socketToCompId[r]
  <2>1. CASE r = s
    BY <1>3, <1>4, <2>1
  <2>2. CASE r # s
    <3>1. outbound'[r] = outbound[r]
      BY <1>2, <2>2
    <3> QED
      BY <1>4, <3>1 DEF WiresAtHome
  <2> QED
    BY <2>1, <2>2
<1> QED
  BY <1>4 DEF WiresAtHome

LEMMA MailStep ==
  ASSUME TypeOK, TypeOK', SessionInv, MailInv, [Next]_vars
  PROVE  MailInv'
<1> USE SortsOfValues
<1>1. CASE Start
  <2>1. \A c \in CompIds : compIdToSocket'[c] = NoSocket
    BY <1>1 DEF Start, SessionInv, RoutesAreLive, sessionVars
  <2> QED
    BY <1>1, <2>1 DEF Start, MailInv, FilesAtHome, WiresAtHome,
      NothingWaitsForOnline, IsOnline, sessionVars
<1>2. ASSUME Dies, FilesAtHome' PROVE MailInv'
  <2>1. \A s \in Sockets : DOMAIN outbound'[s] = {}
    BY <1>2 DEF Dies, NoPackets
  <2> QED
    BY <1>2, <2>1 DEF Dies, MailInv, WiresAtHome, NothingWaitsForOnline
<1>17. CASE Crash
  BY <1>2, <1>17 DEF Crash, MailInv, FilesAtHome
<1>18. ASSUME NEW s \in Sockets, NEW c \in AllowedCompIds, CrashInReplay(s, c)
       PROVE  MailInv'
  <2>1. c \in Targets /\ Dies /\ \E t \in FileNames(store[c]) : LosesUpTo(c, t)
    BY <1>18, CrashInReplayLoses
  <2>2. \A d \in Targets, u \in Times :
          store'[d][u] # NoFile => store'[d][u] = store[d][u]
    BY <2>1, LosesTheOldest
  <2> QED
    BY <1>2, <2>1, <2>2 DEF MailInv, FilesAtHome
<1>3. CASE Tick
  BY <1>3, MailFrame DEF Tick
<1>4. ASSUME NEW s \in Sockets, NewConnection(s) PROVE MailInv'
  BY <1>4, MailFrame DEF NewConnection, fileVars
<1>5. ASSUME NEW s \in Sockets, ClientDisconnected(s) PROVE MailInv'
  <2>1. /\ UNCHANGED <<storeReady, store>>
        /\ outbound' = [outbound EXCEPT ![s] = <<>>]
        /\ \A r \in Sockets \ {s} : socketToCompId'[r] = socketToCompId[r]
    BY <1>5 DEF ClientDisconnected, fileVars, sessionVars, TypeOK
  <2>2. DOMAIN outbound'[s] = {}
        /\ \A r \in Sockets \ {s} : outbound'[r] = outbound[r]
    BY <2>1 DEF TypeOK
  <2>3. WiresAtHome'
    BY <2>1, <2>2 DEF MailInv, WiresAtHome
  <2>4. \A c \in CompIds : compIdToSocket'[c] \in {compIdToSocket[c], NoSocket}
    BY <1>5 DEF ClientDisconnected, sessionVars, TypeOK
  <2> QED
    BY <2>1, <2>3, <2>4 DEF MailInv, FilesAtHome, NothingWaitsForOnline,
      IsOnline
<1>6. ASSUME NEW s \in Sockets, ReadyRead(s) PROVE MailInv'
  BY <1>6, MailFrame DEF ReadyRead, fileVars
<1>7. ASSUME NEW s \in Sockets, LoopEnds(s) PROVE MailInv'
  BY <1>7, MailFrame DEF LoopEnds, fileVars
<1>8. ASSUME NEW s \in Sockets, NEW p \in Packets, LogonAccepted(s, p)
      PROVE  MailInv'
  <2> DEFINE c == p.sender
             q == QueuedMessages(c)
  <2>1. /\ c \in CompIds /\ c \in Targets
        /\ socketToCompId[s] = NoComp
        /\ compIdToSocket' = [compIdToSocket EXCEPT ![c] = s]
        /\ socketToCompId' = [socketToCompId EXCEPT ![s] = c]
        /\ write(s, q)
        /\ store' = IF storeReady THEN [store EXCEPT ![c] = EmptyDir] ELSE store
        /\ storeReady' = storeReady
    BY <1>8 DEF LogonAccepted, isCompIdAllowed, getAndClearQueuedMessages
  <2>2. /\ q \in Seq(Message)
        /\ \A i \in DOMAIN q : q[i].to = c
    <3>1. /\ q \in Seq(Message)
          /\ \A i \in DOMAIN q : \E t \in FileNames(store[c]) : q[i] = store[c][t]
      BY <2>1, QueuedMessagesAreFiles
    <3> QED
      BY <2>1, <3>1 DEF MailInv, FilesAtHome, FileNames
  <2> HIDE DEF q
  <2>3. WiresAtHome'
    <3>1. outbound[s] \in Seq(Message)
      BY DEF TypeOK
    <3>2. /\ outbound'[s] = outbound[s] \o q
          /\ \A r \in Sockets \ {s} : /\ outbound'[r] = outbound[r]
                                      /\ socketToCompId'[r] = socketToCompId[r]
          /\ socketToCompId'[s] = c
      BY <2>1, <2>2, WriteType DEF TypeOK
    <3>3. \A i \in DOMAIN outbound[s] : outbound[s][i].n = 0
      BY <2>1 DEF MailInv, WiresAtHome
    <3>4. ASSUME NEW i \in DOMAIN outbound'[s], outbound'[s][i].n # 0
          PROVE  outbound'[s][i].to = c
      <4>1. i \in 1 .. Len(outbound[s]) + Len(q)
        BY <2>2, <3>1, <3>2, ConcatProperties, LenProperties
      <4>2. CASE i <= Len(outbound[s])
        <5>1. i \in DOMAIN outbound[s] /\ outbound'[s][i] = outbound[s][i]
          BY <2>2, <3>1, <3>2, <4>1, <4>2, ConcatProperties, LenProperties
        <5> QED
          BY <3>3, <3>4, <5>1
      <4>3. CASE ~(i <= Len(outbound[s]))
        <5> DEFINE j == i - Len(outbound[s])
        <5>1. j \in DOMAIN q /\ outbound'[s][i] = q[j]
          BY <2>2, <3>1, <3>2, <4>1, <4>3, ConcatProperties, LenProperties
        <5> QED
          BY <2>2, <5>1
      <4> QED
        BY <4>2, <4>3
    <3>5. ASSUME NEW r \in Sockets, NEW i \in DOMAIN outbound'[r],
                 outbound'[r][i].n # 0
          PROVE  /\ outbound'[r][i].to \in CompIds
                 /\ outbound'[r][i].to = socketToCompId'[r]
      <4>1. CASE r = s
        BY <2>1, <3>2, <3>4, <3>5, <4>1
      <4>2. CASE r # s
        <5>1. outbound'[r] = outbound[r] /\ socketToCompId'[r] = socketToCompId[r]
          BY <3>2, <4>2
        <5> QED
          BY <3>5, <5>1 DEF MailInv, WiresAtHome
      <4> QED
        BY <4>1, <4>2
    <3> QED
      BY <3>5 DEF WiresAtHome
  <2>4. FilesAtHome'
    BY <2>1 DEF MailInv, FilesAtHome, EmptyDir, TypeOK
  <2>5. NothingWaitsForOnline'
    <3>1. SUFFICES ASSUME storeReady, NEW d \in CompIds,
                          compIdToSocket'[d] # NoSocket
                   PROVE  store'[d] = EmptyDir
      BY <2>1 DEF NothingWaitsForOnline, IsOnline
    <3>2. CASE d = c
      BY <2>1, <3>1, <3>2 DEF TypeOK
    <3>3. CASE d # c
      BY <2>1, <3>1, <3>3 DEF MailInv, NothingWaitsForOnline, IsOnline, TypeOK
    <3> QED
      BY <3>2, <3>3
  <2> QED
    BY <2>3, <2>4, <2>5 DEF MailInv
<1>9. ASSUME NEW s \in Sockets, NEW p \in Packets, LogonRefused(s, p)
      PROVE  MailInv'
  BY <1>9, MailFrame DEF LogonRefused, fileVars
<1>10. ASSUME NEW s \in Sockets, NEW p \in Packets, Ignored(s, p)
       PROVE  MailInv'
  BY <1>10, MailFrame DEF Ignored, fileVars
<1>11. ASSUME NEW s \in Sockets, NEW p \in Packets, Rejected(s, p)
       PROVE  MailInv'
  <2>1. <<Reject(p)>> \in Seq(Message) /\ Reject(p).n = 0
    BY <1>11, TakesType DEF Rejected, Reject, Message, Packet
  <2>2. /\ write(s, <<Reject(p)>>)
        /\ UNCHANGED <<storeReady, store, compIdToSocket, socketToCompId>>
    BY <1>11 DEF Rejected, fileVars, sessionVars
  <2> DEFINE msgs == <<Reject(p)>>
  <2>3. \A i \in DOMAIN msgs : msgs[i].n = 0
    BY <2>1
  <2> HIDE DEF msgs
  <2>4. WiresAtHome'
    BY <2>1, <2>2, <2>3, WriteAtHome DEF MailInv, msgs
  <2> QED
    BY <2>2, <2>4 DEF MailInv, FilesAtHome, NothingWaitsForOnline, IsOnline
<1>12. ASSUME NEW s \in Sockets, NEW p \in Packets, Relayed(s, p)
       PROVE  MailInv'
  <2> DEFINE c == p.deliverTo
             m == [n |-> routed + 1, to |-> c, tagged |-> TRUE]
  <2>1. /\ c \in CompIds /\ compIdToSocket[c] # NoSocket
        /\ write(compIdToSocket[c], <<m>>)
        /\ UNCHANGED <<storeReady, store, compIdToSocket, socketToCompId>>
    BY <1>12 DEF Relayed, IsOnline, fileVars, sessionVars
  <2>2. compIdToSocket[c] \in Sockets /\ socketToCompId[compIdToSocket[c]] = c
    BY <2>1 DEF SessionInv, RoutesAreLive, TypeOK
  <2>3. <<m>> \in Seq(Message) /\ m.to = c
    BY <2>1 DEF Message, TypeOK
  <2> HIDE DEF m
  <2>4. WiresAtHome'
    BY SMTT(30), <2>1, <2>2, <2>3, WriteAtHome DEF MailInv
  <2> QED
    BY <2>1, <2>4 DEF MailInv, FilesAtHome, NothingWaitsForOnline, IsOnline
<1>13. ASSUME NEW s \in Sockets, NEW p \in Packets, Stored(s, p)
       PROVE  MailInv'
  <2> DEFINE c == p.deliverTo
             m == [n |-> routed + 1, to |-> c, tagged |-> FALSE]
  <2>1. /\ c \in Targets /\ ~IsOnline(c)
        /\ store' = [store EXCEPT ![c][clock] = m] \/ store' = store
        /\ UNCHANGED <<storeReady, outbound, compIdToSocket, socketToCompId>>
    BY <1>13, TakesType DEF Stored, storeMessage, sessionVars, Packet
  <2>2. m.to = c
    OBVIOUS
  <2> HIDE DEF m
  <2>3. FilesAtHome'
    <3>1. CASE store' = store
      BY <3>1 DEF MailInv, FilesAtHome
    <3>2. CASE store' = [store EXCEPT ![c][clock] = m]
      BY <2>1, <2>2, <3>2 DEF MailInv, FilesAtHome, TypeOK
    <3> QED
      BY <2>1, <3>1, <3>2
  <2>4. \A d \in CompIds : IsOnline(d) => store'[d] = store[d]
    BY <2>1 DEF TypeOK
  <2> QED
    BY <2>1, <2>3, <2>4 DEF MailInv, WiresAtHome, NothingWaitsForOnline, IsOnline
<1>14. ASSUME NEW s \in Sockets, PeerReceives(s) PROVE MailInv'
  <2>1. /\ outbound[s] \in Seq(Message) /\ outbound[s] # <<>>
        /\ outbound' = [outbound EXCEPT ![s] = Tail(@)]
        /\ UNCHANGED <<storeReady, store, compIdToSocket, socketToCompId>>
    BY <1>14 DEF PeerReceives, TypeOK, fileVars, sessionVars
  <2>2. \A i \in DOMAIN outbound'[s] :
          i + 1 \in DOMAIN outbound[s] /\ outbound'[s][i] = outbound[s][i + 1]
    BY <2>1, HeadTailProperties, LenProperties DEF TypeOK
  <2>3. \A r \in Sockets \ {s} : outbound'[r] = outbound[r]
    BY <2>1 DEF TypeOK
  <2>4. WiresAtHome'
    BY <2>1, <2>2, <2>3 DEF MailInv, WiresAtHome
  <2> QED
    BY <2>1, <2>4 DEF MailInv, FilesAtHome, NothingWaitsForOnline, IsOnline
<1>15. ASSUME NEW s \in Sockets, NEW p \in Packets, PeerSends(s, p)
       PROVE  MailInv'
  BY <1>15, MailFrame DEF PeerSends, fileVars
<1>16. CASE UNCHANGED vars
  BY <1>16, MailFrame DEF vars, fileVars
<1> QED
  BY <1>1, <1>2, <1>3, <1>4, <1>5, <1>6, <1>7, <1>8, <1>9, <1>10, <1>11,
     <1>12, <1>13, <1>14, <1>15, <1>16, <1>17, <1>18
  DEF Next, Iteration

LEMMA MailSound == Spec => []MailInv
<1>1. Init => MailInv
  BY MailInit
<1>2. TypeOK /\ TypeOK' /\ SessionInv /\ MailInv /\ [Next]_vars => MailInv'
  BY MailStep
<1> QED
  BY <1>1, <1>2, TypeCorrect, SessionsSound, PTL DEF Spec

(* What the hub forwards or replays is only ever on its way to a connection *)
(* of the company it is addressed to.                                       *)
THEOREM ForwardsOnlyToAddressee == Spec => []OnlyToAddressee
<1>1. MailInv => OnlyToAddressee
  BY DEF MailInv, WiresAtHome, OnlyToAddressee
<1> QED
  BY <1>1, MailSound, PTL

(* Nothing is left in the directory of a company the hub can reach, so no   *)
(* message for it is overtaken by one that is relayed at once.              *)
THEOREM NothingWaits == Spec => []NothingWaitsForOnline
<1>1. MailInv => NothingWaitsForOnline
  BY DEF MailInv
<1> QED
  BY <1>1, MailSound, PTL

-----------------------------------------------------------------------------
(* The order on a wire, when the clock does not run backwards               *)

(* Files of a target are named in routing order, none later than the clock, *)
(* so the next file sorts behind the others, and every ticket on a wire has *)
(* been given out, so the next one is larger.                               *)
FilesInOrder ==
  \A c \in Targets : \A t \in FileNames(store[c]) :
    /\ t <= clock
    /\ store[c][t].n <= routed
    /\ \A u \in FileNames(store[c]) : t < u => store[c][t].n < store[c][u].n

WiresInOrder ==
  /\ InRoutingOrder
  /\ \A s \in Sockets : \A i \in DOMAIN outbound[s] : outbound[s][i].n <= routed

OrderInv == FilesInOrder /\ WiresInOrder

LEMMA OrderInit ==
  ASSUME Init PROVE OrderInv
<1>1. \A c \in Targets : FileNames(store[c]) = {}
  BY DEF Init, FileNames, EmptyDir
<1>2. \A s \in Sockets : DOMAIN outbound[s] = {}
  BY DEF Init, NoPackets
<1> QED
  BY <1>1, <1>2 DEF OrderInv, FilesInOrder, WiresInOrder, InRoutingOrder

LEMMA OrderFrame ==
  ASSUME OrderInv, UNCHANGED <<store, clock, outbound, routed>>
  PROVE  OrderInv'
BY DEF OrderInv, FilesInOrder, WiresInOrder, InRoutingOrder, FileNames

(* Wires that are cut short at either end stay in order.                    *)
LEMMA CutWires ==
  ASSUME WiresInOrder, UNCHANGED routed,
         \A s \in Sockets : \E k \in Nat : \A i \in DOMAIN outbound'[s] :
           /\ i \in Nat /\ i + k \in DOMAIN outbound[s]
           /\ outbound'[s][i] = outbound[s][i + k]
  PROVE  WiresInOrder'
<1>1. ASSUME NEW s \in Sockets
      PROVE  /\ \A i \in DOMAIN outbound'[s] : outbound'[s][i].n <= routed
             /\ \A i, j \in DOMAIN outbound'[s] :
                  /\ i < j /\ outbound'[s][i].n # 0 /\ outbound'[s][j].n # 0
                  => outbound'[s][i].n < outbound'[s][j].n
  <2>1. PICK k \in Nat : \A i \in DOMAIN outbound'[s] :
           /\ i \in Nat /\ i + k \in DOMAIN outbound[s]
           /\ outbound'[s][i] = outbound[s][i + k]
    OBVIOUS
  <2>2. \A i, j \in DOMAIN outbound'[s] : i < j => i + k < j + k
    BY <2>1
  <2> QED
    BY <2>1, <2>2 DEF WiresInOrder, InRoutingOrder
<1> QED
  BY <1>1 DEF WiresInOrder, InRoutingOrder

(* Messages written to a wire behind messages with smaller tickets.         *)
LEMMA WriteInOrder ==
  ASSUME TypeOK, WiresInOrder, routed' \in Nat, routed <= routed',
         NEW s \in Sockets, NEW msgs \in Seq(Message), write(s, msgs),
         \A i \in DOMAIN msgs : msgs[i].n <= routed',
         \A i, j \in DOMAIN msgs :
           i < j /\ msgs[i].n # 0 /\ msgs[j].n # 0 => msgs[i].n < msgs[j].n,
         \A i \in DOMAIN outbound[s], j \in DOMAIN msgs :
           outbound[s][i].n # 0 /\ msgs[j].n # 0 => outbound[s][i].n < msgs[j].n
  PROVE  WiresInOrder'
<1> DEFINE q == outbound[s]
           n == Len(q)
<1>1. q \in Seq(Message) /\ n \in Nat /\ DOMAIN q = 1 .. n
  BY LenProperties DEF TypeOK
<1>2. /\ outbound'[s] = q \o msgs
      /\ \A r \in Sockets \ {s} : outbound'[r] = outbound[r]
  BY WriteType DEF TypeOK
<1>3. Len(msgs) \in Nat /\ DOMAIN msgs = 1 .. Len(msgs)
  BY LenProperties
<1> HIDE DEF q, n
<1>4. DOMAIN outbound'[s] = 1 .. n + Len(msgs)
  BY <1>1, <1>2, ConcatProperties, LenProperties DEF n
<1>5. ASSUME NEW i \in DOMAIN outbound'[s]
      PROVE  \/ i \in DOMAIN q /\ outbound'[s][i] = q[i]
             \/ i - n \in DOMAIN msgs /\ outbound'[s][i] = msgs[i - n] /\ n < i
  BY <1>1, <1>2, <1>3, <1>4, ConcatProperties DEF n
<1>6. ASSUME NEW i \in DOMAIN q, NEW j \in DOMAIN q
      PROVE  /\ q[i].n <= routed
             /\ i < j /\ q[i].n # 0 /\ q[j].n # 0 => q[i].n < q[j].n
  BY DEF WiresInOrder, InRoutingOrder, q
<1>7. ASSUME NEW r \in Sockets, NEW i \in DOMAIN outbound[r]
      PROVE  outbound[r][i].n \in Nat /\ outbound[r][i].n <= routed'
  <2>1. outbound[r][i] \in Message
    BY DEF TypeOK
  <2>2. outbound[r][i].n \in Nat /\ outbound[r][i].n <= routed
    BY <2>1 DEF Message, WiresInOrder
  <2> QED
    BY <2>2 DEF TypeOK
<1>8. \A i \in DOMAIN outbound'[s] : outbound'[s][i].n <= routed'
  BY <1>5, <1>7 DEF q
<1>9. ASSUME NEW i \in DOMAIN outbound'[s], NEW j \in DOMAIN outbound'[s],
             i < j, outbound'[s][i].n # 0, outbound'[s][j].n # 0
      PROVE  outbound'[s][i].n < outbound'[s][j].n
  <2>1. i \in Int /\ j \in Int
    BY <1>4
  <2>2. CASE j \in DOMAIN q /\ outbound'[s][j] = q[j]
    <3>1. i \in DOMAIN q /\ outbound'[s][i] = q[i]
      BY <1>1, <1>5, <1>9, <2>1, <2>2
    <3> QED
      BY <1>6, <1>9, <2>2, <3>1
  <2>3. CASE j - n \in DOMAIN msgs /\ outbound'[s][j] = msgs[j - n]
    <3>1. CASE i \in DOMAIN q /\ outbound'[s][i] = q[i]
      BY <1>9, <2>3, <3>1 DEF q
    <3>2. CASE i - n \in DOMAIN msgs /\ outbound'[s][i] = msgs[i - n]
      <4>1. i - n < j - n
        BY <1>1, <1>9, <2>1
      <4> QED
        BY <1>9, <2>3, <3>2, <4>1
    <3> QED
      BY <1>5, <3>1, <3>2
  <2> QED
    BY <1>5, <2>2, <2>3
<1>10. \A r \in Sockets \ {s} :
         /\ \A i \in DOMAIN outbound'[r] : outbound'[r][i].n <= routed'
         /\ \A i, j \in DOMAIN outbound'[r] :
              /\ i < j /\ outbound'[r][i].n # 0 /\ outbound'[r][j].n # 0
              => outbound'[r][i].n < outbound'[r][j].n
  BY <1>2, <1>7 DEF WiresInOrder, InRoutingOrder
<1> QED
  BY <1>8, <1>9, <1>10 DEF WiresInOrder, InRoutingOrder

LEMMA OrderStep ==
  ASSUME ~ClockMaySlip, TypeOK, TypeOK', SessionInv, MailInv, OrderInv,
         [Next]_vars
  PROVE  OrderInv'
<1> USE SortsOfValues
<1>1. CASE Start
  BY <1>1, OrderFrame DEF Start
<1>2. ASSUME Dies,
             \A d \in Targets, u \in Times :
               store'[d][u] # NoFile => store'[d][u] = store[d][u]
      PROVE  OrderInv'
  <2>1. \A s \in Sockets : DOMAIN outbound'[s] = {}
    BY <1>2 DEF Dies, NoPackets
  <2>2. clock' = clock /\ routed' = routed
    BY <1>2 DEF Dies
  <2>3. ASSUME NEW d \in Targets, NEW t \in FileNames(store'[d])
        PROVE  t \in FileNames(store[d]) /\ store'[d][t] = store[d][t]
    BY <1>2 DEF FileNames
  <2>4. FilesInOrder'
    BY <2>2, <2>3 DEF OrderInv, FilesInOrder
  <2> QED
    BY <2>1, <2>4 DEF OrderInv, WiresInOrder, InRoutingOrder
<1>17. CASE Crash
  BY <1>2, <1>17 DEF Crash
<1>18. ASSUME NEW s \in Sockets, NEW c \in AllowedCompIds, CrashInReplay(s, c)
       PROVE  OrderInv'
  <2>1. c \in Targets /\ Dies /\ \E t \in FileNames(store[c]) : LosesUpTo(c, t)
    BY <1>18, CrashInReplayLoses
  <2>2. \A d \in Targets, u \in Times :
          store'[d][u] # NoFile => store'[d][u] = store[d][u]
    BY <2>1, LosesTheOldest
  <2> QED
    BY <1>2, <2>1, <2>2
<1>3. CASE Tick
  <2>1. /\ clock < clock' /\ clock \in Nat /\ clock' \in Nat
        /\ UNCHANGED <<store, outbound, routed>>
    BY <1>3 DEF Tick, wireVars, TypeOK
  <2>2. \A c \in Targets : \A t \in FileNames(store[c]) : t \in Nat
    BY DEF FileNames
  <2> QED
    BY <2>1, <2>2 DEF OrderInv, FilesInOrder, WiresInOrder, InRoutingOrder,
      FileNames
<1>4. ASSUME NEW s \in Sockets, NewConnection(s) PROVE OrderInv'
  BY <1>4, OrderFrame DEF NewConnection, fileVars
<1>5. ASSUME NEW s \in Sockets, ClientDisconnected(s) PROVE OrderInv'
  <2>1. /\ UNCHANGED <<store, clock, routed>>
        /\ outbound' = [outbound EXCEPT ![s] = <<>>]
    BY <1>5 DEF ClientDisconnected, fileVars
  <2>2. ASSUME NEW r \in Sockets
        PROVE  \A i \in DOMAIN outbound'[r] :
                 /\ i \in Nat /\ i + 0 \in DOMAIN outbound[r]
                 /\ outbound'[r][i] = outbound[r][i + 0]
    <3>1. DOMAIN outbound'[s] = {} /\ (r # s => outbound'[r] = outbound[r])
      BY <2>1 DEF TypeOK
    <3>2. \A i \in DOMAIN outbound[r] : i \in Nat /\ i + 0 = i
      <4>1. outbound[r] \in Seq(Message)
        BY DEF TypeOK
      <4> QED
        BY <4>1, LenProperties
    <3> QED
      BY <3>1, <3>2
  <2>3. WiresInOrder'
    BY <2>1, <2>2, CutWires DEF OrderInv
  <2> QED
    BY <2>1, <2>3 DEF OrderInv, FilesInOrder, FileNames
<1>6. ASSUME NEW s \in Sockets, ReadyRead(s) PROVE OrderInv'
  BY <1>6, OrderFrame DEF ReadyRead, fileVars
<1>7. ASSUME NEW s \in Sockets, LoopEnds(s) PROVE OrderInv'
  BY <1>7, OrderFrame DEF LoopEnds, fileVars
<1>8. ASSUME NEW s \in Sockets, NEW p \in Packets, LogonAccepted(s, p)
      PROVE  OrderInv'
  <2> DEFINE c == p.sender
             q == QueuedMessages(c)
  <2>1. /\ c \in Targets
        /\ socketToCompId[s] = NoComp
        /\ write(s, q)
        /\ store' = IF storeReady THEN [store EXCEPT ![c] = EmptyDir] ELSE store
        /\ UNCHANGED <<clock, routed>>
    BY <1>8 DEF LogonAccepted, isCompIdAllowed, getAndClearQueuedMessages
  <2>2. /\ q \in Seq(Message)
        /\ \A i \in DOMAIN q : q[i].n <= routed
        /\ \A i, j \in DOMAIN q : i < j => q[i].n < q[j].n
    <3>1. /\ q \in Seq(Message)
          /\ \A i \in DOMAIN q : \E t \in FileNames(store[c]) : q[i] = store[c][t]
          /\ \A i, j \in DOMAIN q :
               i < j => \E t, u \in FileNames(store[c]) :
                          t < u /\ q[i] = store[c][t] /\ q[j] = store[c][u]
      BY SMTT(30), <2>1, QueuedMessagesAreFiles
    <3> QED
      BY <2>1, <3>1 DEF OrderInv, FilesInOrder
  <2>3. \A i \in DOMAIN outbound[s] : outbound[s][i].n = 0
    BY <2>1 DEF MailInv, WiresAtHome
  <2> HIDE DEF q
  <2>4. WiresInOrder'
    <3>1. routed' \in Nat /\ routed <= routed'
      BY <2>1 DEF TypeOK
    <3>2. \A i \in DOMAIN q : q[i].n <= routed'
      BY <2>1, <2>2
    <3> QED
      BY <2>1, <2>2, <2>3, <3>1, <3>2, WriteInOrder DEF OrderInv
  <2>5. \A d \in Targets : \/ store'[d] = store[d]
                           \/ FileNames(store'[d]) = {}
    BY <2>1 DEF FileNames, EmptyDir, TypeOK
  <2>6. ASSUME NEW d \in Targets, NEW t \in FileNames(store'[d])
        PROVE  /\ t <= clock
               /\ store'[d][t].n <= routed
               /\ \A u \in FileNames(store'[d]) :
                    t < u => store'[d][t].n < store'[d][u].n
    <3>1. store'[d] = store[d]
      BY <2>5, <2>6
    <3> QED
      BY <2>6, <3>1 DEF OrderInv, FilesInOrder
  <2>7. \A d \in Targets : FileNames(store[d])' = FileNames(store'[d])
    BY DEF FileNames
  <2>8. FilesInOrder'
    BY <2>1, <2>6, <2>7 DEF FilesInOrder
  <2> QED
    BY <2>4, <2>8 DEF OrderInv
<1>9. ASSUME NEW s \in Sockets, NEW p \in Packets, LogonRefused(s, p)
      PROVE  OrderInv'
  BY <1>9, OrderFrame DEF LogonRefused, fileVars
<1>10. ASSUME NEW s \in Sockets, NEW p \in Packets, Ignored(s, p)
       PROVE  OrderInv'
  BY <1>10, OrderFrame DEF Ignored, fileVars
<1>11. ASSUME NEW s \in Sockets, NEW p \in Packets, Rejected(s, p)
       PROVE  OrderInv'
  <2> DEFINE msgs == <<Reject(p)>>
  <2>1. msgs \in Seq(Message) /\ \A i \in DOMAIN msgs : msgs[i].n = 0
    BY <1>11, TakesType DEF Rejected, Reject, Message, Packet
  <2>2. write(s, msgs) /\ UNCHANGED <<store, clock, routed>> /\ routed \in Nat
    BY <1>11 DEF Rejected, fileVars, TypeOK
  <2> HIDE DEF msgs
  <2>3. WiresInOrder'
    BY <2>1, <2>2, WriteInOrder DEF OrderInv
  <2> QED
    BY <2>2, <2>3 DEF OrderInv, FilesInOrder, FileNames
<1>12. ASSUME NEW s \in Sockets, NEW p \in Packets, Relayed(s, p)
       PROVE  OrderInv'
  <2> DEFINE r == compIdToSocket[p.deliverTo]
             m == [n |-> routed + 1, to |-> p.deliverTo, tagged |-> TRUE]
             msgs == <<m>>
  <2>1. /\ r \in Sockets
        /\ write(r, msgs)
        /\ routed' = routed + 1 /\ routed \in Nat
        /\ UNCHANGED <<store, clock>>
    BY <1>12 DEF Relayed, IsOnline, fileVars, TypeOK
  <2>2. /\ msgs \in Seq(Message)
        /\ DOMAIN msgs = {1}
        /\ msgs[1].n = routed + 1
    BY <1>12, <2>1, TakesType DEF Relayed, Message, Packet
  <2> HIDE DEF r, msgs
  <2>3. \A i \in DOMAIN outbound[r] : outbound[r][i].n \in Nat
    <3>1. \A i \in DOMAIN outbound[r] : outbound[r][i] \in Message
      BY <2>1 DEF TypeOK
    <3> QED
      BY <3>1 DEF Message
  <2>4. \A i \in DOMAIN outbound[r] : outbound[r][i].n < routed + 1
    BY <2>1, <2>3 DEF OrderInv, WiresInOrder
  <2>5. WiresInOrder'
    BY <2>1, <2>2, <2>4, WriteInOrder DEF OrderInv
  <2>6. ASSUME NEW c \in Targets, NEW t \in FileNames(store[c])
        PROVE  store[c][t].n <= routed + 1
    <3>1. store[c][t] \in Message
      BY DEF TypeOK, FileNames
    <3> QED
      BY <2>1, <3>1 DEF OrderInv, FilesInOrder, Message
  <2> QED
    BY <2>1, <2>5, <2>6 DEF OrderInv, FilesInOrder, FileNames
<1>13. ASSUME NEW s \in Sockets, NEW p \in Packets, Stored(s, p)
       PROVE  OrderInv'
  <2> DEFINE c == p.deliverTo
             m == [n |-> routed + 1, to |-> c, tagged |-> FALSE]
  <2>1. /\ c \in Targets
        /\ store' = [store EXCEPT ![c][clock] = m] \/ store' = store
        /\ routed' = routed + 1 /\ routed \in Nat
        /\ UNCHANGED <<clock, outbound>>
        /\ clock \in Times /\ clock \in Nat
    BY <1>13, TakesType DEF Stored, storeMessage, Packet, TypeOK
  <2>2. m.n = routed + 1
    OBVIOUS
  <2> HIDE DEF m
  <2>3. ASSUME NEW d \in Targets, NEW t \in FileNames(store[d])
        PROVE  /\ t \in Nat /\ t <= clock
               /\ store[d][t].n \in Nat /\ store[d][t].n <= routed
    <3>1. store[d][t] \in Message /\ t \in Nat
      BY DEF TypeOK, FileNames
    <3> QED
      BY <3>1 DEF OrderInv, FilesInOrder, Message
  <2>4. ASSUME NEW d \in Targets, NEW t \in FileNames(store'[d])
        PROVE  \/ t \in FileNames(store[d]) /\ store'[d][t] = store[d][t]
               \/ t = clock /\ store'[d][t].n = routed + 1
    <3>1. CASE store' = store
      BY <3>1
    <3>2. CASE store' = [store EXCEPT ![c][clock] = m]
      BY <2>1, <2>2, <3>2 DEF FileNames, TypeOK
    <3> QED
      BY <2>1, <3>1, <3>2
  <2>5. ASSUME NEW d \in Targets, NEW t \in FileNames(store'[d]),
               NEW u \in FileNames(store'[d]), t < u
        PROVE  store'[d][t].n < store'[d][u].n
    <3>1. t \in FileNames(store[d]) /\ store'[d][t] = store[d][t]
      <4>1. u \in FileNames(store[d]) \/ u = clock
        BY <2>4
      <4>2. u <= clock /\ u \in Nat
        BY <2>1, <2>3, <4>1
      <4>3. t # clock
        BY <2>1, <2>5, <4>2
      <4> QED
        BY <2>4, <4>3
    <3>2. CASE u \in FileNames(store[d]) /\ store'[d][u] = store[d][u]
      BY <2>5, <3>1, <3>2 DEF OrderInv, FilesInOrder
    <3>3. CASE store'[d][u].n = routed + 1
      BY <2>1, <2>3, <3>1, <3>3
    <3> QED
      BY <2>4, <3>2, <3>3
  <2>6. ASSUME NEW d \in Targets, NEW t \in FileNames(store'[d])
        PROVE  t <= clock /\ store'[d][t].n <= routed + 1
    <3>1. CASE t \in FileNames(store[d]) /\ store'[d][t] = store[d][t]
      BY <2>1, <2>3, <3>1
    <3>2. CASE t = clock /\ store'[d][t].n = routed + 1
      BY <2>1, <3>2
    <3> QED
      BY <2>4, <3>1, <3>2
  <2>7. FilesInOrder'
    BY <2>1, <2>5, <2>6 DEF FilesInOrder, FileNames
  <2>8. ASSUME NEW r \in Sockets, NEW i \in DOMAIN outbound[r]
        PROVE  outbound[r][i].n <= routed + 1
    <3>1. outbound[r] \in Seq(Message)
      BY DEF TypeOK
    <3>2. outbound[r][i] \in Message
      BY <3>1
    <3> QED
      BY <2>1, <3>2 DEF OrderInv, WiresInOrder, Message
  <2>9. WiresInOrder'
    BY <2>1, <2>8 DEF OrderInv, WiresInOrder, InRoutingOrder
  <2> QED
    BY <2>7, <2>9 DEF OrderInv
<1>14. ASSUME NEW s \in Sockets, PeerReceives(s) PROVE OrderInv'
  <2>1. /\ outbound[s] \in Seq(Message) /\ outbound[s] # <<>>
        /\ outbound' = [outbound EXCEPT ![s] = Tail(@)]
        /\ UNCHANGED <<store, clock, routed>>
    BY <1>14 DEF PeerReceives, TypeOK, fileVars
  <2>2. \A i \in DOMAIN outbound'[s] :
          /\ i \in Nat /\ i + 1 \in DOMAIN outbound[s]
          /\ outbound'[s][i] = outbound[s][i + 1]
    BY <2>1, HeadTailProperties, LenProperties DEF TypeOK
  <2>3. ASSUME NEW r \in Sockets, r # s
        PROVE  \A i \in DOMAIN outbound'[r] :
                 /\ i \in Nat /\ i + 0 \in DOMAIN outbound[r]
                 /\ outbound'[r][i] = outbound[r][i + 0]
    <3>1. outbound'[r] = outbound[r] /\ outbound[r] \in Seq(Message)
      BY <2>1, <2>3 DEF TypeOK
    <3>2. \A i \in DOMAIN outbound[r] : i \in Nat /\ i + 0 = i
      BY <3>1, LenProperties
    <3> QED
      BY <3>1, <3>2
  <2>4. ASSUME NEW r \in Sockets
        PROVE  \E k \in Nat : \A i \in DOMAIN outbound'[r] :
                 /\ i \in Nat /\ i + k \in DOMAIN outbound[r]
                 /\ outbound'[r][i] = outbound[r][i + k]
    <3>1. CASE r = s
      <4> WITNESS 1 \in Nat
      <4> QED
        BY <2>2, <3>1
    <3>2. CASE r # s
      <4> WITNESS 0 \in Nat
      <4> QED
        BY <2>3, <3>2
    <3> QED
      BY <3>1, <3>2
  <2>5. WiresInOrder'
    BY <2>1, <2>4, CutWires DEF OrderInv
  <2> QED
    BY <2>1, <2>5 DEF OrderInv, FilesInOrder, FileNames
<1>15. ASSUME NEW s \in Sockets, NEW p \in Packets, PeerSends(s, p)
       PROVE  OrderInv'
  BY <1>15, OrderFrame DEF PeerSends, fileVars
<1>16. CASE UNCHANGED vars
  BY <1>16, OrderFrame DEF vars, fileVars
<1> QED
  BY <1>1, <1>2, <1>3, <1>4, <1>5, <1>6, <1>7, <1>8, <1>9, <1>10, <1>11,
     <1>12, <1>13, <1>14, <1>15, <1>16, <1>17, <1>18
  DEF Next, Iteration

LEMMA OrderSound ==
  ASSUME ~ClockMaySlip
  PROVE  Spec => []OrderInv
<1>1. Init => OrderInv
  BY OrderInit
<1>2. TypeOK /\ TypeOK' /\ SessionInv /\ MailInv /\ OrderInv /\ [Next]_vars
        => OrderInv'
  BY OrderStep
<1> QED
  BY <1>1, <1>2, TypeCorrect, SessionsSound, MailSound, PTL DEF Spec

(* While the clock that names the files does not run backwards, every       *)
(* connection carries messages in the order the hub routed them: replayed   *)
(* messages among themselves, before those relayed after the logon, through *)
(* any number of disconnects and restarts (README.md:18).                   *)
THEOREM ReplayKeepsOrder ==
  ASSUME ~ClockMaySlip
  PROVE  Spec => []InRoutingOrder
<1>1. OrderInv => InRoutingOrder
  BY DEF OrderInv, WiresInOrder
<1> QED
  BY <1>1, OrderSound, PTL

-----------------------------------------------------------------------------
(* What a step does to messages                                             *)

(* The steps of Next as the messages see them: most leave them alone, wires *)
(* break, alone or with a replay that has just begun, the files of a company*)
(* are replayed, a reject or a message with the next ticket is written, a   *)
(* message with the next ticket is stored or not, or one is received.       *)
Quiet == UNCHANGED <<store, outbound, delivered, routed>>

AllBreak ==
  /\ outbound' = NoPackets /\ clients' = {}
  /\ UNCHANGED <<store, delivered, routed>>

ReplayBreaks(c) ==
  /\ outbound' = NoPackets /\ clients' = {} /\ ~running'
  /\ \E s \in Sockets : LogonIsNext(s, c)
  /\ \E t \in FileNames(store[c]) : LosesUpTo(c, t)
  /\ UNCHANGED <<delivered, routed>>

OneBreaks(s) ==
  /\ outbound' = [outbound EXCEPT ![s] = <<>>] /\ s \notin clients'
  /\ UNCHANGED <<store, delivered, routed>>

Replays(s, c) ==
  /\ write(s, QueuedMessages(c)) /\ getAndClearQueuedMessages(c)
  /\ UNCHANGED <<delivered, routed>>

Notifies(s, m) ==
  m.n = 0 /\ write(s, <<m>>) /\ UNCHANGED <<store, delivered, routed>>

Forwards(s, m) ==
  /\ m.n = routed + 1 /\ routed' = routed + 1
  /\ write(s, <<m>>) /\ UNCHANGED <<store, delivered>>

Keeps(c, m) ==
  /\ m.n = routed + 1 /\ routed' = routed + 1
  /\ storeMessage(c, m) /\ UNCHANGED <<outbound, delivered>>

MailMoves ==
  \/ Quiet
  \/ AllBreak
  \/ \E c \in Targets : ReplayBreaks(c)
  \/ \E s \in Sockets : OneBreaks(s)
  \/ \E s \in Sockets, c \in Targets : Replays(s, c)
  \/ \E s \in Sockets, m \in Message : Notifies(s, m)
  \/ \E s \in Sockets, m \in Message : Forwards(s, m)
  \/ \E c \in Targets, m \in Message : Keeps(c, m)
  \/ \E s \in Sockets : PeerReceives(s)

LEMMA StepsMoveMail ==
  ASSUME TypeOK, [Next]_vars
  PROVE  MailMoves
<1> USE SortsOfValues
<1>1. CASE Start
  BY <1>1 DEF Start, MailMoves, Quiet, wireVars
<1>2. CASE Crash
  BY <1>2 DEF Crash, Dies, MailMoves, AllBreak
<1>17. ASSUME NEW s \in Sockets, NEW c \in AllowedCompIds, CrashInReplay(s, c)
       PROVE  MailMoves
  <2>1. /\ c \in Targets /\ LogonIsNext(s, c) /\ Dies
        /\ \E t \in FileNames(store[c]) : LosesUpTo(c, t)
    BY <1>17, CrashInReplayLoses
  <2>2. ReplayBreaks(c)
    BY <2>1 DEF Dies, ReplayBreaks
  <2> QED
    BY <2>1, <2>2 DEF MailMoves
<1>3. CASE Tick
  BY <1>3 DEF Tick, MailMoves, Quiet, wireVars
<1>4. ASSUME NEW s \in Sockets, NewConnection(s) PROVE MailMoves
  BY <1>4 DEF NewConnection, MailMoves, Quiet, fileVars, wireVars
<1>5. ASSUME NEW s \in Sockets, ClientDisconnected(s) PROVE MailMoves
  <2>1. OneBreaks(s)
    BY <1>5 DEF ClientDisconnected, OneBreaks, fileVars
  <2> QED
    BY <2>1 DEF MailMoves
<1>6. ASSUME NEW s \in Sockets, ReadyRead(s) PROVE MailMoves
  BY <1>6 DEF ReadyRead, MailMoves, Quiet, fileVars
<1>7. ASSUME NEW s \in Sockets, LoopEnds(s) PROVE MailMoves
  BY <1>7 DEF LoopEnds, MailMoves, Quiet, fileVars, wireVars
<1>8. ASSUME NEW s \in Sockets, NEW p \in Packets, LogonAccepted(s, p)
      PROVE  MailMoves
  <2>1. p.sender \in Targets /\ Replays(s, p.sender)
    BY <1>8 DEF LogonAccepted, isCompIdAllowed, Replays, wireVars
  <2> QED
    BY <2>1 DEF MailMoves
<1>9. ASSUME NEW s \in Sockets, NEW p \in Packets, LogonRefused(s, p)
      PROVE  MailMoves
  BY <1>9 DEF LogonRefused, MailMoves, Quiet, fileVars, wireVars
<1>10. ASSUME NEW s \in Sockets, NEW p \in Packets, Ignored(s, p)
       PROVE  MailMoves
  BY <1>10 DEF Ignored, MailMoves, Quiet, fileVars, wireVars
<1>11. ASSUME NEW s \in Sockets, NEW p \in Packets, Rejected(s, p)
       PROVE  MailMoves
  <2>1. Reject(p) \in Message /\ Reject(p).n = 0
    BY <1>11, TakesType DEF Rejected, Reject, Message, Packet
  <2>2. Notifies(s, Reject(p))
    BY <1>11, <2>1 DEF Rejected, Notifies, fileVars, wireVars
  <2> QED
    BY <2>1, <2>2 DEF MailMoves
<1>12. ASSUME NEW s \in Sockets, NEW p \in Packets, Relayed(s, p)
       PROVE  MailMoves
  <2> DEFINE m == [n |-> routed + 1, to |-> p.deliverTo, tagged |-> TRUE]
             r == compIdToSocket[p.deliverTo]
  <2>1. r \in Sockets /\ m \in Message /\ m.n = routed + 1
    BY <1>12, TakesType DEF Relayed, IsOnline, Message, Packet, TypeOK
  <2>2. /\ write(r, <<m>>) /\ routed' = routed + 1
        /\ UNCHANGED <<store, delivered>>
    BY <1>12 DEF Relayed, fileVars, wireVars
  <2> HIDE DEF m, r
  <2>3. Forwards(r, m)
    BY <2>1, <2>2 DEF Forwards
  <2> QED
    BY <2>1, <2>3 DEF MailMoves
<1>13. ASSUME NEW s \in Sockets, NEW p \in Packets, Stored(s, p)
       PROVE  MailMoves
  <2> DEFINE m == [n |-> routed + 1, to |-> p.deliverTo, tagged |-> FALSE]
             c == p.deliverTo
  <2>1. c \in Targets /\ m \in Message /\ m.n = routed + 1
    BY <1>13, TakesType DEF Stored, Message, Packet, TypeOK
  <2>2. /\ storeMessage(c, m) /\ routed' = routed + 1
        /\ UNCHANGED <<outbound, delivered>>
    BY <1>13 DEF Stored, wireVars
  <2> HIDE DEF m, c
  <2>3. Keeps(c, m)
    BY <2>1, <2>2 DEF Keeps
  <2> QED
    BY <2>1, <2>3 DEF MailMoves
<1>14. ASSUME NEW s \in Sockets, PeerReceives(s) PROVE MailMoves
  BY <1>14 DEF MailMoves
<1>15. ASSUME NEW s \in Sockets, NEW p \in Packets, PeerSends(s, p)
       PROVE  MailMoves
  BY <1>15 DEF PeerSends, MailMoves, Quiet, fileVars
<1>16. CASE UNCHANGED vars
  BY <1>16 DEF vars, MailMoves, Quiet, fileVars, wireVars
<1> QED
  BY <1>1, <1>2, <1>3, <1>4, <1>5, <1>6, <1>7, <1>8, <1>9, <1>10, <1>11,
     <1>12, <1>13, <1>14, <1>15, <1>16, <1>17
  DEF Next, Iteration

-----------------------------------------------------------------------------
(* Where a ticket is                                                        *)

Filed(fs, c, t, n) == fs[c][t] # NoFile /\ fs[c][t].n = n
Wired(ws, s, i, n) == i \in DOMAIN ws[s] /\ ws[s][i].n = n

(* Each ticket given out is in one file, or in one place of one wire, or    *)
(* received, or gone; so the next ticket is nowhere yet.                    *)
KnownOnly(fs, ws, got, top) ==
  /\ got \subseteq 1 .. top
  /\ \A c \in Targets, t \in Times, n \in Nat :
       Filed(fs, c, t, n) => n # 0 /\ n <= top /\ n \notin got
  /\ \A s \in Sockets, i, n \in Nat :
       Wired(ws, s, i, n) /\ n # 0 => n <= top /\ n \notin got

OneFileEach(fs) ==
  \A c, d \in Targets, t, u \in Times, n \in Nat :
    Filed(fs, c, t, n) /\ Filed(fs, d, u, n) => c = d /\ t = u

OneWireEach(ws) ==
  \A s, r \in Sockets, i, j, n \in Nat :
    Wired(ws, s, i, n) /\ Wired(ws, r, j, n) /\ n # 0 => s = r /\ i = j

FileOrWire(fs, ws) ==
  \A c \in Targets, t \in Times, s \in Sockets, i, n \in Nat :
    ~(Filed(fs, c, t, n) /\ Wired(ws, s, i, n))

OneCopy(fs, ws, got, top) ==
  /\ KnownOnly(fs, ws, got, top)
  /\ OneFileEach(fs) /\ OneWireEach(ws) /\ FileOrWire(fs, ws)

OneCopyInv == OneCopy(store, outbound, delivered, routed)

LEMMA OneCopyInit ==
  ASSUME Init PROVE OneCopyInv
<1>1. \A c \in Targets, t \in Times, n \in Nat : ~Filed(store, c, t, n)
  BY DEF Init, EmptyDir, Filed
<1>2. \A s \in Sockets, i, n \in Nat : ~Wired(outbound, s, i, n)
  BY DEF Init, NoPackets, Wired
<1>3. delivered = {}
  BY DEF Init
<1> QED
  BY <1>1, <1>2, <1>3
  DEF OneCopyInv, OneCopy, KnownOnly, OneFileEach, OneWireEach, FileOrWire

LEMMA OneCopyFrame ==
  ASSUME OneCopyInv, UNCHANGED <<store, outbound, delivered, routed>>
  PROVE  OneCopyInv'
BY DEF OneCopyInv

(* Wires that are emptied take no other copy with them.                     *)
LEMMA OneCopyWithoutWires ==
  ASSUME TypeOK, OneCopyInv, UNCHANGED <<store, delivered, routed>>,
         \A s \in Sockets : outbound'[s] = outbound[s] \/ outbound'[s] = <<>>
  PROVE  OneCopyInv'
<1>1. \A s \in Sockets, i, n \in Nat :
        Wired(outbound', s, i, n) => Wired(outbound, s, i, n)
  BY DEF Wired
<1>2. OneCopy(store, outbound', delivered, routed)
  <2>1. KnownOnly(store, outbound', delivered, routed)
    BY <1>1 DEF OneCopyInv, OneCopy, KnownOnly
  <2>2. OneWireEach(outbound')
    BY <1>1 DEF OneCopyInv, OneCopy, OneWireEach
  <2>3. FileOrWire(store, outbound')
    BY <1>1 DEF OneCopyInv, OneCopy, FileOrWire
  <2> QED
    BY <2>1, <2>2, <2>3 DEF OneCopyInv, OneCopy
<1> QED
  BY <1>2 DEF OneCopyInv

(* Neither do files that are removed.                                       *)
LEMMA OneCopyWithoutFiles ==
  ASSUME OneCopyInv, UNCHANGED <<delivered, routed>>,
         \A s \in Sockets : outbound'[s] = <<>>,
         \A c \in Targets, t \in Times :
           store'[c][t] # NoFile => store'[c][t] = store[c][t]
  PROVE  OneCopyInv'
<1>1. \A s \in Sockets, i, n \in Nat : ~Wired(outbound', s, i, n)
  BY DEF Wired
<1>2. \A c \in Targets, t \in Times, n \in Nat :
        Filed(store', c, t, n) => Filed(store, c, t, n)
  BY DEF Filed
<1>3. KnownOnly(store', outbound', delivered, routed)
  BY <1>1, <1>2 DEF OneCopyInv, OneCopy, KnownOnly
<1>4. OneFileEach(store')
  BY <1>2 DEF OneCopyInv, OneCopy, OneFileEach
<1>5. OneWireEach(outbound') /\ FileOrWire(store', outbound')
  BY <1>1 DEF OneWireEach, FileOrWire
<1> QED
  BY <1>3, <1>4, <1>5 DEF OneCopyInv, OneCopy

(* What is on the wires after a write was there or is one of the messages.  *)
LEMMA WiredByWrite ==
  ASSUME TypeOK, NEW s \in Sockets, NEW msgs \in Seq(Message), write(s, msgs),
         NEW r \in Sockets, NEW i \in Nat, NEW n \in Nat,
         Wired(outbound', r, i, n)
  PROVE  \/ Wired(outbound, r, i, n)
         \/ /\ r = s
            /\ i - Len(outbound[s]) \in DOMAIN msgs
            /\ msgs[i - Len(outbound[s])].n = n
<1>1. /\ outbound'[s] = outbound[s] \o msgs
      /\ r # s => outbound'[r] = outbound[r]
      /\ outbound[s] \in Seq(Message)
  BY WriteType DEF TypeOK
<1>2. CASE r # s
  BY <1>1, <1>2 DEF Wired
<1>3. CASE r = s
  <2>1. i \in DOMAIN (outbound[s] \o msgs) /\ (outbound[s] \o msgs)[i].n = n
    BY <1>1, <1>3 DEF Wired
  <2>2. i \in 1 .. Len(outbound[s]) + Len(msgs)
    BY <1>1, <2>1, ConcatProperties, LenProperties
  <2>3. CASE i <= Len(outbound[s])
    <3>1. i \in DOMAIN outbound[s] /\ (outbound[s] \o msgs)[i] = outbound[s][i]
      BY <1>1, <2>2, <2>3, ConcatProperties, LenProperties
    <3> QED
      BY <1>3, <2>1, <3>1 DEF Wired
  <2>4. CASE ~(i <= Len(outbound[s]))
    <3>1. /\ i - Len(outbound[s]) \in DOMAIN msgs
          /\ (outbound[s] \o msgs)[i] = msgs[i - Len(outbound[s])]
      BY <1>1, <2>2, <2>4, ConcatProperties, LenProperties
    <3> QED
      BY <1>3, <2>1, <3>1
  <2> QED
    BY <2>3, <2>4
<1> QED
  BY <1>2, <1>3

(* One message written: a reject, or one with a ticket given out just now.  *)
LEMMA OneCopyWrite ==
  ASSUME TypeOK, OneCopyInv, UNCHANGED <<store, delivered>>,
         NEW s \in Sockets, NEW m \in Message, write(s, <<m>>),
         \/ m.n = 0 /\ routed' = routed
         \/ m.n = routed + 1 /\ routed' = routed + 1
  PROVE  OneCopyInv'
<1> DEFINE k == Len(outbound[s])
           msgs == <<m>>
<1>1. msgs \in Seq(Message) /\ k \in Nat /\ DOMAIN msgs = {1} /\ msgs[1] = m
  BY LenProperties DEF TypeOK
<1>2. write(s, msgs)
  OBVIOUS
<1>3. ASSUME NEW r \in Sockets, NEW i \in Nat, NEW n \in Nat,
             Wired(outbound', r, i, n), n # 0
      PROVE  \/ Wired(outbound, r, i, n)
             \/ r = s /\ i - k = 1 /\ n = routed + 1 /\ routed' = routed + 1
  <2> HIDE DEF msgs
  <2>1. \/ Wired(outbound, r, i, n)
        \/ r = s /\ i - k \in DOMAIN msgs /\ msgs[i - k].n = n
    BY <1>1, <1>2, <1>3, WiredByWrite
  <2> QED
    BY <1>1, <1>3, <2>1
<1> HIDE DEF k, msgs
<1>4. routed \in Nat /\ routed' \in Nat /\ routed <= routed'
  BY DEF TypeOK
<1>5. \A r \in Sockets, i \in Nat : ~Wired(outbound, r, i, routed + 1)
  BY <1>4 DEF OneCopyInv, OneCopy, KnownOnly
<1>6. \A c \in Targets, t \in Times : ~Filed(store, c, t, routed + 1)
  BY <1>4 DEF OneCopyInv, OneCopy, KnownOnly
<1>7. delivered \subseteq 1 .. routed
  BY DEF OneCopyInv, OneCopy, KnownOnly
<1>8. KnownOnly(store, outbound', delivered, routed')
  <2>1. delivered \subseteq 1 .. routed'
    BY <1>4, <1>7
  <2>2. ASSUME NEW c \in Targets, NEW t \in Times, NEW n \in Nat,
               Filed(store, c, t, n)
        PROVE  n # 0 /\ n <= routed' /\ n \notin delivered
    BY <1>4, <2>2 DEF OneCopyInv, OneCopy, KnownOnly
  <2>3. ASSUME NEW r \in Sockets, NEW i \in Nat, NEW n \in Nat,
               Wired(outbound', r, i, n), n # 0
        PROVE  n <= routed' /\ n \notin delivered
    <3>1. CASE Wired(outbound, r, i, n)
      BY <1>4, <2>3, <3>1 DEF OneCopyInv, OneCopy, KnownOnly
    <3>2. CASE n = routed + 1 /\ routed' = routed + 1
      BY <1>4, <1>7, <3>2
    <3> QED
      BY <1>3, <2>3, <3>1, <3>2
  <2> QED
    BY <2>1, <2>2, <2>3 DEF KnownOnly
<1>9. OneWireEach(outbound')
  <2>1. SUFFICES ASSUME NEW r \in Sockets, NEW q \in Sockets, NEW i \in Nat,
                        NEW j \in Nat, NEW n \in Nat,
                        Wired(outbound', r, i, n), Wired(outbound', q, j, n),
                        n # 0
                 PROVE  r = q /\ i = j
    BY DEF OneWireEach
  <2>2. CASE n = routed + 1
    <3>1. ~Wired(outbound, r, i, n) /\ ~Wired(outbound, q, j, n)
      BY <1>5, <2>2
    <3>2. r = s /\ i - k = 1 /\ q = s /\ j - k = 1
      BY <1>3, <2>1, <3>1
    <3> QED
      BY <1>1, <3>2
  <2>3. CASE n # routed + 1
    <3>1. Wired(outbound, r, i, n) /\ Wired(outbound, q, j, n)
      BY <1>3, <2>1, <2>3
    <3> QED
      BY <2>1, <3>1 DEF OneCopyInv, OneCopy, OneWireEach
  <2> QED
    BY <2>2, <2>3
<1>10. FileOrWire(store, outbound')
  <2>1. SUFFICES ASSUME NEW c \in Targets, NEW t \in Times, NEW r \in Sockets,
                        NEW i \in Nat, NEW n \in Nat,
                        Filed(store, c, t, n), Wired(outbound', r, i, n)
                 PROVE  FALSE
    BY DEF FileOrWire
  <2>2. n # 0
    BY <2>1 DEF OneCopyInv, OneCopy, KnownOnly
  <2>3. Wired(outbound, r, i, n)
    BY <1>3, <1>6, <2>1, <2>2
  <2> QED
    BY <2>1, <2>3 DEF OneCopyInv, OneCopy, FileOrWire
<1>11. OneFileEach(store)
  BY DEF OneCopyInv, OneCopy
<1> QED
  BY <1>8, <1>9, <1>10, <1>11 DEF OneCopyInv, OneCopy

(* A replay: what was in the files of c is on the wire of s, and the files  *)
(* are gone.                                                                *)
LEMMA OneCopyReplay ==
  ASSUME TypeOK, OneCopyInv, UNCHANGED <<delivered, routed>>,
         NEW s \in Sockets, NEW c \in Targets,
         write(s, QueuedMessages(c)), getAndClearQueuedMessages(c)
  PROVE  OneCopyInv'
<1> USE SortsOfValues
<1> DEFINE q == QueuedMessages(c)
           k == Len(outbound[s])
<1>1. CASE ~storeReady
  <2>1. q = <<>> /\ store' = store
    BY <1>1 DEF QueuedMessages, getAndClearQueuedMessages
  <2>2. outbound[s] \o <<>> = outbound[s]
    BY DEF TypeOK
  <2>3. \A r \in Sockets : outbound'[r] = outbound[r]
    BY <2>1, <2>2 DEF write, TypeOK
  <2> QED
    BY <2>1, <2>3, OneCopyWithoutWires
<1>2. CASE storeReady
  <2>1. k \in Nat
    BY LenProperties DEF TypeOK
  <2>2. q \in Seq(Message)
    BY QueuedMessagesAreFiles
  <2>3. ASSUME NEW d \in Targets, NEW t \in Times, NEW n \in Nat,
               Filed(store', d, t, n)
        PROVE  Filed(store, d, t, n) /\ d # c
    BY <1>2, <2>3 DEF Filed, getAndClearQueuedMessages, EmptyDir, TypeOK
  <2>4. ASSUME NEW i \in DOMAIN q
        PROVE  \E t \in Times : Filed(store, c, t, q[i].n)
    <3>1. PICK t \in FileNames(store[c]) : q[i] = store[c][t]
      BY QueuedMessagesAreFiles
    <3> QED
      BY <3>1 DEF Filed, FileNames
  <2>5. ASSUME NEW i \in DOMAIN q, NEW j \in DOMAIN q, i < j
        PROVE  \E t, u \in Times : /\ t # u
                                   /\ Filed(store, c, t, q[i].n)
                                   /\ Filed(store, c, u, q[j].n)
    <3>1. PICK t \in FileNames(store[c]), u \in FileNames(store[c]) :
            t < u /\ q[i] = store[c][t] /\ q[j] = store[c][u]
      BY <2>5, QueuedMessagesAreFiles
    <3>2. t \in Nat /\ u \in Nat
      BY DEF FileNames
    <3>3. t # u
      BY <3>1, <3>2
    <3> QED
      BY <3>1, <3>3 DEF Filed, FileNames
  <2>6. write(s, q)
    OBVIOUS
  <2>7. DOMAIN q \subseteq Nat
    BY <2>2, LenProperties
  <2> HIDE DEF q
  <2>8. ASSUME NEW i \in DOMAIN q, NEW j \in DOMAIN q, q[i].n = q[j].n,
               q[i].n \in Nat
        PROVE  i = j
    <3>1. \A a, b \in DOMAIN q : a < b => q[a].n # q[b].n \/ q[a].n \notin Nat
      BY <2>5 DEF OneCopyInv, OneCopy, OneFileEach
    <3>2. i < j \/ j < i \/ i = j
      BY <2>7
    <3> QED
      BY <2>8, <3>1, <3>2
  <2>9. ASSUME NEW r \in Sockets, NEW i \in Nat, NEW n \in Nat,
               Wired(outbound', r, i, n)
        PROVE  \/ Wired(outbound, r, i, n)
               \/ /\ r = s /\ i - k \in DOMAIN q /\ q[i - k].n = n
                  /\ \E t \in Times : Filed(store, c, t, n)
    <3>1. \/ Wired(outbound, r, i, n)
          \/ r = s /\ i - k \in DOMAIN q /\ q[i - k].n = n
      BY <2>2, <2>6, <2>9, WiredByWrite
    <3> QED
      BY <2>4, <3>1
  <2> HIDE DEF k
  <2>10. KnownOnly(store', outbound', delivered, routed)
    <3>1. delivered \subseteq 1 .. routed
      BY DEF OneCopyInv, OneCopy, KnownOnly
    <3>2. ASSUME NEW r \in Sockets, NEW i \in Nat, NEW n \in Nat,
                 Wired(outbound', r, i, n), n # 0
          PROVE  n <= routed /\ n \notin delivered
      BY <2>9, <3>2 DEF OneCopyInv, OneCopy, KnownOnly
    <3>3. ASSUME NEW d \in Targets, NEW t \in Times, NEW n \in Nat,
                 Filed(store', d, t, n)
          PROVE  n # 0 /\ n <= routed /\ n \notin delivered
      BY <2>3, <3>3 DEF OneCopyInv, OneCopy, KnownOnly
    <3> QED
      BY <3>1, <3>2, <3>3 DEF KnownOnly
  <2>11. OneFileEach(store')
    BY <2>3 DEF OneFileEach, OneCopyInv, OneCopy
  <2>12. OneWireEach(outbound')
    <3>1. SUFFICES ASSUME NEW r \in Sockets, NEW o \in Sockets, NEW i \in Nat,
                          NEW j \in Nat, NEW n \in Nat,
                          Wired(outbound', r, i, n), Wired(outbound', o, j, n),
                          n # 0
                   PROVE  r = o /\ i = j
      BY DEF OneWireEach
    <3>2. CASE \E t \in Times : Filed(store, c, t, n)
      <4>1. ~Wired(outbound, r, i, n) /\ ~Wired(outbound, o, j, n)
        BY <3>2 DEF OneCopyInv, OneCopy, FileOrWire
      <4>2. /\ r = s /\ i - k \in DOMAIN q /\ q[i - k].n = n
            /\ o = s /\ j - k \in DOMAIN q /\ q[j - k].n = n
        BY <2>9, <3>1, <4>1
      <4>3. i - k = j - k
        BY <2>8, <4>2
      <4> QED
        BY <2>1, <4>2, <4>3
    <3>3. CASE ~\E t \in Times : Filed(store, c, t, n)
      <4>1. Wired(outbound, r, i, n) /\ Wired(outbound, o, j, n)
        BY <2>9, <3>1, <3>3
      <4> QED
        BY <3>1, <4>1 DEF OneCopyInv, OneCopy, OneWireEach
    <3> QED
      BY <3>2, <3>3
  <2>13. FileOrWire(store', outbound')
    <3>1. SUFFICES ASSUME NEW d \in Targets, NEW t \in Times, NEW r \in Sockets,
                          NEW i \in Nat, NEW n \in Nat,
                          Filed(store', d, t, n), Wired(outbound', r, i, n)
                   PROVE  FALSE
      BY DEF FileOrWire
    <3>2. Filed(store, d, t, n) /\ d # c
      BY <2>3, <3>1
    <3>3. ~Wired(outbound, r, i, n)
      BY <3>2 DEF OneCopyInv, OneCopy, FileOrWire
    <3>4. ~\E u \in Times : Filed(store, c, u, n)
      BY <3>2 DEF OneCopyInv, OneCopy, OneFileEach
    <3> QED
      BY <2>9, <3>1, <3>3, <3>4
  <2> QED
    BY <2>10, <2>11, <2>12, <2>13 DEF OneCopyInv, OneCopy
<1> QED
  BY <1>1, <1>2

(* A file written with the ticket given out just now.                       *)
LEMMA OneCopyStore ==
  ASSUME TypeOK, OneCopyInv, UNCHANGED <<outbound, delivered>>,
         NEW c \in Targets, NEW m \in Message, storeMessage(c, m),
         m.n = routed + 1, routed' = routed + 1
  PROVE  OneCopyInv'
<1>1. routed \in Nat /\ clock \in Times
  BY DEF TypeOK
<1>2. ASSUME NEW d \in Targets, NEW t \in Times, NEW n \in Nat,
             Filed(store', d, t, n)
      PROVE  \/ Filed(store, d, t, n)
             \/ d = c /\ t = clock /\ n = routed + 1
  <2>1. store' = store \/ store' = [store EXCEPT ![c][clock] = m]
    BY DEF storeMessage
  <2> QED
    BY <1>2, <2>1 DEF Filed, TypeOK
<1>3. \A r \in Sockets, i \in Nat : ~Wired(outbound, r, i, routed + 1)
  BY <1>1 DEF OneCopyInv, OneCopy, KnownOnly
<1>4. \A d \in Targets, t \in Times : ~Filed(store, d, t, routed + 1)
  BY <1>1 DEF OneCopyInv, OneCopy, KnownOnly
<1>5. delivered \subseteq 1 .. routed
  BY DEF OneCopyInv, OneCopy, KnownOnly
<1>6. KnownOnly(store', outbound, delivered, routed + 1)
  <2>1. delivered \subseteq 1 .. routed + 1
    BY <1>1, <1>5
  <2>2. ASSUME NEW d \in Targets, NEW t \in Times, NEW n \in Nat,
               Filed(store', d, t, n)
        PROVE  n # 0 /\ n <= routed + 1 /\ n \notin delivered
    <3>1. CASE Filed(store, d, t, n)
      BY <1>1, <3>1 DEF OneCopyInv, OneCopy, KnownOnly
    <3>2. CASE n = routed + 1
      BY <1>1, <1>5, <3>2
    <3> QED
      BY <1>2, <2>2, <3>1, <3>2
  <2>3. ASSUME NEW r \in Sockets, NEW i \in Nat, NEW n \in Nat,
               Wired(outbound, r, i, n), n # 0
        PROVE  n <= routed + 1 /\ n \notin delivered
    BY <1>1, <2>3 DEF OneCopyInv, OneCopy, KnownOnly
  <2> QED
    BY <2>1, <2>2, <2>3 DEF KnownOnly
<1>7. OneFileEach(store')
  <2>1. SUFFICES ASSUME NEW d \in Targets, NEW e \in Targets, NEW t \in Times,
                        NEW u \in Times, NEW n \in Nat,
                        Filed(store', d, t, n), Filed(store', e, u, n)
                 PROVE  d = e /\ t = u
    BY DEF OneFileEach
  <2>2. CASE n = routed + 1
    BY <1>2, <1>4, <2>1, <2>2
  <2>3. CASE n # routed + 1
    <3>1. Filed(store, d, t, n) /\ Filed(store, e, u, n)
      BY <1>2, <2>1, <2>3
    <3> QED
      BY <3>1 DEF OneCopyInv, OneCopy, OneFileEach
  <2> QED
    BY <2>2, <2>3
<1>8. FileOrWire(store', outbound)
  <2>1. SUFFICES ASSUME NEW d \in Targets, NEW t \in Times, NEW r \in Sockets,
                        NEW i \in Nat, NEW n \in Nat,
                        Filed(store', d, t, n), Wired(outbound, r, i, n)
                 PROVE  FALSE
    BY DEF FileOrWire
  <2>2. n # routed + 1
    BY <1>3, <2>1
  <2>3. Filed(store, d, t, n)
    BY <1>2, <2>1, <2>2
  <2> QED
    BY <2>1, <2>3 DEF OneCopyInv, OneCopy, FileOrWire
<1>9. OneWireEach(outbound)
  BY DEF OneCopyInv, OneCopy
<1> QED
  BY <1>6, <1>7, <1>8, <1>9 DEF OneCopyInv, OneCopy

(* A message received leaves its wire.                                      *)
LEMMA OneCopyReceive ==
  ASSUME TypeOK, OneCopyInv, NEW s \in Sockets, PeerReceives(s)
  PROVE  OneCopyInv'
<1> DEFINE h == Head(outbound[s]).n
<1>1. /\ outbound[s] \in Seq(Message) /\ outbound[s] # <<>>
      /\ outbound' = [outbound EXCEPT ![s] = Tail(@)]
      /\ delivered' = delivered \cup ({h} \ {0})
      /\ UNCHANGED <<store, routed>>
  BY DEF PeerReceives, TypeOK, fileVars
<1>2. Wired(outbound, s, 1, h) /\ h \in Nat
  <2>1. 1 \in DOMAIN outbound[s] /\ Head(outbound[s]) = outbound[s][1]
    BY <1>1, HeadTailProperties, LenProperties
  <2>2. Head(outbound[s]) \in Message
    BY <1>1, HeadTailProperties
  <2> QED
    BY <2>1, <2>2 DEF Wired, Message
<1> HIDE DEF h
<1>3. \A r \in Sockets \ {s} : outbound'[r] = outbound[r]
  BY <1>1 DEF TypeOK
<1>4. \A i \in DOMAIN outbound'[s] :
        /\ i \in Nat \ {0} /\ i + 1 \in DOMAIN outbound[s]
        /\ outbound'[s][i] = outbound[s][i + 1]
  BY <1>1, HeadTailProperties, LenProperties DEF TypeOK
<1>5. ASSUME NEW r \in Sockets, NEW i \in Nat, NEW n \in Nat,
             Wired(outbound', r, i, n)
      PROVE  \/ r # s /\ Wired(outbound, r, i, n)
             \/ r = s /\ i # 0 /\ Wired(outbound, s, i + 1, n)
  BY <1>3, <1>4, <1>5 DEF Wired
<1>6. ASSUME NEW r \in Sockets, NEW i \in Nat, NEW n \in Nat,
             Wired(outbound', r, i, n), n # 0
      PROVE  n # h
  <2>1. i + 1 \in Nat /\ (i # 0 => i + 1 # 1) /\ 1 \in Nat
    OBVIOUS
  <2> QED
    BY <1>2, <1>5, <1>6, <2>1 DEF OneCopyInv, OneCopy, OneWireEach
<1>7. KnownOnly(store, outbound', delivered', routed)
  <2>1. delivered' \subseteq 1 .. routed
    <3>1. delivered \subseteq 1 .. routed
      BY DEF OneCopyInv, OneCopy, KnownOnly
    <3>2. h # 0 => h <= routed
      BY <1>2 DEF OneCopyInv, OneCopy, KnownOnly
    <3>3. routed \in Nat
      BY DEF TypeOK
    <3> QED
      BY <1>1, <1>2, <3>1, <3>2, <3>3
  <2>2. ASSUME NEW c \in Targets, NEW t \in Times, NEW n \in Nat,
               Filed(store, c, t, n)
        PROVE  n # 0 /\ n <= routed /\ n \notin delivered'
    <3>1. n # h
      BY <1>2, <2>2 DEF OneCopyInv, OneCopy, FileOrWire
    <3> QED
      BY <1>1, <2>2, <3>1 DEF OneCopyInv, OneCopy, KnownOnly
  <2>3. ASSUME NEW r \in Sockets, NEW i \in Nat, NEW n \in Nat,
               Wired(outbound', r, i, n), n # 0
        PROVE  n <= routed /\ n \notin delivered'
    <3>1. n <= routed /\ n \notin delivered
      BY <1>5, <2>3 DEF OneCopyInv, OneCopy, KnownOnly
    <3> QED
      BY <1>1, <1>6, <2>3, <3>1
  <2> QED
    BY <2>1, <2>2, <2>3 DEF KnownOnly
<1>8. OneWireEach(outbound')
  <2>1. SUFFICES ASSUME NEW r \in Sockets, NEW q \in Sockets, NEW i \in Nat,
                        NEW j \in Nat, NEW n \in Nat,
                        Wired(outbound', r, i, n), Wired(outbound', q, j, n),
                        n # 0
                 PROVE  r = q /\ i = j
    BY DEF OneWireEach
  <2>2. i + 1 \in Nat /\ j + 1 \in Nat /\ (i + 1 = j + 1 => i = j)
    OBVIOUS
  <2> QED
    BY <1>5, <2>1, <2>2 DEF OneCopyInv, OneCopy, OneWireEach
<1>9. FileOrWire(store, outbound')
  <2>1. \A i \in Nat : i + 1 \in Nat
    OBVIOUS
  <2> QED
    BY <1>5, <2>1 DEF OneCopyInv, OneCopy, FileOrWire
<1>10. OneFileEach(store)
  BY DEF OneCopyInv, OneCopy
<1> QED
  BY <1>1, <1>7, <1>8, <1>9, <1>10 DEF OneCopyInv, OneCopy

LEMMA OneCopyStep ==
  ASSUME TypeOK, OneCopyInv, [Next]_vars
  PROVE  OneCopyInv'
<1>1. CASE Quiet
  BY <1>1, OneCopyFrame DEF Quiet
<1>2. CASE AllBreak
  <2>1. \A s \in Sockets : outbound'[s] = <<>>
    BY <1>2 DEF AllBreak, NoPackets
  <2> QED
    BY <1>2, <2>1, OneCopyWithoutWires DEF AllBreak
<1>3. ASSUME NEW s \in Sockets, OneBreaks(s) PROVE OneCopyInv'
  <2>1. \A r \in Sockets : outbound'[r] = outbound[r] \/ outbound'[r] = <<>>
    BY <1>3 DEF OneBreaks, TypeOK
  <2> QED
    BY <1>3, <2>1, OneCopyWithoutWires DEF OneBreaks
<1>4. ASSUME NEW s \in Sockets, NEW c \in Targets, Replays(s, c)
      PROVE  OneCopyInv'
  BY <1>4, OneCopyReplay DEF Replays
<1>5. ASSUME NEW s \in Sockets, NEW m \in Message, Notifies(s, m) \/ Forwards(s, m)
      PROVE  OneCopyInv'
  BY <1>5, OneCopyWrite DEF Notifies, Forwards
<1>6. ASSUME NEW c \in Targets, NEW m \in Message, Keeps(c, m)
      PROVE  OneCopyInv'
  BY <1>6, OneCopyStore DEF Keeps
<1>7. ASSUME NEW s \in Sockets, PeerReceives(s) PROVE OneCopyInv'
  BY <1>7, OneCopyReceive
<1>8. ASSUME NEW c \in Targets, ReplayBreaks(c) PROVE OneCopyInv'
  <2>1. /\ \A s \in Sockets : outbound'[s] = <<>>
        /\ \E t \in FileNames(store[c]) : LosesUpTo(c, t)
        /\ UNCHANGED <<delivered, routed>>
    BY <1>8 DEF ReplayBreaks, NoPackets
  <2>2. \A d \in Targets, t \in Times :
          store'[d][t] # NoFile => store'[d][t] = store[d][t]
    BY <2>1, LosesTheOldest
  <2> QED
    BY <2>1, <2>2, OneCopyWithoutFiles
<1> QED
  BY <1>1, <1>2, <1>3, <1>4, <1>5, <1>6, <1>7, <1>8, StepsMoveMail DEF MailMoves

LEMMA OneCopySound == Spec => []OneCopyInv
<1>1. Init => OneCopyInv
  BY OneCopyInit
<1>2. TypeOK /\ OneCopyInv /\ [Next]_vars => OneCopyInv'
  BY OneCopyStep
<1> QED
  BY <1>1, <1>2, TypeCorrect, PTL DEF Spec

(* Whatever is stored, replayed, relayed, cut off or restarted, a message   *)
(* is never in two places: a reconnecting company gets it once.             *)
THEOREM NeverTwice == Spec => []AtMostOneCopy
<1>1. TypeOK /\ OneCopyInv => AtMostOneCopy
  <2>1. SUFFICES ASSUME TypeOK, OneCopyInv PROVE AtMostOneCopy
    OBVIOUS
  <2>2. ASSUME NEW c \in Targets, NEW t \in Times, store[c][t] # NoFile
        PROVE  store[c][t].n \in Nat /\ Filed(store, c, t, store[c][t].n)
    <3>1. store[c][t] \in Message
      BY <2>1, <2>2 DEF TypeOK
    <3> QED
      BY <2>2, <3>1 DEF Message, Filed
  <2>3. ASSUME NEW s \in Sockets, NEW i \in DOMAIN outbound[s]
        PROVE  /\ i \in Nat /\ outbound[s][i].n \in Nat
               /\ Wired(outbound, s, i, outbound[s][i].n)
    <3>1. outbound[s] \in Seq(Message)
      BY <2>1 DEF TypeOK
    <3>2. i \in Nat /\ outbound[s][i] \in Message
      BY <3>1, LenProperties
    <3> QED
      BY <3>2 DEF Message, Wired
  <2>4. \A n \in StoredTickets :
          \E c \in Targets, t \in Times : n \in Nat /\ Filed(store, c, t, n)
    BY <2>2 DEF StoredTickets, KeptTickets, FileNames
  <2>5. ASSUME NEW s \in Sockets, NEW n \in WireTickets(s)
        PROVE  n # 0 /\ n \in Nat /\ \E i \in Nat : Wired(outbound, s, i, n)
    BY <2>3 DEF WireTickets
  <2>6. \A s \in Sockets : WireTickets(s) \cap (StoredTickets \cup delivered) = {}
    <3>1. ASSUME NEW s \in Sockets, NEW n \in WireTickets(s)
          PROVE  n \notin StoredTickets /\ n \notin delivered
      BY <2>1, <2>4, <2>5 DEF OneCopyInv, OneCopy, KnownOnly, FileOrWire
    <3> QED
      BY <3>1
  <2>7. StoredTickets \cap delivered = {}
    BY <2>1, <2>4 DEF OneCopyInv, OneCopy, KnownOnly
  <2>8. ASSUME NEW c \in Targets, NEW d \in Targets, NEW t \in Times,
               NEW u \in Times, store[c][t] # NoFile, store[d][u] # NoFile,
               store[c][t].n = store[d][u].n
        PROVE  c = d /\ t = u
    <3> DEFINE n == store[c][t].n
    <3>1. n \in Nat /\ Filed(store, c, t, n) /\ Filed(store, d, u, n)
      BY <2>2, <2>8
    <3> HIDE DEF n
    <3> QED
      BY <2>1, <3>1 DEF OneCopyInv, OneCopy, OneFileEach
  <2>9. ASSUME NEW s \in Sockets, NEW r \in Sockets,
               NEW i \in DOMAIN outbound[s], NEW j \in DOMAIN outbound[r],
               outbound[s][i].n = outbound[r][j].n, outbound[s][i].n # 0
        PROVE  s = r /\ i = j
    <3> DEFINE n == outbound[s][i].n
    <3>1. /\ n \in Nat /\ n # 0 /\ i \in Nat /\ j \in Nat
          /\ Wired(outbound, s, i, n) /\ Wired(outbound, r, j, n)
      BY <2>3, <2>9
    <3> HIDE DEF n
    <3> QED
      BY <2>1, <3>1 DEF OneCopyInv, OneCopy, OneWireEach
  <2> QED
    BY <2>6, <2>7, <2>8, <2>9 DEF AtMostOneCopy
<1> QED
  BY <1>1, TypeCorrect, OneCopySound, PTL

-----------------------------------------------------------------------------
(* How a message is lost                                                    *)

(* A replay sends every file: no name is left out by the sort.              *)
LEMMA SortedNamesAll ==
  ASSUME NEW S \in SUBSET Times, NEW t \in S
  PROVE  \E i \in 1 .. Cardinality(S) : SortedNames(S)[i] = t
<1> DEFINE n == Cardinality(S)
           names == SortedNames(S)
<1>1. /\ n \in Nat /\ names \in [1 .. n -> S]
      /\ \A i, j \in 1 .. n : i < j => names[i] < names[j]
  BY SortedNamesAscend
<1>2. S \subseteq Nat /\ IsFiniteSet(S)
  BY NamesAreFinite
<1>3. IsFiniteSet(1 .. n) /\ Cardinality(1 .. n) = n
  BY <1>1, FS_Interval
<1> HIDE DEF names
<1>4. ASSUME NEW i \in 1 .. n, NEW j \in 1 .. n, names[i] = names[j]
      PROVE  i = j
  <2>1. names[i] \in Nat /\ names[j] \in Nat
    BY <1>1, <1>2
  <2>2. ~(i < j) /\ ~(j < i)
    BY <1>1, <1>4, <2>1
  <2> QED
    BY <1>1, <2>2
<1>5. names \in Injection(1 .. n, S)
  BY <1>1, <1>4 DEF Injection, IsInjective
<1>6. names \in Surjection(1 .. n, S)
  BY <1>2, <1>3, <1>5, FS_Injection
<1> QED
  BY <1>6 DEF Surjection, names

LEMMA QueuedMessagesAll ==
  ASSUME TypeOK, storeReady, NEW c \in Targets, NEW t \in FileNames(store[c])
  PROVE  \E i \in DOMAIN QueuedMessages(c) : QueuedMessages(c)[i] = store[c][t]
<1> DEFINE S == FileNames(store[c])
           names == SortedNames(S)
           n == Cardinality(S)
<1>1. S \in SUBSET Times
  BY DEF FileNames
<1>2. names \in [1 .. n -> S]
  BY <1>1, SortedNamesAscend
<1>3. PICK i \in 1 .. n : names[i] = t
  BY <1>1, SortedNamesAll
<1>4. QueuedMessages(c) = [j \in 1 .. n |-> store[c][names[j]]]
  BY <1>2 DEF QueuedMessages
<1> HIDE DEF names, n, S, QueuedMessages
<1> QED
  BY <1>3, <1>4

LEMMA OnWire ==
  ASSUME NEW s \in Sockets, NEW n
  PROVE  n \in WireTickets(s) <=>
           n # 0 /\ \E i \in DOMAIN outbound[s] : outbound[s][i].n = n
BY DEF WireTickets

(* A write leaves what was on the wires and adds what is written.           *)
LEMMA WriteKeepsWires ==
  ASSUME TypeOK, NEW s \in Sockets, NEW msgs \in Seq(Message), write(s, msgs)
  PROVE  /\ \A r \in Sockets : WireTickets(r) \subseteq WireTickets(r)'
         /\ \A i \in DOMAIN msgs : msgs[i].n # 0 => msgs[i].n \in WireTickets(s)'
<1>1. /\ outbound'[s] = outbound[s] \o msgs
      /\ \A r \in Sockets \ {s} : outbound'[r] = outbound[r]
      /\ outbound[s] \in Seq(Message)
  BY WriteType DEF TypeOK
<1>2. \A i \in DOMAIN outbound[s] :
        i \in DOMAIN outbound'[s] /\ outbound'[s][i] = outbound[s][i]
  BY <1>1, ConcatProperties, LenProperties
<1>3. ASSUME NEW i \in DOMAIN msgs
      PROVE  \E j \in DOMAIN outbound'[s] : outbound'[s][j] = msgs[i]
  <2> DEFINE j == Len(outbound[s]) + i
  <2>1. j \in DOMAIN outbound'[s] /\ outbound'[s][j] = msgs[i]
    BY <1>1, ConcatProperties, LenProperties
  <2> QED
    BY <2>1
<1>4. ASSUME NEW r \in Sockets, NEW n \in WireTickets(r)
      PROVE  n \in WireTickets(r)'
  <2>1. PICK i \in DOMAIN outbound[r] : outbound[r][i].n = n
    BY DEF WireTickets
  <2>2. i \in DOMAIN outbound'[r] /\ outbound'[r][i].n = n
    BY <1>1, <1>2, <2>1
  <2> QED
    BY <2>2 DEF WireTickets
<1>5. ASSUME NEW i \in DOMAIN msgs, msgs[i].n # 0
      PROVE  msgs[i].n \in WireTickets(s)'
  BY <1>3, <1>5 DEF WireTickets
<1> QED
  BY <1>4, <1>5

(* The two halves of LostOnlyWithConnection.                                *)
FilesLast ==
  \A c \in Targets : \A t \in FileNames(store[c]) :
    \/ store[c][t].n \in StoredTickets'
    \/ \E s \in Sockets : store[c][t].n \in WireTickets(s)'
    \/ t = clock /\ store'[c][t] # NoFile
    \/ /\ DiesReplaying(c)
       /\ \A u \in FileNames(store[c]) : u < t => store'[c][u] = NoFile
WiresLast ==
  \A s \in Sockets : \A n \in WireTickets(s) :
    n \in WireTickets(s)' \cup delivered' \/ s \notin clients'

LEMMA UntouchedLast ==
  ASSUME NEW c \in Targets, NEW t \in FileNames(store[c]),
         store'[c][t] = store[c][t]
  PROVE  store[c][t].n \in StoredTickets'
<1>1. t \in FileNames(store'[c])
  BY DEF FileNames
<1> QED
  BY <1>1 DEF StoredTickets, KeptTickets, FileNames

LEMMA ReplayLosesNothing ==
  ASSUME TypeOK, OneCopyInv, NEW s \in Sockets, NEW c \in Targets, Replays(s, c)
  PROVE  FilesLast /\ WiresLast
<1>1. QueuedMessages(c) \in Seq(Message)
  BY QueuedMessagesAreFiles
<1>2. /\ \A r \in Sockets : WireTickets(r) \subseteq WireTickets(r)'
      /\ \A i \in DOMAIN QueuedMessages(c) :
           QueuedMessages(c)[i].n # 0 =>
             QueuedMessages(c)[i].n \in WireTickets(s)'
  BY <1>1, WriteKeepsWires DEF Replays
<1>3. CASE ~storeReady
  <2>1. store' = store
    BY <1>3 DEF Replays, getAndClearQueuedMessages
  <2> QED
    BY <1>2, <2>1, UntouchedLast DEF FilesLast, WiresLast
<1>4. CASE storeReady
  <2>1. ASSUME NEW d \in Targets, NEW t \in FileNames(store[d])
        PROVE  \/ store[d][t].n \in StoredTickets'
               \/ store[d][t].n \in WireTickets(s)'
    <3>1. CASE d = c
      <4>1. PICK i \in DOMAIN QueuedMessages(c) :
              QueuedMessages(c)[i] = store[c][t]
        BY <1>4, <3>1, QueuedMessagesAll
      <4>2. store[c][t].n # 0
        <5>1. store[c][t] \in Message /\ t \in Times
          BY <3>1 DEF TypeOK, FileNames
        <5>2. store[c][t].n \in Nat /\ Filed(store, c, t, store[c][t].n)
          BY <3>1, <5>1 DEF Message, Filed, FileNames
        <5> QED
          BY <5>1, <5>2 DEF OneCopyInv, OneCopy, KnownOnly
      <4> QED
        BY <1>2, <3>1, <4>1, <4>2
    <3>2. CASE d # c
      <4>1. store'[d] = store[d]
        BY <1>4, <3>2 DEF Replays, getAndClearQueuedMessages, TypeOK
      <4> QED
        BY <4>1, UntouchedLast
    <3> QED
      BY <3>1, <3>2
  <2>2. FilesLast
    BY <2>1 DEF FilesLast
  <2> QED
    BY <1>2, <2>2 DEF WiresLast
<1> QED
  BY <1>3, <1>4

LEMMA StoringLosesByName ==
  ASSUME TypeOK, NEW c \in Targets, NEW m \in Message, Keeps(c, m)
  PROVE  FilesLast
<1>1. ASSUME NEW d \in Targets, NEW t \in FileNames(store[d])
      PROVE  \/ store[d][t].n \in StoredTickets'
             \/ t = clock /\ store'[d][t] # NoFile
  <2>1. t \in Times /\ store[d][t] # NoFile /\ clock \in Times
    BY DEF FileNames, TypeOK
  <2>2. store' = store \/ store' = [store EXCEPT ![c][clock] = m]
    BY DEF Keeps, storeMessage
  <2>3. CASE d = c /\ t = clock
    BY <2>1, <2>2, <2>3, SortsOfValues DEF TypeOK
  <2>4. CASE ~(d = c /\ t = clock)
    <3>1. store'[d][t] = store[d][t]
      BY <2>1, <2>2, <2>4 DEF TypeOK
    <3> QED
      BY <3>1, UntouchedLast
  <2> QED
    BY <2>3, <2>4
<1> QED
  BY <1>1 DEF FilesLast

(* The replay that a crash cuts short has lost the oldest files.            *)
LEMMA BrokenReplayLosesTheOldest ==
  ASSUME TypeOK, NEW c \in Targets, ReplayBreaks(c)
  PROVE  FilesLast
<1>1. PICK t \in FileNames(store[c]) : LosesUpTo(c, t)
  BY DEF ReplayBreaks
<1>2. /\ \A d \in Targets \ {c} : store'[d] = store[d]
      /\ \A u \in Times : store'[c][u] = IF u <= t THEN NoFile ELSE store[c][u]
  BY <1>1, LosesTheOldest
<1>3. DiesReplaying(c)
  BY DEF ReplayBreaks, DiesReplaying
<1>4. \A u \in FileNames(store[c]) : u \in Times /\ u \in Nat
  BY SortsOfValues DEF FileNames
<1>5. ASSUME NEW d \in Targets, NEW v \in FileNames(store[d])
      PROVE  \/ store[d][v].n \in StoredTickets'
             \/ /\ DiesReplaying(d)
                /\ \A u \in FileNames(store[d]) : u < v => store'[d][u] = NoFile
  <2>1. CASE d # c
    BY <1>2, <2>1, UntouchedLast
  <2>2. CASE d = c /\ ~(v <= t)
    <3>1. store'[c][v] = store[c][v]
      BY <1>2, <1>4, <2>2
    <3> QED
      BY <2>2, <3>1, UntouchedLast
  <2>3. CASE d = c /\ v <= t
    <3>1. ASSUME NEW u \in FileNames(store[c]), u < v
          PROVE  store'[c][u] = NoFile
      <4>1. u \in Nat /\ v \in Nat /\ t \in Nat
        BY <1>4, <2>3
      <4>2. u <= t
        BY <2>3, <3>1, <4>1
      <4> QED
        BY <1>2, <1>4, <4>2
    <3> QED
      BY <1>3, <2>3, <3>1
  <2> QED
    BY <2>1, <2>2, <2>3
<1> QED
  BY <1>5 DEF FilesLast

LEMMA ReceivingLosesNothing ==
  ASSUME TypeOK, NEW s \in Sockets, PeerReceives(s)
  PROVE  WiresLast
<1>1. /\ outbound[s] \in Seq(Message) /\ outbound[s] # <<>>
      /\ outbound' = [outbound EXCEPT ![s] = Tail(@)]
      /\ delivered' = delivered \cup ({Head(outbound[s]).n} \ {0})
  BY DEF PeerReceives, TypeOK
<1>2. \A r \in Sockets \ {s} : outbound'[r] = outbound[r]
  BY <1>1 DEF TypeOK
<1>3. SUFFICES ASSUME NEW r \in Sockets, NEW n \in WireTickets(r)
               PROVE  n \in WireTickets(r)' \cup delivered'
  BY DEF WiresLast
<1>4. PICK i \in DOMAIN outbound[r] : n # 0 /\ outbound[r][i].n = n
  BY DEF WireTickets
<1>5. CASE r # s
  BY <1>2, <1>4, <1>5 DEF WireTickets
<1>6. CASE r = s /\ i = 1
  <2>1. Head(outbound[s]) = outbound[s][1]
    BY <1>1, HeadTailProperties
  <2> QED
    BY <1>1, <1>4, <1>6, <2>1
<1>7. CASE r = s /\ i # 1
  <2>1. /\ i - 1 \in DOMAIN outbound'[s]
        /\ outbound'[s][i - 1] = outbound[s][i]
    <3>1. i \in 2 .. Len(outbound[s]) /\ Len(outbound[s]) \in Nat
      BY <1>1, <1>7, LenProperties
    <3>2. outbound'[s] = Tail(outbound[s])
      BY <1>1 DEF TypeOK
    <3>3. /\ Tail(outbound[s]) \in Seq(Message)
          /\ Len(Tail(outbound[s])) = Len(outbound[s]) - 1
          /\ \A k \in 1 .. Len(outbound[s]) - 1 :
               Tail(outbound[s])[k] = outbound[s][k + 1]
      BY <1>1, HeadTailProperties
    <3>4. i - 1 \in 1 .. Len(outbound[s]) - 1 /\ (i - 1) + 1 = i
      BY <3>1
    <3>5. DOMAIN Tail(outbound[s]) = 1 .. Len(outbound[s]) - 1
      BY <3>3, LenProperties
    <3> QED
      BY <3>2, <3>3, <3>4, <3>5
  <2> QED
    BY <1>4, <1>7, <2>1 DEF WireTickets
<1> QED
  BY <1>5, <1>6, <1>7

LEMMA NothingElseIsLost ==
  ASSUME TypeOK, OneCopyInv, [Next]_vars
  PROVE  FilesLast /\ WiresLast
<1>1. CASE Quiet
  BY <1>1, UntouchedLast DEF Quiet, FilesLast, WiresLast, WireTickets
<1>2. ASSUME UNCHANGED store PROVE FilesLast
  BY <1>2, UntouchedLast DEF FilesLast
<1>3. CASE AllBreak
  BY <1>2, <1>3 DEF AllBreak, WiresLast
<1>4. ASSUME NEW s \in Sockets, OneBreaks(s) PROVE FilesLast /\ WiresLast
  <2>1. \A r \in Sockets \ {s} : outbound'[r] = outbound[r]
    BY <1>4 DEF OneBreaks, TypeOK
  <2>2. ASSUME NEW r \in Sockets, r # s
        PROVE  WireTickets(r)' = WireTickets(r)
    BY <2>1, <2>2 DEF WireTickets
  <2> QED
    BY <1>2, <1>4, <2>2 DEF OneBreaks, WiresLast
<1>5. ASSUME NEW s \in Sockets, NEW c \in Targets, Replays(s, c)
      PROVE  FilesLast /\ WiresLast
  BY <1>5, ReplayLosesNothing
<1>6. ASSUME NEW s \in Sockets, NEW m \in Message, Notifies(s, m) \/ Forwards(s, m)
      PROVE  FilesLast /\ WiresLast
  <2>1. write(s, <<m>>) /\ UNCHANGED store
    BY <1>6 DEF Notifies, Forwards
  <2>2. <<m>> \in Seq(Message)
    OBVIOUS
  <2>3. \A r \in Sockets : WireTickets(r) \subseteq WireTickets(r)'
    BY <2>1, <2>2, WriteKeepsWires
  <2> QED
    BY <1>2, <2>1, <2>3 DEF WiresLast
<1>7. ASSUME NEW c \in Targets, NEW m \in Message, Keeps(c, m)
      PROVE  FilesLast /\ WiresLast
  <2>1. UNCHANGED outbound
    BY <1>7 DEF Keeps
  <2> QED
    BY <1>7, <2>1, StoringLosesByName DEF WiresLast, WireTickets
<1>8. ASSUME NEW s \in Sockets, PeerReceives(s) PROVE FilesLast /\ WiresLast
  BY <1>2, <1>8, ReceivingLosesNothing DEF PeerReceives, fileVars
<1>9. ASSUME NEW c \in Targets, ReplayBreaks(c) PROVE FilesLast /\ WiresLast
  BY <1>9, BrokenReplayLosesTheOldest DEF ReplayBreaks, WiresLast
<1> QED
  BY <1>1, <1>3, <1>4, <1>5, <1>6, <1>7, <1>8, <1>9, StepsMoveMail DEF MailMoves

(* A stored message goes only to a wire, by another one of its target and   *)
(* millisecond, or by a crash in the middle of the replay to its company,   *)
(* the oldest first; a message on a wire only to its receiver or with its   *)
(* connection.  No other step, and no other crash, loses one.               *)
THEOREM OnlyConnectionsLose == Spec => LostOnlyWithConnection
<1>1. TypeOK /\ OneCopyInv /\ [Next]_vars => [FilesLast /\ WiresLast]_vars
  BY NothingElseIsLost
<1> QED
  BY <1>1, TypeCorrect, OneCopySound, PTL
  DEF Spec, LostOnlyWithConnection, FilesLast, WiresLast

-----------------------------------------------------------------------------
(* The hub implements MessageRelay                                          *)

(* What the refinement makes of files and wires.                            *)
KeptBar  == [c \in Targets |-> KeptTickets(c)]
LanesBar == [s \in Sockets |-> Tickets(outbound[s])]

(* MessageRelay counts as the hub does.                                     *)
LEMMA RelayCounts ==
  ASSUME NEW S PROVE Relay!Cardinality(S) = Cardinality(S)
BY DEF Relay!Cardinality, Cardinality

LEMMA TicketsType ==
  ASSUME NEW q \in Seq(Message)
  PROVE  /\ Tickets(q) \in Seq(Nat)
         /\ Len(Tickets(q)) = Len(q)
         /\ DOMAIN Tickets(q) = 1 .. Len(q)
         /\ \A i \in 1 .. Len(q) : Tickets(q)[i] = q[i].n
<1>1. Len(q) \in Nat /\ DOMAIN q = 1 .. Len(q)
  BY LenProperties
<1>2. \A i \in 1 .. Len(q) : q[i].n \in Nat
  <2>1. \A i \in 1 .. Len(q) : q[i] \in Message
    BY <1>1, ElementOfSeq
  <2> QED
    BY <2>1 DEF Message
<1>3. Tickets(q) = [i \in 1 .. Len(q) |-> q[i].n]
  BY <1>1 DEF Tickets
<1>4. Tickets(q) \in [1 .. Len(q) -> Nat]
  BY <1>2, <1>3
<1>5. Tickets(q) \in Seq(Nat)
  BY <1>1, <1>4, IsASeq
<1>6. DOMAIN Tickets(q) = 1 .. Len(q)
  BY <1>3
<1>7. Len(Tickets(q)) = Len(q)
  BY <1>1, <1>5, <1>6, LenProperties
<1> QED
  BY <1>3, <1>5, <1>6, <1>7

LEMMA TicketsConcat ==
  ASSUME NEW q \in Seq(Message), NEW r \in Seq(Message)
  PROVE  Tickets(q \o r) = Tickets(q) \o Tickets(r)
<1>1. /\ q \o r \in Seq(Message) /\ Len(q \o r) = Len(q) + Len(r)
      /\ Len(q) \in Nat /\ Len(r) \in Nat
  BY ConcatProperties, LenProperties
<1>2. /\ Tickets(q) \in Seq(Nat) /\ Len(Tickets(q)) = Len(q)
      /\ Tickets(r) \in Seq(Nat) /\ Len(Tickets(r)) = Len(r)
      /\ Tickets(q \o r) \in Seq(Nat)
      /\ Len(Tickets(q \o r)) = Len(q) + Len(r)
  BY <1>1, TicketsType
<1>3. /\ Tickets(q) \o Tickets(r) \in Seq(Nat)
      /\ Len(Tickets(q) \o Tickets(r)) = Len(q) + Len(r)
  BY <1>2, ConcatProperties
<1>4. ASSUME NEW i \in 1 .. Len(q) + Len(r)
      PROVE  Tickets(q \o r)[i] = (Tickets(q) \o Tickets(r))[i]
  <2>1. Tickets(q \o r)[i] = (q \o r)[i].n
    BY <1>1, TicketsType
  <2>2. CASE i <= Len(q)
    <3>1. i \in 1 .. Len(q)
      BY <1>1, <2>2
    <3>2. (q \o r)[i] = q[i] /\ Tickets(q)[i] = q[i].n
      BY <1>1, <2>2, <3>1, ConcatProperties, TicketsType
    <3>3. (Tickets(q) \o Tickets(r))[i] = Tickets(q)[i]
      BY <1>1, <1>2, <2>2, ConcatProperties
    <3> QED
      BY <2>1, <3>2, <3>3
  <2>3. CASE ~(i <= Len(q))
    <3>1. i - Len(q) \in 1 .. Len(r)
      BY <1>1, <2>3
    <3>2. (q \o r)[i] = r[i - Len(q)] /\ Tickets(r)[i - Len(q)] = r[i - Len(q)].n
      BY <1>1, <2>3, <3>1, ConcatProperties, TicketsType
    <3>3. (Tickets(q) \o Tickets(r))[i] = Tickets(r)[i - Len(q)]
      BY <1>1, <1>2, <2>3, ConcatProperties
    <3> QED
      BY <2>1, <3>2, <3>3
  <2> QED
    BY <2>2, <2>3
<1> QED
  BY <1>2, <1>3, <1>4, SeqEqual

LEMMA TicketsOne ==
  ASSUME NEW m \in Message
  PROVE  Tickets(<<m>>) = <<m.n>>
BY DEF Tickets

LEMMA TicketsTail ==
  ASSUME NEW q \in Seq(Message), q # <<>>
  PROVE  /\ Tickets(q) # <<>>
         /\ Head(Tickets(q)) = Head(q).n
         /\ Tickets(Tail(q)) = Tail(Tickets(q))
<1>1. /\ Tail(q) \in Seq(Message) /\ Len(Tail(q)) = Len(q) - 1
      /\ \A i \in 1 .. Len(q) - 1 : Tail(q)[i] = q[i + 1]
      /\ Len(q) \in Nat \ {0} /\ Head(q) = q[1]
  BY HeadTailProperties, LenProperties
<1>2. /\ Tickets(q) \in Seq(Nat) /\ Len(Tickets(q)) = Len(q)
      /\ \A i \in 1 .. Len(q) : Tickets(q)[i] = q[i].n
  BY TicketsType
<1>3. Tickets(q) # <<>>
  BY <1>1, <1>2
<1>4. /\ Tail(Tickets(q)) \in Seq(Nat) /\ Len(Tail(Tickets(q))) = Len(q) - 1
      /\ \A i \in 1 .. Len(q) - 1 : Tail(Tickets(q))[i] = Tickets(q)[i + 1]
  BY <1>2, <1>3, HeadTailProperties
<1>5. /\ Tickets(Tail(q)) \in Seq(Nat) /\ Len(Tickets(Tail(q))) = Len(q) - 1
      /\ \A i \in 1 .. Len(q) - 1 : Tickets(Tail(q))[i] = Tail(q)[i].n
  BY <1>1, TicketsType
<1>6. ASSUME NEW i \in 1 .. Len(q) - 1
      PROVE  Tickets(Tail(q))[i] = Tail(Tickets(q))[i]
  <2>1. i + 1 \in 1 .. Len(q)
    BY <1>1
  <2> QED
    BY <1>1, <1>2, <1>4, <1>5, <2>1
<1>7. Tickets(Tail(q)) = Tail(Tickets(q))
  BY <1>4, <1>5, <1>6, SeqEqual
<1>8. Head(Tickets(q)) = Head(q).n
  <2>1. 1 \in 1 .. Len(q)
    BY <1>1
  <2> QED
    BY <1>1, <1>2, <2>1
<1> QED
  BY <1>3, <1>7, <1>8

(* A write appends the tickets of the messages to the lane.                 *)
LEMMA WriteOnLane ==
  ASSUME TypeOK, NEW s \in Sockets, NEW msgs \in Seq(Message), write(s, msgs)
  PROVE  LanesBar' = [LanesBar EXCEPT ![s] = @ \o Tickets(msgs)]
<1>1. /\ outbound[s] \in Seq(Message)
      /\ outbound'[s] = outbound[s] \o msgs
      /\ \A r \in Sockets \ {s} : outbound'[r] = outbound[r]
  BY WriteType DEF TypeOK
<1>2. Tickets(outbound'[s]) = Tickets(outbound[s]) \o Tickets(msgs)
  BY <1>1, TicketsConcat
<1>3. \A r \in Sockets \ {s} : Tickets(outbound'[r]) = Tickets(outbound[r])
  BY <1>1
<1>4. LanesBar' = [r \in Sockets |-> Tickets(outbound'[r])]
  BY DEF LanesBar, Tickets
<1> QED
  BY <1>2, <1>3, <1>4 DEF LanesBar

LEMMA WriteOneOnLane ==
  ASSUME TypeOK, NEW s \in Sockets, NEW m \in Message, write(s, <<m>>)
  PROVE  LanesBar' = [LanesBar EXCEPT ![s] = Append(@, m.n)]
<1>1. <<m>> \in Seq(Message)
  OBVIOUS
<1>2. LanesBar' = [LanesBar EXCEPT ![s] = @ \o <<m.n>>]
  BY <1>1, WriteOnLane, TicketsOne
<1>3. LanesBar[s] \in Seq(Nat) /\ m.n \in Nat
  BY TicketsType DEF LanesBar, TypeOK, Message
<1>4. LanesBar[s] \o <<m.n>> = Append(LanesBar[s], m.n)
  BY <1>3, AppendIsConcat
<1> QED
  BY <1>2, <1>4

LEMMA BreaksAreBreaks ==
  ASSUME TypeOK, NEW broken \in SUBSET Sockets,
         \A s \in broken : outbound'[s] = <<>>,
         \A s \in Sockets \ broken : outbound'[s] = outbound[s],
         UNCHANGED <<store, delivered, routed>>
  PROVE  Relay!Break(broken)
<1>1. Tickets(<<>>) = <<>>
  BY DEF Tickets
<1>2. LanesBar' = [s \in Sockets |-> IF s \in broken THEN <<>> ELSE LanesBar[s]]
  <2>1. LanesBar' = [s \in Sockets |-> Tickets(outbound'[s])]
    BY DEF LanesBar, Tickets
  <2>2. ASSUME NEW s \in Sockets
        PROVE  Tickets(outbound'[s]) = IF s \in broken THEN <<>> ELSE LanesBar[s]
    BY <1>1 DEF LanesBar
  <2> QED
    BY <2>1, <2>2
<1>3. KeptBar' = KeptBar
  BY DEF KeptBar, KeptTickets, FileNames
<1> QED
  BY <1>2, <1>3 DEF Relay!Break, KeptBar, LanesBar

LEMMA WritesAreForwards ==
  ASSUME TypeOK, NEW s \in Sockets, NEW m \in Message
  PROVE  /\ Notifies(s, m) => Relay!Notice(s)
         /\ Forwards(s, m) => Relay!Forward(s)
<1>1. write(s, <<m>>) => LanesBar' = [LanesBar EXCEPT ![s] = Append(@, m.n)]
  BY WriteOneOnLane
<1>2. UNCHANGED store => KeptBar' = KeptBar
  BY DEF KeptBar, KeptTickets, FileNames
<1>3. ASSUME Notifies(s, m) PROVE Relay!Notice(s)
  <2>1. LanesBar' = [LanesBar EXCEPT ![s] = Append(@, 0)]
    BY <1>1, <1>3 DEF Notifies
  <2> QED
    BY <1>2, <1>3, <2>1 DEF Notifies, Relay!Notice, KeptBar, LanesBar
<1>4. ASSUME Forwards(s, m) PROVE Relay!Forward(s)
  <2>1. LanesBar' = [LanesBar EXCEPT ![s] = Append(@, routed')]
    BY <1>1, <1>4 DEF Forwards
  <2> QED
    BY <1>2, <1>4, <2>1 DEF Forwards, Relay!Forward, KeptBar, LanesBar
<1> QED
  BY <1>3, <1>4

LEMMA ReceiptsArrive ==
  ASSUME TypeOK, NEW s \in Sockets, PeerReceives(s)
  PROVE  Relay!Arrive(s)
<1>1. /\ outbound[s] \in Seq(Message) /\ outbound[s] # <<>>
      /\ outbound' = [outbound EXCEPT ![s] = Tail(@)]
      /\ delivered' = delivered \cup ({Head(outbound[s]).n} \ {0})
      /\ UNCHANGED <<store, routed>>
  BY DEF PeerReceives, TypeOK, fileVars
<1>2. /\ LanesBar[s] # <<>>
      /\ Head(LanesBar[s]) = Head(outbound[s]).n
      /\ Tickets(Tail(outbound[s])) = Tail(LanesBar[s])
  BY <1>1, TicketsTail DEF LanesBar
<1>3. LanesBar' = [LanesBar EXCEPT ![s] = Tail(@)]
  <2>1. LanesBar' = [r \in Sockets |-> Tickets(outbound'[r])]
    BY DEF LanesBar, Tickets
  <2>2. ASSUME NEW r \in Sockets
        PROVE  Tickets(outbound'[r]) = IF r = s THEN Tail(LanesBar[s])
                                                ELSE LanesBar[r]
    BY <1>1, <1>2 DEF LanesBar, TypeOK
  <2> QED
    BY <2>1, <2>2 DEF LanesBar
<1>4. KeptBar' = KeptBar
  BY <1>1 DEF KeptBar, KeptTickets, FileNames
<1>5. delivered' = delivered \cup ({Head(LanesBar[s])} \ {0})
  BY <1>1, <1>2
<1> QED
  BY <1>1, <1>2, <1>3, <1>4, <1>5 DEF Relay!Arrive, KeptBar, LanesBar

(* The older of two files has the smaller ticket, so the files up to a name *)
(* are the tickets up to a ticket.                                          *)
LEMMA BrokenReplayBreaks ==
  ASSUME TypeOK, OrderInv, NEW c \in Targets, ReplayBreaks(c)
  PROVE  Relay!BreakInReplay(c)
<1>1. PICK t \in FileNames(store[c]) : LosesUpTo(c, t)
  BY DEF ReplayBreaks
<1>2. /\ \A d \in Targets \ {c} : store'[d] = store[d]
      /\ \A u \in Times : store'[c][u] = IF u <= t THEN NoFile ELSE store[c][u]
  BY <1>1, LosesTheOldest
<1>3. \A u \in FileNames(store[c]) :
        u \in Times /\ u \in Nat /\ store[c][u] # NoFile /\ store[c][u].n \in Nat
  BY SortsOfValues DEF FileNames, TypeOK, Message
<1>4. \A u, v \in FileNames(store[c]) : u < v => store[c][u].n < store[c][v].n
  BY DEF OrderInv, FilesInOrder
<1>5. FileNames(store'[c]) = {u \in FileNames(store[c]) : ~(u <= t)}
  BY <1>2, <1>3 DEF FileNames
<1>6. \A u \in FileNames(store'[c]) : store'[c][u] = store[c][u]
  BY <1>2, <1>3, <1>5
<1>7. ASSUME NEW u \in FileNames(store[c])
      PROVE  ~(u <= t) <=> store[c][u].n > store[c][t].n
  <2>1. u \in Nat /\ t \in Nat /\ store[c][u].n \in Nat /\ store[c][t].n \in Nat
    BY <1>3
  <2>2. CASE u < t
    <3>1. store[c][u].n < store[c][t].n
      BY <1>4, <2>2
    <3> QED
      BY <2>1, <2>2, <3>1
  <2>3. CASE u = t
    BY <2>1, <2>3
  <2>4. CASE t < u
    <3>1. store[c][t].n < store[c][u].n
      BY <1>4, <2>4
    <3> QED
      BY <2>1, <2>4, <3>1
  <2> QED
    BY <2>1, <2>2, <2>3, <2>4
<1>8. KeptTickets(c)' = {n \in KeptTickets(c) : n > store[c][t].n}
  <2>1. KeptTickets(c)' = {store'[c][u].n : u \in FileNames(store'[c])}
    BY DEF KeptTickets, FileNames
  <2>2. KeptTickets(c) = {store[c][u].n : u \in FileNames(store[c])}
    BY DEF KeptTickets
  <2>3. ASSUME NEW n \in KeptTickets(c)'
        PROVE  n \in KeptTickets(c) /\ n > store[c][t].n
    <3>1. PICK u \in FileNames(store'[c]) : n = store'[c][u].n
      BY <2>1
    <3>2. /\ u \in FileNames(store[c]) /\ ~(u <= t) /\ n = store[c][u].n
      BY <1>5, <1>6, <3>1
    <3> QED
      BY <1>7, <2>2, <3>2
  <2>4. ASSUME NEW n \in KeptTickets(c), n > store[c][t].n
        PROVE  n \in KeptTickets(c)'
    <3>1. PICK u \in FileNames(store[c]) : n = store[c][u].n
      BY <2>2
    <3>2. u \in FileNames(store'[c]) /\ n = store'[c][u].n
      BY <1>5, <1>6, <1>7, <2>4, <3>1
    <3> QED
      BY <2>1, <3>2
  <2> QED
    BY <2>3, <2>4
<1>9. KeptBar' = [KeptBar EXCEPT ![c] = {n \in @ : n > store[c][t].n}]
  <2>1. KeptBar' = [d \in Targets |-> KeptTickets(d)']
    BY DEF KeptBar
  <2>2. \A d \in Targets \ {c} : KeptTickets(d)' = KeptTickets(d)
    BY <1>2 DEF KeptTickets, FileNames
  <2> QED
    BY <1>8, <2>1, <2>2 DEF KeptBar
<1>10. store[c][t].n \in KeptBar[c]
  BY DEF KeptBar, KeptTickets
<1>11. LanesBar' = [s \in Sockets |-> <<>>]
  <2>1. LanesBar' = [s \in Sockets |-> Tickets(outbound'[s])]
    BY DEF LanesBar, Tickets
  <2>2. \A s \in Sockets : Tickets(outbound'[s]) = <<>>
    BY DEF ReplayBreaks, NoPackets, Tickets
  <2> QED
    BY <2>1, <2>2
<1>12. UNCHANGED <<delivered, routed>>
  BY DEF ReplayBreaks
<1>13. \E n \in KeptBar[c] : KeptBar' = [KeptBar EXCEPT ![c] = {m \in @ : m > n}]
  BY <1>9, <1>10
<1> QED
  BY <1>11, <1>12, <1>13 DEF Relay!BreakInReplay, KeptBar, LanesBar

(* Storing keeps the new ticket, at the cost of the one whose name it takes.*)
LEMMA StoringKeepsOrForgets ==
  ASSUME TypeOK, OneCopyInv, NEW c \in Targets, NEW m \in Message, Keeps(c, m)
  PROVE  Relay!Keep(c) \/ Relay!Forget
<1> USE SortsOfValues
<1>1. LanesBar' = LanesBar
  BY DEF Keeps, LanesBar, Tickets
<1>2. CASE store' = store
  <2>1. KeptBar' = KeptBar
    BY <1>2 DEF KeptBar, KeptTickets, FileNames
  <2> QED
    BY <1>1, <2>1 DEF Keeps, Relay!Forget, KeptBar, LanesBar
<1>3. CASE store' = [store EXCEPT ![c][clock] = m]
  <2> DEFINE old == store[c][clock]
             gone == IF old = NoFile THEN {} ELSE {old.n}
  <2>1. /\ store' = [store EXCEPT ![c][clock] = m]
        /\ m.n = routed' /\ m # NoFile
        /\ clock \in Times
    BY <1>3 DEF Keeps, TypeOK
  <2>2. /\ store'[c][clock] = m
        /\ \A t \in Times \ {clock} : store'[c][t] = store[c][t]
        /\ \A d \in Targets \ {c} : store'[d] = store[d]
    BY <2>1 DEF TypeOK
  <2>3. gone \in {{}} \cup {{n} : n \in KeptTickets(c)}
    BY <2>1 DEF KeptTickets, FileNames
  <2>4. \A t \in FileNames(store[c]) \ {clock} : store[c][t].n \notin gone
    <3>1. SUFFICES ASSUME NEW t \in FileNames(store[c]), t # clock,
                          old # NoFile, store[c][t].n = old.n
                   PROVE  FALSE
      OBVIOUS
    <3>2. t \in Times /\ store[c][t] # NoFile /\ store[c][t] \in Message
      BY DEF FileNames, TypeOK
    <3>3. /\ store[c][t].n \in Nat
          /\ Filed(store, c, t, store[c][t].n)
          /\ Filed(store, c, clock, store[c][t].n)
      BY <3>1, <3>2 DEF Filed, Message
    <3> QED
      BY <2>1, <3>1, <3>2, <3>3 DEF OneCopyInv, OneCopy, OneFileEach
  <2>5. KeptTickets(c)' = (KeptTickets(c) \ gone) \cup {routed'}
    <3>1. KeptTickets(c)' = {store'[c][t].n : t \in FileNames(store'[c])}
      BY DEF KeptTickets, FileNames
    <3>2. FileNames(store'[c]) = FileNames(store[c]) \cup {clock}
      BY <2>1, <2>2 DEF FileNames
    <3>3. ASSUME NEW n \in KeptTickets(c)'
          PROVE  n \in (KeptTickets(c) \ gone) \cup {routed'}
      <4>1. PICK t \in FileNames(store'[c]) : n = store'[c][t].n
        BY <3>1
      <4>2. CASE t = clock
        BY <2>1, <2>2, <4>1, <4>2
      <4>3. CASE t # clock
        <5>1. t \in FileNames(store[c]) \ {clock} /\ n = store[c][t].n
          BY <2>2, <3>2, <4>1, <4>3 DEF FileNames
        <5> QED
          BY <2>4, <5>1 DEF KeptTickets
      <4> QED
        BY <4>2, <4>3
    <3>4. routed' \in KeptTickets(c)'
      BY <2>1, <2>2, <3>1, <3>2
    <3>5. ASSUME NEW n \in KeptTickets(c) \ gone
          PROVE  n \in KeptTickets(c)'
      <4>1. PICK t \in FileNames(store[c]) : n = store[c][t].n
        BY DEF KeptTickets
      <4>2. t # clock
        BY <4>1 DEF FileNames
      <4>3. store'[c][t] = store[c][t] /\ t \in FileNames(store'[c])
        BY <2>2, <3>2, <4>2 DEF FileNames
      <4> QED
        BY <3>1, <4>1, <4>3
    <3> QED
      BY <3>3, <3>4, <3>5
  <2>6. KeptBar' = [KeptBar EXCEPT ![c] = (@ \ gone) \cup {routed'}]
    <3>1. KeptBar' = [d \in Targets |-> KeptTickets(d)']
      BY DEF KeptBar
    <3>2. \A d \in Targets \ {c} : KeptTickets(d)' = KeptTickets(d)
      BY <2>2 DEF KeptTickets, FileNames
    <3> HIDE DEF gone
    <3> QED
      BY <2>5, <3>1, <3>2 DEF KeptBar
  <2>7. KeptBar[c] = KeptTickets(c)
    BY DEF KeptBar
  <2> HIDE DEF gone
  <2>8. \E g \in {{}} \cup {{n} : n \in KeptBar[c]} :
          KeptBar' = [KeptBar EXCEPT ![c] = (@ \ g) \cup {routed'}]
    BY <2>3, <2>6, <2>7
  <2>9. routed' = routed + 1 /\ UNCHANGED delivered
    BY DEF Keeps
  <2>10. Relay!Keep(c)
    BY <1>1, <2>8, <2>9 DEF Relay!Keep, KeptBar, LanesBar
  <2> QED
    BY <2>10
<1> QED
  BY <1>2, <1>3 DEF Keeps, storeMessage

(* A replay sends the tickets kept, the oldest first: there are as many     *)
(* names as tickets, and both ascend together.                              *)
LEMMA ReplaysOldestFirst ==
  ASSUME TypeOK, OneCopyInv, OrderInv, storeReady, NEW c \in Targets
  PROVE  Tickets(QueuedMessages(c)) \in Relay!OldestFirst(KeptTickets(c))
<1> DEFINE S == FileNames(store[c])
           names == SortedNames(S)
           n == Cardinality(S)
           K == KeptTickets(c)
           f == [t \in S |-> store[c][t].n]
<1>1. S \in SUBSET Times
  BY DEF FileNames
<1>2. /\ n \in Nat /\ names \in [1 .. n -> S] /\ IsFiniteSet(S)
      /\ \A i, j \in 1 .. n : i < j => names[i] < names[j]
  BY <1>1, SortedNamesAscend, NamesAreFinite
<1>3. \A t \in S : store[c][t] # NoFile /\ store[c][t] \in Message /\ f[t] \in Nat
  BY DEF TypeOK, FileNames, Message
<1>4. K = {store[c][t].n : t \in S}
  BY DEF KeptTickets
<1>5. Cardinality(K) = n
  <2>1. f \in [S -> K] /\ \A k \in K : \E t \in S : f[t] = k
    BY <1>4
  <2>2. ASSUME NEW t \in S, NEW u \in S, f[t] = f[u] PROVE t = u
    <3>1. Filed(store, c, t, f[t]) /\ Filed(store, c, u, f[t])
      BY <1>3, <2>2 DEF Filed
    <3> HIDE DEF f
    <3> QED
      BY <1>1, <1>3, <3>1 DEF OneCopyInv, OneCopy, OneFileEach
  <2>3. f \in Bijection(S, K)
    BY <2>1, <2>2 DEF Bijection, Injection, Surjection, IsInjective
  <2>4. ExistsBijection(S, K)
    BY <2>3 DEF ExistsBijection
  <2> QED
    BY <1>2, <2>4, FS_Bijection
<1>6. QueuedMessages(c) = [i \in 1 .. n |-> store[c][names[i]]]
  BY <1>2 DEF QueuedMessages
<1>7. Tickets(QueuedMessages(c)) = [i \in 1 .. n |-> store[c][names[i]].n]
  BY <1>6 DEF Tickets
<1>8. Tickets(QueuedMessages(c)) \in [1 .. Cardinality(K) -> K]
  BY <1>2, <1>4, <1>5, <1>7
<1>9. ASSUME NEW i \in 1 .. n, NEW j \in 1 .. n, i < j
      PROVE  store[c][names[i]].n < store[c][names[j]].n
  <2>1. names[i] \in S /\ names[j] \in S /\ names[i] < names[j]
    BY <1>2, <1>9
  <2> HIDE DEF names, n
  <2> QED
    BY <2>1 DEF OrderInv, FilesInOrder
<1>10. \A i, j \in 1 .. n : i < j =>
         Tickets(QueuedMessages(c))[i] < Tickets(QueuedMessages(c))[j]
  BY <1>7, <1>9
<1>11. DOMAIN Tickets(QueuedMessages(c)) = 1 .. n
  BY <1>7
<1> DEFINE x == Tickets(QueuedMessages(c))
<1> HIDE DEF S, names, n, K, f, x
<1>12. /\ x \in [1 .. Cardinality(K) -> K]
       /\ \A i, j \in DOMAIN x : i < j => x[i] < x[j]
  BY <1>8, <1>10, <1>11 DEF x
<1>13. x \in Relay!OldestFirst(K)
  BY <1>12, RelayCounts DEF Relay!OldestFirst
<1> QED
  BY <1>13 DEF x, K

LEMMA ReplaysAreReplays ==
  ASSUME TypeOK, OneCopyInv, OrderInv, NEW s \in Sockets, NEW c \in Targets,
         Replays(s, c)
  PROVE  \/ Relay!Replay(c, s)
         \/ UNCHANGED <<routed, KeptBar, LanesBar, delivered>>
<1> USE SortsOfValues
<1> DEFINE q == QueuedMessages(c)
<1>1. /\ q \in Seq(Message) /\ write(s, q) /\ UNCHANGED <<delivered, routed>>
      /\ store' = IF storeReady THEN [store EXCEPT ![c] = EmptyDir] ELSE store
  BY QueuedMessagesAreFiles DEF Replays, getAndClearQueuedMessages
<1>2. LanesBar' = [LanesBar EXCEPT ![s] = @ \o Tickets(q)]
  <2> HIDE DEF q
  <2> QED
    BY <1>1, WriteOnLane
<1>3. ASSUME q = <<>> PROVE LanesBar' = LanesBar
  <2>1. Tickets(q) = <<>>
    BY <1>3 DEF Tickets
  <2>2. LanesBar[s] \in Seq(Nat)
    BY TicketsType DEF LanesBar, TypeOK
  <2>3. LanesBar[s] \o <<>> = LanesBar[s]
    BY <2>2, ConcatEmptySeq
  <2> HIDE DEF q
  <2> QED
    BY <1>2, <2>1, <2>3 DEF LanesBar
<1>4. CASE ~storeReady
  <2>1. q = <<>> /\ store' = store
    BY <1>1, <1>4 DEF QueuedMessages
  <2>2. KeptBar' = KeptBar
    BY <2>1 DEF KeptBar, KeptTickets, FileNames
  <2> QED
    BY <1>1, <1>3, <2>1, <2>2
<1>5. CASE storeReady
  <2>1. /\ store'[c] = EmptyDir
        /\ \A d \in Targets \ {c} : store'[d] = store[d]
    BY <1>1, <1>5 DEF TypeOK
  <2>2. KeptTickets(c)' = {}
    BY <2>1 DEF KeptTickets, FileNames, EmptyDir
  <2>3. KeptBar' = [KeptBar EXCEPT ![c] = {}]
    <3>1. KeptBar' = [d \in Targets |-> KeptTickets(d)']
      BY DEF KeptBar
    <3>2. \A d \in Targets \ {c} : KeptTickets(d)' = KeptTickets(d)
      BY <2>1 DEF KeptTickets, FileNames
    <3> QED
      BY <2>2, <3>1, <3>2 DEF KeptBar
  <2>4. KeptBar[c] = KeptTickets(c)
    BY DEF KeptBar
  <2>5. CASE KeptTickets(c) = {}
    <3>1. FileNames(store[c]) = {}
      <4>1. \A t \in FileNames(store[c]) : store[c][t].n \in KeptTickets(c)
        BY DEF KeptTickets
      <4> QED
        BY <2>5, <4>1
    <3>2. q = <<>>
      <4>1. \A i \in DOMAIN q : \E t \in FileNames(store[c]) : q[i] = store[c][t]
        BY QueuedMessagesAreFiles
      <4>2. DOMAIN q = {}
        BY <3>1, <4>1
      <4> HIDE DEF q
      <4> QED
        BY <1>1, <4>2, LenProperties
    <3>3. KeptBar' = KeptBar
      BY <2>3, <2>4, <2>5 DEF KeptBar
    <3> QED
      BY <1>1, <1>3, <3>2, <3>3
  <2>6. CASE KeptTickets(c) # {}
    <3>1. Tickets(q) \in Relay!OldestFirst(KeptBar[c])
      BY <1>5, <2>4, ReplaysOldestFirst
    <3> HIDE DEF q
    <3>2. \E x \in Relay!OldestFirst(KeptBar[c]) :
            LanesBar' = [LanesBar EXCEPT ![s] = @ \o x]
      BY <1>2, <3>1
    <3>3. KeptBar[c] # {}
      BY <2>4, <2>6
    <3>4. Relay!Replay(c, s)
      BY <1>1, <2>3, <3>2, <3>3 DEF Relay!Replay, KeptBar, LanesBar
    <3> QED
      BY <3>4
  <2> QED
    BY <2>5, <2>6
<1> QED
  BY <1>4, <1>5

LEMMA RelayStep ==
  ASSUME TypeOK, OneCopyInv, OrderInv, [Next]_vars
  PROVE  \/ Relay!RNext
         \/ UNCHANGED <<routed, KeptBar, LanesBar, delivered>>
<1>1. CASE Quiet
  BY <1>1 DEF Quiet, KeptBar, LanesBar, KeptTickets, FileNames, Tickets
<1>2. CASE AllBreak
  <2>1. \A s \in Sockets : outbound'[s] = <<>>
    BY <1>2 DEF AllBreak, NoPackets
  <2>2. Relay!Break(Sockets)
    BY <1>2, <2>1, BreaksAreBreaks DEF AllBreak
  <2> QED
    BY <2>2 DEF Relay!RNext
<1>3. ASSUME NEW s \in Sockets, OneBreaks(s) PROVE Relay!RNext
  <2>1. outbound'[s] = <<>> /\ \A r \in Sockets \ {s} : outbound'[r] = outbound[r]
    BY <1>3 DEF OneBreaks, TypeOK
  <2>2. Relay!Break({s})
    BY <1>3, <2>1, BreaksAreBreaks DEF OneBreaks
  <2> QED
    BY <2>2 DEF Relay!RNext
<1>4. ASSUME NEW s \in Sockets, NEW c \in Targets, Replays(s, c)
      PROVE  \/ Relay!RNext
             \/ UNCHANGED <<routed, KeptBar, LanesBar, delivered>>
  BY <1>4, ReplaysAreReplays DEF Relay!RNext
<1>5. ASSUME NEW s \in Sockets, NEW m \in Message, Notifies(s, m) \/ Forwards(s, m)
      PROVE  Relay!RNext
  BY <1>5, WritesAreForwards DEF Relay!RNext
<1>6. ASSUME NEW c \in Targets, NEW m \in Message, Keeps(c, m)
      PROVE  Relay!RNext
  BY <1>6, StoringKeepsOrForgets DEF Relay!RNext
<1>7. ASSUME NEW s \in Sockets, PeerReceives(s) PROVE Relay!RNext
  BY <1>7, ReceiptsArrive DEF Relay!RNext
<1>8. ASSUME NEW c \in Targets, ReplayBreaks(c) PROVE Relay!RNext
  BY <1>8, BrokenReplayBreaks DEF Relay!RNext
<1> QED
  BY <1>1, <1>2, <1>3, <1>4, <1>5, <1>6, <1>7, <1>8, StepsMoveMail DEF MailMoves

LEMMA RelayInit ==
  ASSUME Init PROVE Relay!RInit
<1>1. KeptBar = [c \in Targets |-> {}]
  BY DEF Init, KeptBar, KeptTickets, FileNames, EmptyDir
<1>2. LanesBar = [s \in Sockets |-> <<>>]
  BY DEF Init, LanesBar, Tickets, NoPackets
<1> QED
  BY <1>1, <1>2 DEF Init, Relay!RInit, KeptBar, LanesBar

(* While the clock that names the files does not run backwards, the hub     *)
(* with its sessions, buffers and files is a relay of numbered messages.    *)
THEOREM HubIsARelay ==
  ASSUME ~ClockMaySlip
  PROVE  Spec => RefinesRelay
<1>1. Init => Relay!RInit
  BY RelayInit
<1>2. TypeOK /\ OneCopyInv /\ OrderInv /\ [Next]_vars
        => [Relay!RNext]_(Relay!relayVars)
  BY RelayStep DEF Relay!relayVars, KeptBar, LanesBar
<1> QED
  BY <1>1, <1>2, TypeCorrect, OneCopySound, OrderSound, PTL
  DEF Spec, RefinesRelay, Relay!RelaySpec
=============================================================================
