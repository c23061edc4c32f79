------------------------------ MODULE HubProofs ------------------------------
(***************************************************************************)
(* Proofs about Hub, for every set of clients and sockets: the hub part of *)
(* the system is a FixServer whose peers happen to be clients, and what    *)
(* the clients are is known to it.                                         *)
(***************************************************************************)
EXTENDS Hub, FixServerProofs

LEMMA ClientFacts ==
  /\ \A k \in Clients : Client!LoadConfig(k) =>
       /\ Client!LogonOf(k) \in Packets
       /\ Config[k].target # NoComp => Client!OrderOf(k) \in Packets
  /\ \A k \in Clients :
       /\ Client!LogonOf(k).type = Logon
       /\ Client!LogonOf(k).sender = Config[k].compId
       /\ Client!OrderOf(k).sender = Config[k].compId
BY HubAssumption DEF ClientsSendPackets, Client!LogonOf, Client!OrderOf

ClientStates == {"down", "connecting", "connected", "unconnected"}

HubTypeOK ==
  /\ state \in [Clients -> ClientStates]
  /\ timer \in [Clients -> {"unset", "armed", "fired"}]
  /\ outgoing \in [Clients -> Seq(Packet)]
  /\ conn \in [Clients -> Sockets \cup {NoSocket}]

(* A client that runs has read its configuration; one that is connected has *)
(* a socket of the hub; the sockets of clients are open, each of one client *)
(* that is connecting or connected.                                         *)
LinkInv ==
  \A k \in Clients :
    /\ state[k] # "down" \/ timer[k] = "armed" => Client!LoadConfig(k)
    /\ state[k] = "connected" => conn[k] # NoSocket
    /\ conn[k] # NoSocket =>
         /\ conn[k] \in clients
         /\ state[k] \in {"connecting", "connected"}
         /\ \A j \in Clients \ {k} : conn[j] # conn[k]

-----------------------------------------------------------------------------
(* The hub's steps as steps of FixServer                                    *)

LEMMA OnlyConnectedSend ==
  ASSUME HubTypeOK, NEW k \in Clients, Client!SendTestMessage(k),
         outgoing' # outgoing
  PROVE  /\ state[k] = "connected" /\ timer[k] = "armed"
         /\ Config[k].target # NoComp
         /\ outgoing' = [outgoing EXCEPT ![k] = Append(@, Client!OrderOf(k))]
<1>1. /\ timer[k] = "armed" /\ state' = state
      /\ Config[k].target # NoComp
      /\ Client!SendMessage(k, Client!OrderOf(k))
  BY DEF Client!SendTestMessage
<1>2. state[k] = "connected"
  <2>1. SUFFICES ASSUME state[k] # "connected" PROVE FALSE
    OBVIOUS
  <2>2. outgoing' = [outgoing EXCEPT ![k] = outgoing[k]]
    BY <1>1, <2>1 DEF Client!SendMessage
  <2> QED
    BY <2>2 DEF HubTypeOK
<1> QED
  BY <1>1, <1>2 DEF Client!SendMessage

LEMMA HubStepIsStep ==
  ASSUME HubTypeOK, LinkInv, [HubNext]_hubVars
  PROVE  [Next]_vars
<1>1. CASE ServerStep
  BY <1>1 DEF ServerStep, Next
<1>2. CASE HubCrash
  BY <1>2 DEF HubCrash, Next
<1>3. ASSUME NEW k \in Clients, NEW s \in Sockets, Accept(k, s)
      PROVE  [Next]_vars
  BY <1>3 DEF Accept, Next
<1>4. ASSUME NEW k \in Clients, Connected(k) PROVE [Next]_vars
  <2>1. /\ conn[k] \in Sockets /\ state[k] = "connecting"
        /\ PeerSends(conn[k], Client!LogonOf(k))
    BY <1>4 DEF Connected, Client!OnConnected, HubTypeOK
  <2>2. Client!LogonOf(k) \in Packets
    BY <2>1, ClientFacts DEF LinkInv
  <2>3. PICK s \in Sockets, p \in Packets : PeerSends(s, p)
    BY <2>1, <2>2
  <2> QED
    BY <2>3 DEF Next
<1>5. ASSUME NEW k \in Clients, TimerFires(k) PROVE [Next]_vars
  <2>1. CASE outgoing' = outgoing
    BY <1>5, <2>1 DEF TimerFires
  <2>2. CASE outgoing' # outgoing
    <3>1. PeerSends(conn[k], Client!OrderOf(k)) /\ Client!SendTestMessage(k)
      BY <1>5, <2>2 DEF TimerFires
    <3>2. /\ state[k] = "connected" /\ timer[k] = "armed"
          /\ Config[k].target # NoComp
      BY <2>2, <3>1, OnlyConnectedSend
    <3>3. conn[k] \in Sockets /\ Client!OrderOf(k) \in Packets
      BY <3>2, ClientFacts DEF LinkInv, HubTypeOK
    <3>4. PICK s \in Sockets, p \in Packets : PeerSends(s, p)
      BY <3>1, <3>3
    <3> QED
      BY <3>4 DEF Next
  <2> QED
    BY <2>1, <2>2
<1>6. ASSUME NEW k \in Clients, Disconnect(k) PROVE [Next]_vars
  <2>1. PICK s \in Sockets : ClientDisconnected(s)
    BY <1>6 DEF Disconnect, HubTypeOK
  <2> QED
    BY <2>1 DEF Next
<1>7. ASSUME NEW k \in Clients, LaunchClient(k) \/ Refused(k)
      PROVE  [Next]_vars
  BY <1>7 DEF LaunchClient, Refused
<1>8. CASE UNCHANGED hubVars
  BY <1>8 DEF hubVars
<1> QED
  BY <1>1, <1>2, <1>3, <1>4, <1>5, <1>6, <1>7, <1>8 DEF HubNext

LEMMA HubTypeStep ==
  ASSUME HubTypeOK, LinkInv, TypeOK, [HubNext]_hubVars
  PROVE  HubTypeOK'
<1>1. CASE ServerStep
  BY <1>1 DEF ServerStep, HubTypeOK, clientVars
<1>2. CASE HubCrash
  <2>1. /\ conn' = [k \in Clients |-> NoSocket]
        /\ state' = [k \in Clients |-> IF conn[k] # NoSocket
                                         THEN "unconnected" ELSE state[k]]
        /\ outgoing' = [k \in Clients |-> IF conn[k] # NoSocket THEN <<>>
                                          ELSE outgoing[k]]
        /\ timer' = timer
    BY <1>2 DEF HubCrash
  <2>2. \A k \in Clients : /\ state[k] \in ClientStates
                           /\ outgoing[k] \in Seq(Packet)
    BY DEF HubTypeOK
  <2>3. state' \in [Clients -> ClientStates]
    BY <2>1, <2>2 DEF ClientStates
  <2>4. outgoing' \in [Clients -> Seq(Packet)]
    BY <2>1, <2>2
  <2>5. conn' \in [Clients -> Sockets \cup {NoSocket}]
    BY <2>1
  <2> QED
    BY <2>1, <2>3, <2>4, <2>5 DEF HubTypeOK
<1>3. ASSUME NEW k \in Clients, NEW s \in Sockets, Accept(k, s)
      PROVE  HubTypeOK'
  BY <1>3 DEF Accept, HubTypeOK, clientVars
<1>4. ASSUME NEW k \in Clients, Connected(k) PROVE HubTypeOK'
  <2>1. /\ state[k] = "connecting"
        /\ state' = [state EXCEPT ![k] = "connected"]
        /\ Client!SendMessage(k, Client!LogonOf(k))
        /\ UNCHANGED <<timer, conn>>
    BY <1>4 DEF Connected, Client!OnConnected
  <2>2. Client!LogonOf(k) \in Packet
    BY <2>1, ClientFacts, SortsOfValues DEF LinkInv
  <2>3. outgoing[k] \in Seq(Packet)
    BY DEF HubTypeOK
  <2>4. Append(outgoing[k], Client!LogonOf(k)) \in Seq(Packet)
    BY <2>2, <2>3
  <2>5. outgoing' = [outgoing EXCEPT ![k] = Append(@, Client!LogonOf(k))]
    BY <2>1 DEF Client!SendMessage, HubTypeOK
  <2>6. outgoing' \in [Clients -> Seq(Packet)]
    BY <2>4, <2>5 DEF HubTypeOK
  <2>7. state' \in [Clients -> ClientStates]
    BY <2>1 DEF HubTypeOK, ClientStates
  <2> QED
    BY <2>1, <2>6, <2>7 DEF HubTypeOK
<1>5. ASSUME NEW k \in Clients, TimerFires(k) PROVE HubTypeOK'
  <2>1. /\ Client!SendTestMessage(k)
        /\ timer' = [timer EXCEPT ![k] = "fired"]
        /\ UNCHANGED <<state, conn>>
    BY <1>5 DEF TimerFires, Client!SendTestMessage
  <2>2. timer' \in [Clients -> {"unset", "armed", "fired"}]
    BY <2>1 DEF HubTypeOK
  <2>3. outgoing' \in [Clients -> Seq(Packet)]
    <3>1. CASE outgoing' = outgoing
      BY <3>1 DEF HubTypeOK
    <3>2. CASE outgoing' # outgoing
      <4>1. /\ timer[k] = "armed" /\ Config[k].target # NoComp
            /\ outgoing' = [outgoing EXCEPT
                              ![k] = Append(@, Client!OrderOf(k))]
        BY <2>1, <3>2, OnlyConnectedSend
      <4>2. Client!OrderOf(k) \in Packet
        BY <4>1, ClientFacts, SortsOfValues DEF LinkInv
      <4>3. outgoing[k] \in Seq(Packet)
        BY DEF HubTypeOK
      <4>4. Append(outgoing[k], Client!OrderOf(k)) \in Seq(Packet)
        BY <4>2, <4>3
      <4> QED
        BY <4>1, <4>4 DEF HubTypeOK
    <3> QED
      BY <3>1, <3>2
  <2> QED
    BY <2>1, <2>2, <2>3 DEF HubTypeOK
<1>6. ASSUME NEW k \in Clients, Disconnect(k) PROVE HubTypeOK'
  <2>1. /\ state' = [state EXCEPT ![k] = "unconnected"]
        /\ outgoing' = [outgoing EXCEPT ![k] = <<>>]
        /\ conn' = [conn EXCEPT ![k] = NoSocket]
        /\ timer' = timer
    BY <1>6 DEF Disconnect, Client!OnDisconnected
  <2> QED
    BY <2>1 DEF HubTypeOK, ClientStates
<1>7. ASSUME NEW k \in Clients, LaunchClient(k) PROVE HubTypeOK'
  BY <1>7 DEF LaunchClient, Client!Launch, HubTypeOK, ClientStates
<1>8. ASSUME NEW k \in Clients, Refused(k) PROVE HubTypeOK'
  BY <1>8 DEF Refused, Client!ConnectionFails, HubTypeOK, ClientStates
<1>9. CASE UNCHANGED hubVars
  BY <1>9 DEF hubVars, clientVars, HubTypeOK
<1> QED
  BY <1>1, <1>2, <1>3, <1>4, <1>5, <1>6, <1>7, <1>8, <1>9 DEF HubNext

LEMMA LinkStep ==
  ASSUME HubTypeOK, LinkInv, [HubNext]_hubVars
  PROVE  LinkInv'
<1>1. CASE ServerStep
  <2>1. clients' = clients
    BY <1>1
    DEF ServerStep, Start, Tick, ReadyRead, PeerReceives, Iteration, LoopEnds,
      LogonAccepted, LogonRefused, Ignored, Rejected, Relayed, Stored,
      socketVars
  <2> QED
    BY <1>1, <2>1 DEF ServerStep, LinkInv, clientVars, Client!LoadConfig
<1>2. CASE HubCrash
  <2>1. /\ conn' = [k \in Clients |-> NoSocket]
        /\ state' = [k \in Clients |-> IF conn[k] # NoSocket
                                         THEN "unconnected" ELSE state[k]]
        /\ timer' = timer
    BY <1>2 DEF HubCrash
  <2>2. ASSUME NEW k \in Clients
        PROVE  /\ conn'[k] = NoSocket
               /\ state'[k] # "connected"
               /\ state'[k] # "down" \/ timer'[k] = "armed"
                    => Client!LoadConfig(k)
    BY <2>1 DEF LinkInv
  <2> QED
    BY <2>2 DEF LinkInv, Client!LoadConfig
<1>3. ASSUME NEW k \in Clients, NEW s \in Sockets, Accept(k, s)
      PROVE  LinkInv'
  <2>1. /\ state[k] = "connecting" /\ s \notin clients
        /\ clients' = clients \cup {s}
        /\ conn' = [conn EXCEPT ![k] = s]
        /\ UNCHANGED <<state, timer>>
    BY <1>3 DEF Accept, NewConnection, clientVars
  <2>2. s # NoSocket /\ \A j \in Clients : conn[j] # s
    BY <2>1, SortsOfValues DEF LinkInv
  <2> QED
    BY <2>1, <2>2 DEF LinkInv, HubTypeOK, Client!LoadConfig
<1>4. ASSUME NEW k \in Clients, Connected(k) PROVE LinkInv'
  <2>1. /\ conn[k] # NoSocket /\ state[k] = "connecting"
        /\ state' = [state EXCEPT ![k] = "connected"]
        /\ UNCHANGED <<timer, conn, clients>>
    BY <1>4 DEF Connected, Client!OnConnected, PeerSends, socketVars
  <2> QED
    BY <2>1 DEF LinkInv, HubTypeOK, Client!LoadConfig
<1>5. ASSUME NEW k \in Clients, TimerFires(k) PROVE LinkInv'
  <2>1. /\ timer' = [timer EXCEPT ![k] = "fired"]
        /\ UNCHANGED <<state, conn, clients>>
    BY <1>5
    DEF TimerFires, Client!SendTestMessage, PeerSends, socketVars, vars
  <2> QED
    BY <2>1 DEF LinkInv, HubTypeOK, Client!LoadConfig
<1>6. ASSUME NEW k \in Clients, Disconnect(k) PROVE LinkInv'
  <2>1. /\ conn[k] # NoSocket /\ state[k] = "connected"
        /\ state' = [state EXCEPT ![k] = "unconnected"]
        /\ conn' = [conn EXCEPT ![k] = NoSocket]
        /\ clients' = clients \ {conn[k]}
        /\ timer' = timer
    BY <1>6 DEF Disconnect, Client!OnDisconnected, ClientDisconnected
  <2> QED
    BY <2>1 DEF LinkInv, HubTypeOK, Client!LoadConfig
<1>7. ASSUME NEW k \in Clients, LaunchClient(k) PROVE LinkInv'
  <2>1. /\ state[k] = "down" /\ Client!LoadConfig(k)
        /\ state' = [state EXCEPT ![k] = IF Config[k].server
                                           THEN "connecting" ELSE "unconnected"]
        /\ timer' = [timer EXCEPT ![k] = "armed"]
        /\ UNCHANGED <<conn, clients>>
    BY <1>7 DEF LaunchClient, Client!Launch, vars, socketVars
  <2>2. conn[k] = NoSocket
    BY <2>1 DEF LinkInv
  <2>3. state'[k] # "connected"
    BY <2>1 DEF HubTypeOK
  <2> QED
    BY <2>1, <2>2, <2>3 DEF LinkInv, HubTypeOK, Client!LoadConfig
<1>8. ASSUME NEW k \in Clients, Refused(k) PROVE LinkInv'
  <2>1. /\ conn[k] = NoSocket /\ state[k] = "connecting"
        /\ state' = [state EXCEPT ![k] = "unconnected"]
        /\ UNCHANGED <<timer, conn, clients>>
    BY <1>8 DEF Refused, Client!ConnectionFails, vars, socketVars
  <2> QED
    BY <2>1 DEF LinkInv, HubTypeOK, Client!LoadConfig
<1>9. CASE UNCHANGED hubVars
  BY <1>9 DEF hubVars, clientVars, vars, socketVars, LinkInv, Client!LoadConfig
<1> QED
  BY <1>1, <1>2, <1>3, <1>4, <1>5, <1>6, <1>7, <1>8, <1>9 DEF HubNext

LEMMA LinkInit ==
  ASSUME HubInit
  PROVE  Init /\ HubTypeOK /\ LinkInv
BY DEF HubInit, Client!ClientInit, HubTypeOK, LinkInv, ClientStates

LEMMA LinksSound == HubSpec => [](TypeOK /\ HubTypeOK /\ LinkInv)
<1>1. HubInit => TypeOK /\ HubTypeOK /\ LinkInv
  BY LinkInit, TypeInit
<1>2. /\ TypeOK /\ HubTypeOK /\ LinkInv
      /\ [HubNext]_hubVars
      => (TypeOK /\ HubTypeOK /\ LinkInv)'
  BY HubStepIsStep, TypeStep, HubTypeStep, LinkStep
<1> QED
  BY <1>1, <1>2, PTL DEF HubSpec

(* Whatever the clients do, the hub's side of the system is a FixServer     *)
(* with some peers: a client sends only over an open connection, on one of  *)
(* the hub's sockets, so the theorems about FixServer are about the system. *)
THEOREM SystemIsAHub == HubSpec => Spec
<1>1. HubInit => Init
  BY LinkInit
<1>2. HubTypeOK /\ LinkInv /\ [HubNext]_hubVars => [Next]_vars
  BY HubStepIsStep
<1> QED
  BY <1>1, <1>2, LinksSound, PTL DEF HubSpec, Spec

-----------------------------------------------------------------------------
(* What the hub has of a client's connection                                *)

Still(s) ==
  /\ Pending(s)' = Pending(s)
  /\ socketToCompId'[s] = socketToCompId[s]

(* The first packet is taken: by a logon that is accepted, by one that is   *)
(* refused, or by a path through the loop that leaves the sessions alone.   *)
TakesFirst(s) ==
  /\ Pending(s) # <<>> /\ Pending(s)' = Tail(Pending(s))
  /\ LET p == Head(Pending(s)) IN
     \/ socketToCompId'[s] = p.sender
     \/ s \in closing' /\ socketToCompId'[s] = socketToCompId[s]
     \/ /\ p.type = Logon => socketToCompId[s] # NoComp
        /\ socketToCompId'[s] = socketToCompId[s]

LEMMA PendingType ==
  ASSUME TypeOK, NEW s \in Sockets
  PROVE  /\ buffers[s] \in Seq(Packet) /\ inbound[s] \in Seq(Packet)
         /\ Pending(s) \in Seq(Packet)
BY DEF TypeOK, Pending

LEMMA JoinsAssociate ==
  \A a, b, c \in Seq(Packet) : (a \o b) \o c = a \o (b \o c)
BY ConcatAssociative

(* Cutting a sequence in two and joining the parts changes nothing.         *)
LEMMA CutAndJoin ==
  ASSUME NEW a \in Seq(Packet), NEW b \in Seq(Packet), NEW k \in 0 .. Len(b)
  PROVE  (a \o SubSeq(b, 1, k)) \o SubSeq(b, k + 1, Len(b)) = a \o b
<1> DEFINE c == SubSeq(b, 1, k)
           d == SubSeq(b, k + 1, Len(b))
<1>1. k \in Nat /\ Len(b) \in Nat /\ Len(a) \in Nat /\ 0 <= k /\ k <= Len(b)
  OBVIOUS
<1>2. c \in Seq(Packet) /\ Len(c) = k /\ \A i \in 1 .. k : c[i] = b[i]
  BY <1>1
<1>3. /\ d \in Seq(Packet) /\ Len(d) = Len(b) - k
      /\ \A i \in 1 .. Len(b) - k : d[i] = b[i + k]
  BY <1>1
<1> HIDE DEF c, d
<1>4. c \o d = b
  <2>1. c \o d \in Seq(Packet) /\ Len(c \o d) = Len(b)
    <3>1. c \o d \in Seq(Packet) /\ Len(c \o d) = Len(c) + Len(d)
      BY <1>2, <1>3, ConcatProperties
    <3> QED
      BY <1>1, <1>2, <1>3, <3>1
  <2>2. ASSUME NEW i \in 1 .. Len(b) PROVE (c \o d)[i] = b[i]
    <3>1. CASE i <= k
      BY <1>1, <1>2, <1>3, <3>1
    <3>2. CASE i > k
      <4>1. (c \o d)[i] = d[i - k]
        BY <1>1, <1>2, <1>3, <3>2
      <4>2. i - k \in 1 .. Len(b) - k /\ (i - k) + k = i
        BY <1>1, <3>2
      <4>3. d[i - k] = b[(i - k) + k]
        BY <1>3, <4>2
      <4> QED
        BY <4>1, <4>2, <4>3
    <3>3. i <= k \/ i > k
      BY <1>1
    <3> QED
      BY <3>1, <3>2, <3>3
  <2> QED
    BY <2>1, <2>2, SeqEqual
<1>5. (a \o c) \o d = a \o (c \o d)
  <2>1. a \in Seq(Packet) /\ c \in Seq(Packet) /\ d \in Seq(Packet)
    BY <1>2, <1>3
  <2> QED
    BY <2>1, JoinsAssociate
<1> QED
  BY <1>4, <1>5 DEF c, d

LEMMA JoinsAppend ==
  ASSUME NEW a \in Seq(Packet), NEW b \in Seq(Packet), NEW p \in Packet
  PROVE  a \o Append(b, p) = Append(a \o b, p)
<1>1. Len(a) \in Nat /\ Len(b) \in Nat
  OBVIOUS
<1>2. /\ Append(b, p) \in Seq(Packet) /\ a \o b \in Seq(Packet)
      /\ Len(Append(b, p)) = Len(b) + 1 /\ Len(a \o b) = Len(a) + Len(b)
  BY <1>1
<1>3. /\ a \o Append(b, p) \in Seq(Packet)
      /\ Append(a \o b, p) \in Seq(Packet)
      /\ Len(a \o Append(b, p)) = Len(a) + (Len(b) + 1)
      /\ Len(Append(a \o b, p)) = Len(a) + Len(b) + 1
  BY <1>1, <1>2
<1>4. \A i \in 1 .. Len(a) + (Len(b) + 1) :
        (a \o Append(b, p))[i] = Append(a \o b, p)[i]
  BY <1>1, <1>2
<1> QED
  BY <1>1, <1>3, <1>4, SeqEqual

LEMMA EmptyJoin ==
  ASSUME NEW a \in Seq(Packet), NEW b \in Seq(Packet), a \o b = <<>>
  PROVE  a = <<>> /\ b = <<>>
<1>1. Len(a) \in Nat /\ Len(b) \in Nat
  OBVIOUS
<1>2. Len(a \o b) = Len(a) + Len(b) /\ Len(a \o b) = 0
  OBVIOUS
<1>3. Len(a) = 0 /\ Len(b) = 0
  BY <1>1, <1>2
<1> QED
  BY <1>3, EmptySeq

LEMMA TakesHead ==
  ASSUME NEW T, NEW a \in Seq(T), NEW b \in Seq(T), a # <<>>
  PROVE  a \o b # <<>> /\ Head(a \o b) = Head(a) /\ Tail(a \o b) = Tail(a) \o b
<1>1. Len(a) \in Nat \ {0} /\ Len(b) \in Nat
  BY EmptySeq
<1>2. a \o b \in Seq(T) /\ Len(a \o b) = Len(a) + Len(b) /\ a \o b # <<>>
  BY <1>1
<1>3. Head(a \o b) = Head(a)
  BY <1>1, <1>2
<1>4. /\ Tail(a) \in Seq(T) /\ Len(Tail(a)) = Len(a) - 1
      /\ \A i \in 1 .. Len(a) - 1 : Tail(a)[i] = a[i + 1]
  BY <1>1, HeadTailProperties
<1>5. /\ Tail(a \o b) \in Seq(T) /\ Len(Tail(a \o b)) = Len(a) + Len(b) - 1
      /\ \A i \in 1 .. Len(a) + Len(b) - 1 : Tail(a \o b)[i] = (a \o b)[i + 1]
  BY <1>1, <1>2, HeadTailProperties
<1>6. Tail(a) \o b \in Seq(T) /\ Len(Tail(a) \o b) = Len(a) + Len(b) - 1
  BY <1>1, <1>4
<1>7. ASSUME NEW i \in 1 .. Len(a) + Len(b) - 1
      PROVE  Tail(a \o b)[i] = (Tail(a) \o b)[i]
  <2>1. Tail(a \o b)[i] = (a \o b)[i + 1]
    BY <1>5
  <2>2. CASE i <= Len(a) - 1
    BY <1>1, <1>4, <2>1, <2>2
  <2>3. CASE i > Len(a) - 1
    <3>1. (a \o b)[i + 1] = b[i + 1 - Len(a)]
      BY <1>1, <2>3
    <3>2. (Tail(a) \o b)[i] = b[i - (Len(a) - 1)]
      BY <1>1, <1>4, <2>3
    <3>3. i + 1 - Len(a) = i - (Len(a) - 1)
      BY <1>1
    <3> QED
      BY <2>1, <3>1, <3>2, <3>3
  <2> QED
    BY <1>1, <2>2, <2>3
<1> QED
  BY <1>2, <1>3, <1>5, <1>6, <1>7, SeqEqual

LEMMA TakesIsTakesFirst ==
  ASSUME TypeOK, NEW s \in Sockets, NEW p \in Packets, Takes(s, p),
         UNCHANGED inbound
  PROVE  /\ Pending(s) # <<>> /\ Pending(s)' = Tail(Pending(s))
         /\ p = Head(Pending(s))
         /\ \A r \in Sockets \ {s} : Pending(r)' = Pending(r)
<1>1. /\ buffers[s] \in Seq(Packet) /\ inbound[s] \in Seq(Packet)
      /\ buffers[s] # <<>> /\ p = Head(buffers[s])
      /\ buffers' = [buffers EXCEPT ![s] = Tail(@)]
  BY PendingType DEF Takes
<1>2. /\ Pending(s) # <<>> /\ Head(Pending(s)) = Head(buffers[s])
      /\ Tail(Pending(s)) = Tail(buffers[s]) \o inbound[s]
  BY <1>1, TakesHead DEF Pending
<1>3. buffers'[s] = Tail(buffers[s])
  BY <1>1 DEF TypeOK
<1>4. \A r \in Sockets \ {s} : buffers'[r] = buffers[r]
  BY <1>1 DEF TypeOK
<1> QED
  BY <1>1, <1>2, <1>3, <1>4 DEF Pending

(* What a step of the hub alone does to what it has of its connections.     *)
LEMMA ServerMoves ==
  ASSUME TypeOK, ServerStep
  PROVE  /\ closing \subseteq closing'
         /\ \A r \in Sockets : Still(r) \/ TakesFirst(r)
<1>1. ASSUME UNCHANGED <<buffers, inbound, socketVars, sessionVars>>
      PROVE  /\ closing \subseteq closing'
             /\ \A r \in Sockets : Still(r)
  BY <1>1 DEF Still, Pending, socketVars, sessionVars
<1>2. CASE Start \/ Tick
  BY <1>1, <1>2 DEF Start, Tick, wireVars
<1>3. ASSUME NEW s \in Sockets, PeerReceives(s) \/ LoopEnds(s)
      PROVE  /\ closing \subseteq closing'
             /\ \A r \in Sockets : Still(r)
  BY <1>1, <1>3 DEF PeerReceives, LoopEnds, wireVars
<1>4. ASSUME NEW s \in Sockets, ReadyRead(s)
      PROVE  /\ closing \subseteq closing'
             /\ \A r \in Sockets : Still(r)
  <2>1. PICK k \in 0 .. Len(inbound[s]) :
          /\ buffers' = [buffers EXCEPT ![s] = @ \o SubSeq(inbound[s], 1, k)]
          /\ inbound' = [inbound EXCEPT ![s] = SubSeq(@, k + 1, Len(@))]
    BY <1>4 DEF ReadyRead
  <2>2. buffers[s] \in Seq(Packet) /\ inbound[s] \in Seq(Packet)
    BY PendingType
  <2>3. /\ buffers'[s] = buffers[s] \o SubSeq(inbound[s], 1, k)
        /\ inbound'[s] = SubSeq(inbound[s], k + 1, Len(inbound[s]))
        /\ \A r \in Sockets \ {s} : /\ buffers'[r] = buffers[r]
                                    /\ inbound'[r] = inbound[r]
    BY <2>1 DEF TypeOK
  <2>4. buffers'[s] \o inbound'[s] = buffers[s] \o inbound[s]
    BY <2>2, <2>3, CutAndJoin
  <2>5. \A r \in Sockets : Pending(r)' = Pending(r)
    BY <2>3, <2>4 DEF Pending
  <2> QED
    BY <1>4, <2>5 DEF ReadyRead, Still, socketVars, sessionVars
<1>5. ASSUME NEW s \in Sockets, NEW p \in Packets, Takes(s, p),
             UNCHANGED inbound, closing \subseteq closing',
             \A r \in Sockets \ {s} : socketToCompId'[r] = socketToCompId[r],
             \/ socketToCompId'[s] = p.sender
             \/ s \in closing' /\ socketToCompId'[s] = socketToCompId[s]
             \/ /\ p.type = Logon => socketToCompId[s] # NoComp
                /\ socketToCompId'[s] = socketToCompId[s]
      PROVE  /\ closing \subseteq closing'
             /\ \A r \in Sockets : Still(r) \/ TakesFirst(r)
  <2>1. /\ Pending(s) # <<>> /\ Pending(s)' = Tail(Pending(s))
        /\ p = Head(Pending(s))
        /\ \A r \in Sockets \ {s} : Pending(r)' = Pending(r)
    BY <1>5, TakesIsTakesFirst
  <2>2. TakesFirst(s)
    BY <1>5, <2>1 DEF TakesFirst
  <2>3. \A r \in Sockets \ {s} : Still(r)
    BY <1>5, <2>1 DEF Still
  <2> QED
    BY <1>5, <2>2, <2>3
<1>6. ASSUME NEW s \in Sockets, NEW p \in Packets, LogonAccepted(s, p)
      PROVE  /\ closing \subseteq closing'
             /\ \A r \in Sockets : Still(r) \/ TakesFirst(r)
  <2>1. /\ socketToCompId'[s] = p.sender
        /\ \A r \in Sockets \ {s} : socketToCompId'[r] = socketToCompId[r]
    BY <1>6 DEF LogonAccepted, TypeOK
  <2> QED
    BY <1>5, <1>6, <2>1 DEF LogonAccepted, socketVars, wireVars
<1>7. ASSUME NEW s \in Sockets, NEW p \in Packets, LogonRefused(s, p)
      PROVE  /\ closing \subseteq closing'
             /\ \A r \in Sockets : Still(r) \/ TakesFirst(r)
  BY <1>5, <1>7 DEF LogonRefused, sessionVars, wireVars
<1>8. ASSUME NEW s \in Sockets, NEW p \in Packets, Ignored(s, p)
      PROVE  /\ closing \subseteq closing'
             /\ \A r \in Sockets : Still(r) \/ TakesFirst(r)
  BY <1>5, <1>8 DEF Ignored, socketVars, sessionVars, wireVars
<1>9. ASSUME NEW s \in Sockets, NEW p \in Packets,
             Rejected(s, p) \/ Relayed(s, p) \/ Stored(s, p)
      PROVE  /\ closing \subseteq closing'
             /\ \A r \in Sockets : Still(r) \/ TakesFirst(r)
  BY <1>5, <1>9
  DEF Rejected, Relayed, Stored, Routable, socketVars, sessionVars, wireVars
<1> QED
  BY <1>2, <1>3, <1>4, <1>6, <1>7, <1>8, <1>9 DEF ServerStep, Iteration

-----------------------------------------------------------------------------
(* Clients and their sessions                                               *)

(* The socket s serves a client with CompID c whose own state is st.  Until *)
(* the client is connected the hub has nothing of it; from then on either   *)
(* its logon is still the first thing to be read, or it has been: the       *)
(* socket is a session or was refused.                                      *)
Serves(s, c, st) ==
  /\ \A i \in DOMAIN Pending(s) : Pending(s)[i].sender = c
  /\ socketToCompId[s] \in {NoComp, c}
  /\ st = "connecting" => Pending(s) = <<>> /\ socketToCompId[s] = NoComp
  /\ st = "connected" =>
       \/ socketToCompId[s] = c
       \/ s \in closing
       \/ Pending(s) # <<>> /\ Head(Pending(s)).type = Logon

(* Both properties say nothing of a socket without a client; that it starts *)
(* afresh when its address is used again has to be known too.               *)
PeerInv ==
  /\ \A s \in Sockets \ clients : Pending(s) = <<>>
  /\ \A k \in Clients : conn[k] # NoSocket =>
       Serves(conn[k], Config[k].compId, state[k])

LEMMA ServesStill ==
  ASSUME NEW s \in Sockets, NEW c, NEW st, Serves(s, c, st),
         Still(s), s \in closing => s \in closing'
  PROVE  Serves(s, c, st)'
BY DEF Serves, Still

LEMMA ServesTakes ==
  ASSUME TypeOK, NEW s \in Sockets, NEW c, NEW st, Serves(s, c, st),
         TakesFirst(s), s \in closing => s \in closing'
  PROVE  Serves(s, c, st)'
<1> DEFINE q == Pending(s)
<1>1. /\ q \in Seq(Packet) /\ q # <<>>
      /\ Pending(s)' = Tail(q)
      /\ \A i \in DOMAIN q : q[i].sender = c
      /\ st # "connecting"
  BY PendingType DEF Serves, TakesFirst
<1>2. Head(q).sender = c
  <2>1. 1 \in DOMAIN q /\ Head(q) = q[1]
    BY <1>1
  <2> QED
    BY <1>1, <2>1
<1>3. \A i \in DOMAIN Tail(q) : Tail(q)[i].sender = c
  <2>1. /\ Tail(q) \in Seq(Packet) /\ Len(Tail(q)) = Len(q) - 1
        /\ Len(q) \in Nat
        /\ \A i \in 1 .. Len(q) - 1 : Tail(q)[i] = q[i + 1]
    BY <1>1, HeadTailProperties
  <2>2. ASSUME NEW i \in 1 .. Len(q) - 1 PROVE q[i + 1].sender = c
    <3>1. i + 1 \in DOMAIN q
      BY <1>1, <2>1
    <3> QED
      BY <1>1, <3>1
  <2>3. DOMAIN Tail(q) = 1 .. Len(q) - 1
    BY <2>1
  <2> QED
    BY <2>1, <2>2, <2>3
<1>4. socketToCompId'[s] \in {NoComp, c}
  BY <1>2 DEF TakesFirst, Serves
<1>5. st = "connected" => socketToCompId'[s] = c \/ s \in closing'
  <2>1. SUFFICES ASSUME st = "connected"
                 PROVE  socketToCompId'[s] = c \/ s \in closing'
    OBVIOUS
  <2>2. \/ socketToCompId[s] = c \/ s \in closing \/ Head(q).type = Logon
    BY <2>1 DEF Serves
  <2>3. socketToCompId[s] \in {NoComp, c}
    BY DEF Serves
  <2> QED
    BY <1>2, <2>2, <2>3 DEF TakesFirst
<1> QED
  BY <1>1, <1>3, <1>4, <1>5 DEF Serves

(* A client's packet goes to the end of what the hub has of it.             *)
LEMMA ServesSent ==
  ASSUME TypeOK, NEW s \in Sockets, NEW p \in Packets, PeerSends(s, p),
         NEW c, p.sender = c, Serves(s, c, "connected") \/
           (Serves(s, c, "connecting") /\ p.type = Logon)
  PROVE  Serves(s, c, "connected")'
<1> DEFINE q == Pending(s)
<1>1. /\ buffers[s] \in Seq(Packet) /\ inbound[s] \in Seq(Packet)
      /\ q \in Seq(Packet) /\ p \in Packet
  BY PendingType, SortsOfValues
<1>2. /\ buffers'[s] = buffers[s]
      /\ inbound'[s] = Append(inbound[s], p)
      /\ UNCHANGED <<socketToCompId, closing>>
  BY DEF PeerSends, TypeOK, sessionVars, socketVars
<1>3. Pending(s)' = Append(q, p)
  BY <1>1, <1>2, JoinsAppend DEF Pending
<1>4. \A i \in DOMAIN q : q[i].sender = c
  BY DEF Serves
<1> HIDE DEF q
<1>5. /\ \A i \in DOMAIN Append(q, p) : Append(q, p)[i].sender = c
      /\ Append(q, p) # <<>>
      /\ Head(Append(q, p)) = IF q = <<>> THEN p ELSE Head(q)
  BY <1>1, <1>4
<1> QED
  BY <1>2, <1>3, <1>5 DEF Serves, q

LEMMA OtherPendings ==
  ASSUME TypeOK, NEW s \in Sockets, NEW p \in Packets, PeerSends(s, p)
  PROVE  /\ \A r \in Sockets \ {s} : Still(r)
         /\ UNCHANGED <<clients, closing>>
BY DEF PeerSends, TypeOK, Still, Pending, sessionVars, socketVars

LEMMA PeerStep ==
  ASSUME TypeOK, SessionInv, HubTypeOK, LinkInv, PeerInv, [HubNext]_hubVars
  PROVE  PeerInv'
<1> USE SortsOfValues
<1>1. CASE ServerStep
  <2>1. UNCHANGED <<clients, conn, state>>
    BY <1>1
    DEF ServerStep, Start, Tick, ReadyRead, PeerReceives, Iteration, LoopEnds,
      LogonAccepted, LogonRefused, Ignored, Rejected, Relayed, Stored,
      socketVars, clientVars
  <2>2. /\ closing \subseteq closing'
        /\ \A r \in Sockets : Still(r) \/ TakesFirst(r)
    BY <1>1, ServerMoves
  <2>3. \A s \in Sockets \ clients : Pending(s)' = <<>>
    BY <2>2 DEF PeerInv, Still, TakesFirst
  <2>4. ASSUME NEW k \in Clients, conn[k] # NoSocket
        PROVE  Serves(conn[k], Config[k].compId, state[k])'
    <3>1. PICK s \in Sockets : s = conn[k]
      BY <2>4 DEF HubTypeOK
    <3>2. PICK st : st = state[k]
      OBVIOUS
    <3>3. Serves(s, Config[k].compId, st)
      BY <2>4, <3>1, <3>2 DEF PeerInv
    <3>4. Serves(s, Config[k].compId, st)'
      BY <2>2, <3>3, ServesStill, ServesTakes
    <3> QED
      BY <2>1, <3>1, <3>2, <3>4
  <2> QED
    BY <2>1, <2>3, <2>4 DEF PeerInv
<1>2. CASE HubCrash
  <2>1. \A s \in Sockets : Pending(s)' = <<>>
    BY <1>2 DEF HubCrash, Crash, CrashInReplay, Dies, Pending, NoPackets
  <2>2. \A k \in Clients : conn'[k] = NoSocket
    BY <1>2 DEF HubCrash
  <2> QED
    BY <2>1, <2>2 DEF PeerInv
<1>3. ASSUME NEW k \in Clients, NEW s \in Sockets, Accept(k, s)
      PROVE  PeerInv'
  <2>1. /\ state[k] = "connecting" /\ s \notin clients
        /\ clients' = clients \cup {s}
        /\ conn' = [conn EXCEPT ![k] = s]
        /\ buffers' = [buffers EXCEPT ![s] = <<>>]
        /\ UNCHANGED <<state, inbound, socketToCompId, closing>>
    BY <1>3
    DEF Accept, NewConnection, clientVars, sessionVars, wireVars
  <2>2. Pending(s) = <<>> /\ socketToCompId[s] = NoComp
    BY <2>1 DEF PeerInv, SessionInv
  <2>3. buffers[s] = <<>> /\ inbound[s] = <<>>
    <3>1. buffers[s] \in Seq(Packet) /\ inbound[s] \in Seq(Packet)
      BY PendingType
    <3> QED
      BY <2>2, <3>1, EmptyJoin DEF Pending
  <2>4. buffers' = buffers
    BY <2>1, <2>3 DEF TypeOK
  <2>5. \A r \in Sockets : Still(r)
    BY <2>1, <2>4 DEF Still, Pending
  <2>6. \A r \in Sockets \ clients' : Pending(r)' = <<>>
    BY <2>1, <2>5 DEF Still, PeerInv
  <2>7. ASSUME NEW j \in Clients, conn'[j] # NoSocket
        PROVE  Serves(conn[j], Config[j].compId, state[j])'
    <3>1. CASE j = k
      <4>1. conn'[j] = s /\ state'[j] = "connecting"
        BY <2>1, <3>1 DEF HubTypeOK
      <4>2. Pending(s)' = <<>> /\ socketToCompId'[s] = NoComp
        BY <2>2, <2>5 DEF Still
      <4>3. Serves(s, Config[j].compId, "connecting")'
        BY <4>2 DEF Serves
      <4> QED
        BY <4>1, <4>3
    <3>2. CASE j # k
      <4>1. conn'[j] = conn[j]
        BY <2>1, <3>2 DEF HubTypeOK
      <4>2. PICK r \in Sockets : r = conn[j]
        BY <2>7, <4>1 DEF HubTypeOK
      <4>3. PICK st : st = state[j]
        OBVIOUS
      <4>4. Serves(r, Config[j].compId, st)
        BY <2>7, <4>1, <4>2, <4>3 DEF PeerInv
      <4>5. Serves(r, Config[j].compId, st)'
        BY <2>1, <2>5, <4>4, ServesStill
      <4> QED
        BY <2>1, <4>1, <4>2, <4>3, <4>5
    <3> QED
      BY <3>1, <3>2
  <2> QED
    BY <2>6, <2>7 DEF PeerInv
<1>4. ASSUME NEW k \in Clients, NEW p \in Packets, conn[k] \in Sockets,
             PeerSends(conn[k], p), p.sender = Config[k].compId,
             conn' = conn, state'[k] = "connected",
             \A j \in Clients \ {k} : state'[j] = state[j],
             \/ state[k] = "connected"
             \/ state[k] = "connecting" /\ p.type = Logon
      PROVE  PeerInv'
  <2>1. PICK s \in Sockets : s = conn[k]
    BY <1>4
  <2>2. /\ \A r \in Sockets \ {s} : Still(r)
        /\ UNCHANGED <<clients, closing>>
        /\ s \in clients
    BY <1>4, <2>1, OtherPendings DEF PeerSends
  <2>3. \A r \in Sockets \ clients' : Pending(r)' = <<>>
    BY <2>2 DEF PeerInv, Still
  <2>4. Serves(s, Config[k].compId, "connected")'
    <3>1. Serves(s, Config[k].compId, state[k]) /\ s # NoSocket
      BY <2>1 DEF PeerInv
    <3>2. \/ Serves(s, Config[k].compId, "connected")
          \/ Serves(s, Config[k].compId, "connecting") /\ p.type = Logon
      BY <1>4, <3>1
    <3> QED
      BY <1>4, <2>1, <3>2, ServesSent
  <2>5. ASSUME NEW j \in Clients \ {k}, conn[j] # NoSocket
        PROVE  Serves(conn[j], Config[j].compId, state[j])'
    <3>1. PICK r \in Sockets : r = conn[j]
      BY <2>5 DEF HubTypeOK
    <3>2. PICK st : st = state[j]
      OBVIOUS
    <3>3. r # s
      BY <2>1, <2>5, <3>1 DEF LinkInv
    <3>4. Serves(r, Config[j].compId, st)
      BY <2>5, <3>1, <3>2 DEF PeerInv
    <3>5. Serves(r, Config[j].compId, st)'
      BY <2>2, <3>3, <3>4, ServesStill
    <3> QED
      BY <1>4, <3>1, <3>2, <3>5
  <2>6. Serves(conn[k], Config[k].compId, state[k])'
    BY <1>4, <2>1, <2>4
  <2> QED
    BY <1>4, <2>3, <2>5, <2>6 DEF PeerInv
<1>5. ASSUME NEW k \in Clients, Connected(k) PROVE PeerInv'
  <2>1. /\ conn[k] \in Sockets /\ state[k] = "connecting"
        /\ PeerSends(conn[k], Client!LogonOf(k))
        /\ state' = [state EXCEPT ![k] = "connected"]
        /\ conn' = conn
    BY <1>5 DEF Connected, Client!OnConnected, HubTypeOK
  <2>2. Client!LogonOf(k) \in Packets
    BY <2>1, ClientFacts DEF LinkInv
  <2> QED
    BY <1>4, <2>1, <2>2, ClientFacts DEF HubTypeOK
<1>6. ASSUME NEW k \in Clients, UNCHANGED <<vars, conn>>,
             conn[k] = NoSocket,
             \A j \in Clients \ {k} : state'[j] = state[j]
      PROVE  PeerInv'
  <2>1. /\ \A r \in Sockets : Still(r)
        /\ UNCHANGED <<clients, closing, conn>>
    BY <1>6 DEF vars, Still, Pending, socketVars, sessionVars, wireVars
  <2>2. \A r \in Sockets \ clients' : Pending(r)' = <<>>
    BY <2>1 DEF Still, PeerInv
  <2>3. ASSUME NEW j \in Clients, conn[j] # NoSocket
        PROVE  Serves(conn[j], Config[j].compId, state[j])'
    <3>1. PICK r \in Sockets : r = conn[j]
      BY <2>3 DEF HubTypeOK
    <3>2. PICK st : st = state[j]
      OBVIOUS
    <3>3. Serves(r, Config[j].compId, st)
      BY <2>3, <3>1, <3>2 DEF PeerInv
    <3>4. Serves(r, Config[j].compId, st)'
      BY <2>1, <3>3, ServesStill
    <3>5. state'[j] = st
      BY <1>6, <2>3, <3>2
    <3> QED
      BY <2>1, <3>1, <3>4, <3>5
  <2> QED
    BY <2>1, <2>2, <2>3 DEF PeerInv
<1>7. ASSUME UNCHANGED <<vars, conn, state>> PROVE PeerInv'
  <2>1. /\ \A r \in Sockets : Pending(r)' = Pending(r)
        /\ UNCHANGED <<clients, closing, conn, state, socketToCompId>>
    BY <1>7 DEF vars, Pending, socketVars, sessionVars, wireVars
  <2>2. \A r \in Sockets \ clients' : Pending(r)' = <<>>
    BY <2>1 DEF PeerInv
  <2>3. ASSUME NEW j \in Clients, conn[j] # NoSocket
        PROVE  Serves(conn[j], Config[j].compId, state[j])'
    <3>1. PICK r \in Sockets : r = conn[j]
      BY <2>3 DEF HubTypeOK
    <3>2. PICK st : st = state[j]
      OBVIOUS
    <3>3. Serves(r, Config[j].compId, st)
      BY <2>3, <3>1, <3>2 DEF PeerInv
    <3>4. Serves(r, Config[j].compId, st)'
      BY <2>1, <3>3, ServesStill DEF Still
    <3> QED
      BY <2>1, <3>1, <3>2, <3>4
  <2> QED
    BY <2>1, <2>2, <2>3 DEF PeerInv
<1>8. ASSUME NEW k \in Clients, TimerFires(k) PROVE PeerInv'
  <2>1. Client!SendTestMessage(k) /\ UNCHANGED <<state, conn>>
    BY <1>8 DEF TimerFires, Client!SendTestMessage
  <2>2. CASE outgoing' = outgoing
    BY <1>7, <1>8, <2>1, <2>2 DEF TimerFires
  <2>3. CASE outgoing' # outgoing
    <3>1. /\ state[k] = "connected" /\ timer[k] = "armed"
          /\ Config[k].target # NoComp
      BY <2>1, <2>3, OnlyConnectedSend
    <3>2. PeerSends(conn[k], Client!OrderOf(k))
      BY <1>8, <2>3 DEF TimerFires
    <3>3. conn[k] \in Sockets /\ Client!OrderOf(k) \in Packets
      BY <3>1, ClientFacts DEF LinkInv, HubTypeOK
    <3> QED
      BY <1>4, <2>1, <3>1, <3>2, <3>3, ClientFacts
  <2> QED
    BY <2>2, <2>3
<1>9. ASSUME NEW k \in Clients, LaunchClient(k) PROVE PeerInv'
  <2>1. /\ state[k] = "down" /\ UNCHANGED <<vars, conn>>
        /\ \A j \in Clients \ {k} : state'[j] = state[j]
    BY <1>9 DEF LaunchClient, Client!Launch, HubTypeOK
  <2>2. conn[k] = NoSocket
    BY <2>1 DEF LinkInv
  <2> QED
    BY <1>6, <2>1, <2>2
<1>10. ASSUME NEW k \in Clients, Refused(k) PROVE PeerInv'
  <2>1. /\ conn[k] = NoSocket /\ UNCHANGED <<vars, conn>>
        /\ \A j \in Clients \ {k} : state'[j] = state[j]
    BY <1>10 DEF Refused, Client!ConnectionFails, HubTypeOK
  <2> QED
    BY <1>6, <2>1
<1>11. ASSUME NEW k \in Clients, Disconnect(k) PROVE PeerInv'
  <2>1. PICK s \in Sockets : s = conn[k]
    BY <1>11 DEF Disconnect, HubTypeOK
  <2>2. /\ ClientDisconnected(s)
        /\ conn' = [conn EXCEPT ![k] = NoSocket]
        /\ state' = [state EXCEPT ![k] = "unconnected"]
    BY <1>11, <2>1 DEF Disconnect, Client!OnDisconnected
  <2>3. /\ clients' = clients \ {s} /\ closing' = closing \ {s}
        /\ buffers' = [buffers EXCEPT ![s] = <<>>]
        /\ inbound' = [inbound EXCEPT ![s] = <<>>]
        /\ \A r \in Sockets \ {s} : socketToCompId'[r] = socketToCompId[r]
    BY <2>2 DEF ClientDisconnected, TypeOK, sessionVars
  <2>4. \A r \in Sockets \ {s} : Still(r)
    BY <2>3 DEF Still, Pending, TypeOK
  <2>5. Pending(s)' = <<>>
    BY <2>3 DEF Pending, TypeOK
  <2>6. \A r \in Sockets \ clients' : Pending(r)' = <<>>
    BY <2>3, <2>4, <2>5 DEF PeerInv, Still
  <2>7. ASSUME NEW j \in Clients, conn'[j] # NoSocket
        PROVE  Serves(conn[j], Config[j].compId, state[j])'
    <3>1. j # k /\ conn'[j] = conn[j] /\ state'[j] = state[j]
      BY <2>2, <2>7 DEF HubTypeOK
    <3>2. PICK r \in Sockets : r = conn[j]
      BY <2>7, <3>1 DEF HubTypeOK
    <3>3. PICK st : st = state[j]
      OBVIOUS
    <3>4. r # s
      BY <2>1, <2>7, <3>1, <3>2 DEF LinkInv
    <3>5. Serves(r, Config[j].compId, st)
      BY <2>7, <3>1, <3>2, <3>3 DEF PeerInv
    <3>6. Serves(r, Config[j].compId, st)'
      BY <2>3, <2>4, <3>4, <3>5, ServesStill
    <3> QED
      BY <3>1, <3>2, <3>3, <3>6
  <2> QED
    BY <2>6, <2>7 DEF PeerInv
<1>12. CASE UNCHANGED hubVars
  BY <1>7, <1>12 DEF hubVars, clientVars
<1> QED
  BY <1>1, <1>2, <1>3, <1>5, <1>8, <1>9, <1>10, <1>11, <1>12 DEF HubNext

LEMMA PeerInit ==
  ASSUME HubInit PROVE PeerInv
<1>1. \A s \in Sockets : Pending(s) = <<>>
  BY DEF HubInit, Init, Pending, NoPackets
<1> QED
  BY <1>1 DEF HubInit, PeerInv

LEMMA PeersSound == HubSpec => [](TypeOK /\ HubTypeOK /\ LinkInv /\ PeerInv)
<1>1. HubInit => PeerInv
  BY PeerInit
<1>2. /\ TypeOK /\ SessionInv /\ HubTypeOK /\ LinkInv /\ PeerInv
      /\ [HubNext]_hubVars
      => PeerInv'
  BY PeerStep
<1> QED
  BY <1>1, <1>2, LinksSound, SystemIsAHub, SessionsSound, PTL DEF HubSpec

(* For any number of clients and sockets: what serves a client is a session *)
(* of that client's company or no session, however addresses are used again *)
(* after disconnects and crashes, and no socket serves two clients          *)
(* (FixServer.cpp:95, :108, :162).                                          *)
THEOREM SessionsAreClients == HubSpec => []SessionIsClient
<1>1. LinkInv /\ PeerInv => SessionIsClient
  BY DEF LinkInv, PeerInv, Serves, SessionIsClient
<1> QED
  BY <1>1, PeersSound, PTL

(* An order never overtakes its client's logon, whenever the two-second     *)
(* timer fires and however the hub's reads cut what was sent                *)
(* (FixClient.cpp:90, :105).                                                *)
THEOREM LogonsComeFirst == HubSpec => []LogonComesFirst
<1>1. ASSUME HubTypeOK, LinkInv, PeerInv, NEW k \in Clients,
             conn[k] # NoSocket, Pending(conn[k]) # <<>>,
             Head(Pending(conn[k])).type # Logon
      PROVE  \/ socketToCompId[conn[k]] = Config[k].compId
             \/ conn[k] \in closing
  <2>1. Serves(conn[k], Config[k].compId, state[k])
    BY <1>1 DEF PeerInv
  <2>2. state[k] \in {"connecting", "connected"}
    BY <1>1 DEF LinkInv
  <2> QED
    BY <1>1, <2>1, <2>2 DEF Serves
<1>2. HubTypeOK /\ LinkInv /\ PeerInv => LogonComesFirst
  BY <1>1 DEF LogonComesFirst
<1> QED
  BY <1>2, PeersSound, PTL
=============================================================================
