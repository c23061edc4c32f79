---------------------------------- MODULE Hub ----------------------------------
(***************************************************************************)
(* The whole system: the hub (FixServer) with client programs (FixClient)  *)
(* as its only peers, as docker-compose.yml starts them.  A client's       *)
(* connection is one of the hub's sockets; what a client writes is what    *)
(* arrives there, and either side's end of a connection is the other's.    *)
(***************************************************************************)
EXTENDS FixServer

CONSTANTS
  Clients, NewOrder, Config

VARIABLES
  state, timer, outgoing,   (* of FixClient                                 *)
  conn                      (* the hub's socket for a client's connection   *)

Client == INSTANCE FixClient

(* What the clients send are packets that the hub's peers may send.         *)
ClientsSendPackets ==
  \A k \in Clients : Client!LoadConfig(k) =>
    /\ Client!LogonOf(k) \in Packets
    /\ Config[k].target # NoComp => Client!OrderOf(k) \in Packets

ASSUME HubAssumption == Client!ConfigsAreRead /\ ClientsSendPackets

clientVars == <<state, timer, outgoing>>
hubVars == <<vars, clientVars, conn>>

HubInit ==
  /\ Init
  /\ Client!ClientInit
  /\ conn = [k \in Clients |-> NoSocket]

(* The hub's side alone moves.                                              *)
ServerStep ==
  /\ \/ Start \/ Tick
     \/ \E s \in Sockets : ReadyRead(s) \/ Iteration(s) \/ PeerReceives(s)
  /\ UNCHANGED <<clientVars, conn>>

(* The hub accepts a client that is connecting.                             *)
Accept(k, s) ==
  /\ state[k] = "connecting" /\ conn[k] = NoSocket
  /\ NewConnection(s)
  /\ conn' = [conn EXCEPT ![k] = s]
  /\ UNCHANGED clientVars

(* QTcpSocket is connected: the client logs on at once.                     *)
Connected(k) ==
  /\ conn[k] # NoSocket
  /\ Client!OnConnected(k)
  /\ PeerSends(conn[k], Client!LogonOf(k))
  /\ UNCHANGED conn

(* The timer: what the client writes goes out on its connection.            *)
TimerFires(k) ==
  /\ Client!SendTestMessage(k)
  /\ IF outgoing' # outgoing
       THEN PeerSends(conn[k], Client!OrderOf(k))
       ELSE UNCHANGED vars
  /\ UNCHANGED conn

(* A connection that never came about: the hub does not listen, or the      *)
(* network fails.                                                           *)
Refused(k) ==
  /\ conn[k] = NoSocket
  /\ Client!ConnectionFails(k)
  /\ UNCHANGED <<vars, conn>>

(* The connection ends, by either side or by the network.                   *)
Disconnect(k) ==
  /\ conn[k] # NoSocket /\ state[k] = "connected"
  /\ ClientDisconnected(conn[k])
  /\ Client!OnDisconnected(k)
  /\ conn' = [conn EXCEPT ![k] = NoSocket]

LaunchClient(k) ==
  /\ Client!Launch(k)
  /\ UNCHANGED <<vars, conn>>

(* The hub dies, between two iterations or within one, and with it every    *)
(* connection.                                                              *)
HubCrash ==
  /\ Crash \/ \E s \in Sockets, c \in AllowedCompIds : CrashInReplay(s, c)
  /\ conn' = [k \in Clients |-> NoSocket]
  /\ state' = [k \in Clients |-> IF conn[k] # NoSocket THEN "unconnected"
                                 ELSE state[k]]
  /\ outgoing' = [k \in Clients |-> IF conn[k] # NoSocket THEN <<>>
                                    ELSE outgoing[k]]
  /\ UNCHANGED timer

HubNext ==
  \/ ServerStep \/ HubCrash
  \/ \E k \in Clients :
       \/ LaunchClient(k) \/ Connected(k) \/ TimerFires(k) \/ Refused(k)
       \/ Disconnect(k)
       \/ \E s \in Sockets : Accept(k, s)

HubSpec == HubInit /\ [][HubNext]_hubVars

(* The hub's event loop as in FairSpec, for new connections too; Qt reports *)
(* a connection that was made and a timer that is due; TCP delivers while   *)
(* the connection lives.  Nobody owes a launch, a start or a failure.       *)
HubFairSpec ==
  /\ HubSpec
  /\ \A s \in Sockets :
       /\ WF_hubVars(Iteration(s) /\ UNCHANGED <<clientVars, conn>>)
       /\ SF_hubVars(ReadsPacket(s) /\ UNCHANGED <<clientVars, conn>>)
       /\ WF_hubVars(PeerReceives(s) /\ UNCHANGED <<clientVars, conn>>)
  /\ \A k \in Clients :
       /\ WF_hubVars(Connected(k))
       /\ WF_hubVars(TimerFires(k))
       /\ SF_hubVars(\E s \in Sockets : Accept(k, s))

-----------------------------------------------------------------------------
(* Properties                                                               *)

(* What the hub has of a client's connection, read or not.                  *)
Pending(s) == buffers[s] \o inbound[s]

(* An order never reaches the hub ahead of the logon of its connection,     *)
(* whenever the timer fires: when the order is the next packet to be taken, *)
(* its sender is a session or was refused (FixClient.cpp:105, :90).         *)
LogonComesFirst ==
  \A k \in Clients :
    conn[k] # NoSocket /\ Pending(conn[k]) # <<>>
      /\ Head(Pending(conn[k])).type # Logon
      => \/ socketToCompId[conn[k]] = Config[k].compId
         \/ conn[k] \in closing

(* A session is the client that connected: a socket that is used again      *)
(* serves one client, and nobody is routed as another.                      *)
SessionIsClient ==
  \A k \in Clients : conn[k] # NoSocket =>
    /\ socketToCompId[conn[k]] \in {NoComp, Config[k].compId}
    /\ \A j \in Clients \ {k} : conn[j] # conn[k]

(* The clients whose orders the hub routes to client j.                     *)
AddressedTo(j) ==
  {k \in Clients : /\ Config[k].target = Config[j].compId
                   /\ Config[k].compId \in AllowedCompIds \cap RuledCompIds}

(* An order that client k has written reaches client j, which is connected, *)
(* whether the hub saw j's logon before, after or between: unless one of    *)
(* the two connections ends first (README.md:65).                           *)
OrderArrives ==
  \A j \in {i \in Clients : Config[i].compId \in AllowedCompIds} :
  \A k \in AddressedTo(j) :
    Client!OrderOf(k) \in {outgoing[k][i] : i \in DOMAIN outgoing[k]}
      /\ state[j] = "connected"
      ~> delivered # {} \/ state[j] # "connected" \/ state[k] # "connected"
=============================================================================
