------------------------------ MODULE FixServer ------------------------------
(***************************************************************************)
(* The FIX hub: server/src/FixServer.cpp, with the calls it makes into     *)
(* common/MessageStore.cpp and common/ConfigManager.cpp.                   *)
(*                                                                         *)
(* The program is one thread, the Qt event loop, so a slot runs to its end *)
(* before another starts.  A slot is split here only where it loops:       *)
(* onReadyRead appends what has arrived (ReadyRead) and then takes one     *)
(* packet per iteration of its while loop, one action per path through the *)
(* loop body.  While `reader' is a socket, that socket's slot is running   *)
(* and no other slot can start; a crash may come between two iterations    *)
(* and, where it leaves other files than those, within one (CrashInReplay).*)
(*                                                                         *)
(* Abstracted: bytes (a packet is one element of a queue), every FIX field *)
(* but 35, 49 and 128, and the wording of logs and rejects.  A CompID has  *)
(* a directory of its own.  That a file cannot be read or removed, or is   *)
(* written in part, is in the module MessageStore.                         *)
(***************************************************************************)
EXTENDS Integers, Sequences, FiniteSets

CONSTANTS
  Sockets,            (* addresses of QTcpSocket objects; one freed by      *)
                      (* deleteLater may be handed out again                *)
  NoSocket,           (* "the key is not in the map"                        *)
  CompIds,            (* the CompIDs that appear in tags 49 and 128         *)
  NoComp,             (* the tag is missing: GetTagValue returned ""        *)
  NoFile,             (* no file of that name in a directory                *)
  Logon,              (* the MsgType "A"                                    *)
  AppTypes,           (* the other MsgTypes                                 *)
  AllowedCompIds,     (* "allowed_comp_ids" of the configuration            *)
  SupportedMsgTypes,  (* "supported_msg_types" of the configuration         *)
  RuledCompIds,       (* the "source_comp_id"s of "routing_rules"           *)
  Packets,            (* the packets a peer may send                        *)
  InitOutcomes,       (* what MessageStore::init may leave in initialized_  *)
  StoringMayFail,     (* a directory may not be made, a file not be opened  *)
  ClockMaySlip,       (* the system clock may be set back                   *)
  MaxClock, MaxWire, MaxSends  (* bounds: clock readings, packets queued    *)
                      (* per socket, application packets sent in all        *)

Targets == CompIds \cup {NoComp}
Packet  == [type : {Logon} \cup AppTypes, sender : Targets, deliverTo : Targets]
Times   == 0 .. MaxClock

(* What write() is given: n is the routing ticket of a forwarded message   *)
(* (0 for a reject), to its addressee, and tagged says whether the routing *)
(* rule's tags were added and tags 9 and 10 computed.                      *)
Message == [n : Nat, to : Targets, tagged : BOOLEAN]

ASSUME ServerAssumption ==
  /\ NoSocket \notin Sockets
  /\ NoComp \notin CompIds
  /\ NoFile \notin Message
  /\ Logon \notin AppTypes
  /\ AllowedCompIds \subseteq CompIds    (* no "" in the configuration      *)
  /\ RuledCompIds \subseteq CompIds
  /\ Packets \subseteq Packet
  /\ InitOutcomes \subseteq BOOLEAN
  /\ StoringMayFail \in BOOLEAN
  /\ ClockMaySlip \in BOOLEAN
  /\ MaxClock \in Nat

VARIABLES
  running,          (* the process is up and listening                      *)
  clients,          (* clients_, and with them the keys of buffers_         *)
  closing,          (* sockets on which disconnectFromHost was called       *)
  buffers,          (* buffers_: packets read and not yet processed         *)
  compIdToSocket,   (* compIdToSocketMap_                                   *)
  socketToCompId,   (* socketToCompIdMap_                                   *)
  reader,           (* the socket whose onReadyRead is in its while loop    *)
  storeReady,       (* MessageStore::initialized_                           *)
  store,            (* offline_storage/<CompID>/<milliseconds>.fix          *)
  clock,            (* system_clock, in milliseconds                        *)
  inbound,          (* bytes from the peer that readAll has not returned    *)
  outbound,         (* bytes written to the peer that it has not received   *)
  routed,           (* tickets given out so far                             *)
  delivered,        (* tickets of the messages peers have received          *)
  sent              (* application packets sent so far                      *)

sessionVars == <<compIdToSocket, socketToCompId>>
socketVars  == <<clients, closing>>
fileVars    == <<storeReady, store, clock>>
wireVars    == <<inbound, sent, delivered>>
vars == <<running, socketVars, buffers, sessionVars, reader, fileVars,
          wireVars, outbound, routed>>

NoPackets == [s \in Sockets |-> <<>>]
NoRoutes  == [c \in CompIds |-> NoSocket]
NoLogons  == [s \in Sockets |-> NoComp]
EmptyDir  == [t \in Times |-> NoFile]

Init ==
  /\ running = FALSE
  /\ clients = {} /\ closing = {}
  /\ buffers = NoPackets
  /\ compIdToSocket = NoRoutes /\ socketToCompId = NoLogons
  /\ reader = NoSocket
  /\ storeReady = FALSE
  /\ store = [c \in Targets |-> EmptyDir]
  /\ clock = 0
  /\ inbound = NoPackets /\ outbound = NoPackets
  /\ routed = 0 /\ delivered = {} /\ sent = 0

-----------------------------------------------------------------------------
(* ConfigManager queries and MessageStore operations                        *)

(* No configured type means every type.                                     *)
isMsgTypeSupported(type) ==
  SupportedMsgTypes = {} \/ type \in SupportedMsgTypes

isCompIdAllowed(c) == c \in AllowedCompIds

FileNames(dir) == {t \in Times : dir[t] # NoFile}

(* Faulty variant: the newest name first.                                   *)
SortedNames_Descending(names) ==
  [i \in 1 .. Cardinality(names) |->
     CHOOSE t \in names : Cardinality({u \in names : u > t}) = i - 1]

(* The names in ascending order: name i has i-1 names below it.  Names are  *)
(* compared as strings in the code, which is the order of the numbers as    *)
(* long as they have as many digits (13, until the year 2286).              *)
SortedNames(names) ==
  [i \in 1 .. Cardinality(names) |->
     CHOOSE t \in names : Cardinality({u \in names : u < t}) = i - 1]

(* Faulty variant: only the oldest message is read.                         *)
QueuedMessages_First(c) ==
  IF ~storeReady \/ store[c] = EmptyDir THEN <<>>
  ELSE <<store[c][SortedNames(FileNames(store[c]))[1]]>>

(* Faulty variant: what was read is not written.                            *)
QueuedMessages_None(c) == <<>>

QueuedMessages(c) ==
  IF ~storeReady THEN <<>>
  ELSE LET names == SortedNames(FileNames(store[c]))
       IN  [i \in DOMAIN names |-> store[c][names[i]]]

(* Faulty variants: the files stay; the files of every target go.           *)
getAndClearQueuedMessages_Keeps(c) == store' = store
getAndClearQueuedMessages_ClearsAll(c) ==
  store' = IF storeReady THEN [d \in Targets |-> EmptyDir] ELSE store

getAndClearQueuedMessages(c) ==
  store' = IF storeReady THEN [store EXCEPT ![c] = EmptyDir] ELSE store

(* The file is named by the millisecond: a second message for the target in *)
(* the same millisecond opens the same file, truncated.  Whether the message*)
(* was stored is returned, and the caller does not look.                    *)
storeMessage(c, m) ==
  \/ storeReady /\ store' = [store EXCEPT ![c][clock] = m]
  \/ (~storeReady \/ StoringMayFail) /\ store' = store

write(s, msgs) == outbound' = [outbound EXCEPT ![s] = @ \o msgs]

Reject(p) == [n |-> 0, to |-> p.sender, tagged |-> FALSE]

-----------------------------------------------------------------------------
(* The slots                                                                *)

Idle == running /\ reader = NoSocket

(* FixServer::start; a failed start leaves the process down.                *)
Start ==
  /\ ~running
  /\ running' = TRUE
  /\ storeReady' \in InitOutcomes
  /\ UNCHANGED <<socketVars, buffers, sessionVars, reader, store, clock,
                 wireVars, outbound, routed>>

(* FixServer::onNewConnection                                               *)
NewConnection(s) ==
  /\ Idle
  /\ s \notin clients
  /\ clients' = clients \cup {s}
  /\ buffers' = [buffers EXCEPT ![s] = <<>>]
  /\ UNCHANGED <<running, closing, sessionVars, reader, fileVars, wireVars,
                 outbound, routed>>

(* Faulty variants: the route stays; the session and the route stay; the    *)
(* route gets the wrong empty value.                                        *)
ClientDisconnected_Leaves(s, route) ==
  /\ Idle
  /\ s \in clients
  /\ socketToCompId' = [socketToCompId EXCEPT ![s] = NoComp]
  /\ compIdToSocket' = [compIdToSocket EXCEPT ![socketToCompId[s]] = route]
  /\ clients' = clients \ {s}
  /\ closing' = closing \ {s}
  /\ buffers' = [buffers EXCEPT ![s] = <<>>]
  /\ inbound' = [inbound EXCEPT ![s] = <<>>]
  /\ outbound' = [outbound EXCEPT ![s] = <<>>]
  /\ UNCHANGED <<running, reader, fileVars, routed, delivered, sent>>
ClientDisconnected_KeepsRoute(s) ==
  socketToCompId[s] # NoComp
    /\ ClientDisconnected_Leaves(s, compIdToSocket[socketToCompId[s]])
ClientDisconnected_KeepsSession(s) ==
  /\ Idle
  /\ s \in clients
  /\ clients' = clients \ {s}
  /\ closing' = closing \ {s}
  /\ buffers' = [buffers EXCEPT ![s] = <<>>]
  /\ inbound' = [inbound EXCEPT ![s] = <<>>]
  /\ outbound' = [outbound EXCEPT ![s] = <<>>]
  /\ UNCHANGED <<running, sessionVars, reader, fileVars, routed, delivered,
                 sent>>
ClientDisconnected_WrongEmpty(s) == ClientDisconnected_Leaves(s, NoComp)

(* FixServer::onClientDisconnected: the peer closed, the connection broke,  *)
(* or the disconnectFromHost of a refused logon completed.  What was still  *)
(* in flight either way is gone.                                            *)
ClientDisconnected(s) ==
  /\ Idle
  /\ s \in clients
  /\ IF socketToCompId[s] # NoComp
       THEN /\ socketToCompId' = [socketToCompId EXCEPT ![s] = NoComp]
            /\ compIdToSocket' =
                 [compIdToSocket EXCEPT ![socketToCompId[s]] = NoSocket]
       ELSE UNCHANGED sessionVars
  /\ clients' = clients \ {s}
  /\ closing' = closing \ {s}
  /\ buffers' = [buffers EXCEPT ![s] = <<>>]
  /\ inbound' = [inbound EXCEPT ![s] = <<>>]
  /\ outbound' = [outbound EXCEPT ![s] = <<>>]
  /\ UNCHANGED <<running, reader, fileVars, routed, delivered, sent>>

(* FixServer::onReadyRead up to its loop: readAll returns what has arrived, *)
(* which completes k packets of what the peer has sent.  Bytes that complete*)
(* none (k = 0) start the loop too, over whole packets an earlier call left *)
(* in the buffer.  A socket on which disconnectFromHost was called reads no *)
(* more.                                                                    *)
ReadyRead(s) ==
  /\ Idle
  /\ s \in clients \ closing
  /\ inbound[s] # <<>>
  /\ \E k \in 0 .. Len(inbound[s]) :
       /\ buffers' = [buffers EXCEPT ![s] = @ \o SubSeq(inbound[s], 1, k)]
       /\ inbound' = [inbound EXCEPT ![s] = SubSeq(@, k + 1, Len(@))]
  /\ reader' = s
  /\ UNCHANGED <<running, socketVars, sessionVars, fileVars, sent, delivered,
                 outbound, routed>>

(* Faulty variant: the loop spins on what is not a complete packet.         *)
LoopEnds_Spins(s) == reader = s /\ buffers[s] = <<>> /\ UNCHANGED vars

(* The loop's condition is false: no complete packet is left.               *)
LoopEnds(s) ==
  /\ reader = s /\ buffers[s] = <<>>
  /\ reader' = NoSocket
  /\ UNCHANGED <<running, socketVars, buffers, sessionVars, fileVars,
                 wireVars, outbound, routed>>

(* The loop takes packet p off the buffer of the socket being read.         *)
Takes(s, p) ==
  /\ reader = s
  /\ buffers[s] # <<>> /\ p = Head(buffers[s])
  /\ buffers' = [buffers EXCEPT ![s] = Tail(@)]

(* Faulty variant: every packet ends the slot.                              *)
Loops_Returns == reader' = NoSocket

(* `return' inside the loop leaves the rest of the buffer for the next call.*)
Returns == reader' = NoSocket
Loops   == UNCHANGED reader

(* Faulty variant: an authenticated socket may log on again.                *)
LogonAccepted_Again(s, p) ==
  /\ Takes(s, p)
  /\ p.type = Logon
  /\ isCompIdAllowed(p.sender)
  /\ compIdToSocket' = [compIdToSocket EXCEPT ![p.sender] = s]
  /\ socketToCompId' = [socketToCompId EXCEPT ![s] = p.sender]
  /\ write(s, QueuedMessages(p.sender))
  /\ getAndClearQueuedMessages(p.sender)
  /\ Loops
  /\ UNCHANGED <<running, socketVars, storeReady, clock, wireVars, routed>>

LogonAccepted(s, p) ==
  /\ Takes(s, p)
  /\ p.type = Logon
  /\ socketToCompId[s] = NoComp
  /\ isCompIdAllowed(p.sender)
  /\ compIdToSocket' = [compIdToSocket EXCEPT ![p.sender] = s]
  /\ socketToCompId' = [socketToCompId EXCEPT ![s] = p.sender]
  /\ write(s, QueuedMessages(p.sender))
  /\ getAndClearQueuedMessages(p.sender)
  /\ Loops
  /\ UNCHANGED <<running, socketVars, storeReady, clock, wireVars, routed>>

(* Faulty variant: no `return' after disconnectFromHost.                    *)
LogonRefused_GoesOn(s, p) ==
  /\ Takes(s, p)
  /\ p.type = Logon
  /\ socketToCompId[s] = NoComp
  /\ ~isCompIdAllowed(p.sender)
  /\ closing' = closing \cup {s}
  /\ Loops
  /\ UNCHANGED <<running, clients, sessionVars, fileVars, wireVars, outbound,
                 routed>>

(* disconnectFromHost with nothing left to write emits disconnected() at    *)
(* once, otherwise when the write buffer has drained: ClientDisconnected    *)
(* follows, the slot itself returns.                                        *)
LogonRefused(s, p) ==
  /\ Takes(s, p)
  /\ p.type = Logon
  /\ socketToCompId[s] = NoComp
  /\ ~isCompIdAllowed(p.sender)
  /\ closing' = closing \cup {s}
  /\ Returns
  /\ UNCHANGED <<running, clients, sessionVars, fileVars, wireVars, outbound,
                 routed>>

(* A further logon of an authenticated socket, a packet without tag 49, and *)
(* a supported message whose sender has no routing rule change nothing.     *)
Ignored(s, p) ==
  /\ Takes(s, p)
  /\ \/ p.type = Logon /\ socketToCompId[s] # NoComp
     \/ p.type # Logon /\ p.sender = NoComp
     \/ /\ p.type # Logon /\ p.sender # NoComp
        /\ isMsgTypeSupported(p.type)
        /\ p.sender \notin RuledCompIds
  /\ Loops
  /\ UNCHANGED <<running, socketVars, sessionVars, fileVars, wireVars,
                 outbound, routed>>

Rejected(s, p) ==
  /\ Takes(s, p)
  /\ p.type # Logon /\ p.sender # NoComp
  /\ ~isMsgTypeSupported(p.type)
  /\ write(s, <<Reject(p)>>)
  /\ Returns
  /\ UNCHANGED <<running, socketVars, sessionVars, fileVars, wireVars, routed>>

(* A supported message of a sender that has a routing rule.                 *)
Routable(p) ==
  /\ p.type # Logon /\ p.sender # NoComp
  /\ isMsgTypeSupported(p.type)
  /\ p.sender \in RuledCompIds

IsOnline(c) == c \in CompIds /\ compIdToSocket[c] # NoSocket

Relayed(s, p) ==
  /\ Takes(s, p)
  /\ Routable(p)
  /\ IsOnline(p.deliverTo)
  /\ write(compIdToSocket[p.deliverTo],
           <<[n |-> routed + 1, to |-> p.deliverTo, tagged |-> TRUE]>>)
  /\ routed' = routed + 1
  /\ Loops
  /\ UNCHANGED <<running, socketVars, sessionVars, fileVars, wireVars>>

Stored(s, p) ==
  /\ Takes(s, p)
  /\ Routable(p)
  /\ ~IsOnline(p.deliverTo)
  /\ storeMessage(p.deliverTo,
                  [n |-> routed + 1, to |-> p.deliverTo, tagged |-> FALSE])
  /\ routed' = routed + 1
  /\ Loops
  /\ UNCHANGED <<running, socketVars, sessionVars, storeReady, clock,
                 wireVars, outbound>>

Iteration(s) ==
  \/ LoopEnds(s)
  \/ \E p \in Packets :
       \/ LogonAccepted(s, p)
       \/ LogonRefused(s, p)
       \/ Ignored(s, p)
       \/ Rejected(s, p)
       \/ Relayed(s, p)
       \/ Stored(s, p)

-----------------------------------------------------------------------------
(* The environment: peers, network, clock, and the death of the process     *)

PeerSends(s, p) ==
  /\ s \in clients
  /\ Len(inbound[s]) + Len(buffers[s]) < MaxWire
  /\ p.type # Logon => sent < MaxSends
  /\ sent' = IF p.type # Logon THEN sent + 1 ELSE sent
  /\ inbound' = [inbound EXCEPT ![s] = Append(@, p)]
  /\ UNCHANGED <<running, socketVars, buffers, sessionVars, reader, fileVars,
                 outbound, routed, delivered>>

PeerReceives(s) ==
  /\ outbound[s] # <<>>
  /\ outbound' = [outbound EXCEPT ![s] = Tail(@)]
  /\ delivered' = delivered \cup ({Head(outbound[s]).n} \ {0})
  /\ UNCHANGED <<running, socketVars, buffers, sessionVars, reader, fileVars,
                 inbound, sent, routed>>

Tick ==
  /\ \E t \in Times :
       /\ ClockMaySlip \/ t > clock
       /\ clock' = t
  /\ UNCHANGED <<running, socketVars, buffers, sessionVars, reader, storeReady,
                 store, wireVars, outbound, routed>>

(* The process dies: of all this only the files survive.                    *)
Dies ==
  /\ running
  /\ running' = FALSE
  /\ clients' = {} /\ closing' = {}
  /\ buffers' = NoPackets
  /\ compIdToSocket' = NoRoutes /\ socketToCompId' = NoLogons
  /\ reader' = NoSocket
  /\ storeReady' = FALSE
  /\ inbound' = NoPackets /\ outbound' = NoPackets
  /\ UNCHANGED <<clock, routed, delivered, sent>>

Crash == Dies /\ UNCHANGED store

(* The packet the loop takes next is a logon that it accepts as c.          *)
LogonIsNext(s, c) ==
  /\ reader = s
  /\ buffers[s] # <<>>
  /\ Head(buffers[s]).type = Logon /\ Head(buffers[s]).sender = c
  /\ socketToCompId[s] = NoComp
  /\ isCompIdAllowed(c)

(* The process dies between getAndClearQueuedMessages, which removes a file *)
(* as soon as it has read it, the oldest first, and the write of the        *)
(* messages: the files up to some name t are gone and nothing was written.  *)
CrashInReplay(s, c) ==
  /\ LogonIsNext(s, c)
  /\ storeReady
  /\ \E t \in FileNames(store[c]) :
       store' = [store EXCEPT ![c] =
                   [u \in Times |-> IF u <= t THEN NoFile ELSE store[c][u]]]
  /\ Dies

Next ==
  \/ Start
  \/ Crash
  \/ \E s \in Sockets, c \in AllowedCompIds : CrashInReplay(s, c)
  \/ Tick
  \/ \E s \in Sockets :
       \/ NewConnection(s)
       \/ ClientDisconnected(s)
       \/ ReadyRead(s)
       \/ Iteration(s)
       \/ PeerReceives(s)
       \/ \E p \in Packets : PeerSends(s, p)

Spec == Init /\ [][Next]_vars

(* A packet has finitely many bytes: reads that complete none come to an    *)
(* end, so fairness is owed to those that complete one.                     *)
ReadsPacket(s) == ReadyRead(s) /\ inbound' # inbound

(* Fairness: a slot that runs keeps running; whenever the event loop is     *)
(* free it goes through every socket that has something to report, so none  *)
(* is passed over for ever although the loop is busy again and again        *)
(* (strong fairness); a disconnect that was asked for completes.  Peers,    *)
(* the clock, crashes and restarts owe nothing.                             *)
FairSpec ==
  /\ Spec
  /\ \A s \in Sockets :
       /\ WF_vars(Iteration(s))
       /\ SF_vars(ReadsPacket(s))
       /\ SF_vars(s \in closing /\ ClientDisconnected(s))

-----------------------------------------------------------------------------
(* Properties                                                               *)

(* Every variable has its type.                                             *)
TypeOK ==
  /\ running \in BOOLEAN
  /\ clients \subseteq Sockets
  /\ closing \subseteq Sockets
  /\ buffers \in [Sockets -> Seq(Packet)]
  /\ compIdToSocket \in [CompIds -> Sockets \cup {NoSocket}]
  /\ socketToCompId \in [Sockets -> Targets]
  /\ reader \in Sockets \cup {NoSocket}
  /\ storeReady \in BOOLEAN
  /\ store \in [Targets -> [Times -> Message \cup {NoFile}]]
  /\ clock \in Times
  /\ inbound \in [Sockets -> Seq(Packet)]
  /\ outbound \in [Sockets -> Seq(Message)]
  /\ routed \in Nat
  /\ delivered \subseteq Nat
  /\ sent \in Nat

(* A CompID routes to a socket that is still open and that logged on as     *)
(* that very CompID: compIdToSocketMap_ never holds the pointer of a socket *)
(* already given to deleteLater (FixServer.cpp:220 would write to it), nor  *)
(* one whose address now belongs to another peer.                           *)
RoutesAreLive ==
  \A c \in CompIds :
    compIdToSocket[c] # NoSocket =>
      /\ compIdToSocket[c] \in clients
      /\ socketToCompId[compIdToSocket[c]] = c

(* A forwarded message is only ever on the wire to a connection that logged *)
(* on as its DeliverToCompID, however often sockets were replaced, closed   *)
(* and reused since it was routed (FixServer.cpp:178 and :234).             *)
OnlyToAddressee ==
  \A s \in Sockets : \A i \in DOMAIN outbound[s] :
    outbound[s][i].n # 0 => outbound[s][i].to = socketToCompId[s]

(* While a CompID is routable nothing waits in its directory: the logon     *)
(* that made it routable emptied it and messages for it are relayed since,  *)
(* so a later message cannot overtake a stored one (FixServer.cpp:163-180). *)
NothingWaitsForOnline ==
  storeReady => \A c \in CompIds : IsOnline(c) => store[c] = EmptyDir

KeptTickets(c) == {store[c][t].n : t \in FileNames(store[c])}
StoredTickets  == UNION {KeptTickets(c) : c \in Targets}
WireTickets(s) == {outbound[s][i].n : i \in DOMAIN outbound[s]} \ {0}

(* No message exists twice: it is in one file, or once on one wire, or has  *)
(* been received.  Storing and relaying exclude each other, a replay takes  *)
(* the file away, and neither a reconnect nor a restart replays again.      *)
AtMostOneCopy ==
  /\ \A c, d \in Targets : \A t, u \in Times :
       /\ store[c][t] # NoFile /\ store[d][u] # NoFile
       /\ store[c][t].n = store[d][u].n
       => c = d /\ t = u
  /\ \A s, r \in Sockets :
       \A i \in DOMAIN outbound[s], j \in DOMAIN outbound[r] :
         /\ outbound[s][i].n = outbound[r][j].n /\ outbound[s][i].n # 0
         => s = r /\ i = j
  /\ \A s \in Sockets : WireTickets(s) \cap (StoredTickets \cup delivered) = {}
  /\ StoredTickets \cap delivered = {}

(* On one connection messages travel in the order the hub routed them,      *)
(* replayed ones before those relayed after the logon (README.md:18), as    *)
(* long as the clock that names the files does not run backwards.           *)
InRoutingOrder ==
  \A s \in Sockets : \A i, j \in DOMAIN outbound[s] :
    /\ i < j /\ outbound[s][i].n # 0 /\ outbound[s][j].n # 0
    => outbound[s][i].n < outbound[s][j].n

(* The process dies while the files of c are being replayed.                *)
DiesReplaying(c) == ~running' /\ \E s \in Sockets : LogonIsNext(s, c)

(* A message in a file stays there until it is put on a wire by a replay or *)
(* another message of its target takes its name.  A crash costs files only  *)
(* in the middle of the replay to their own company, which removes them     *)
(* before it writes anything (MessageStore.cpp:92, FixServer.cpp:178), and  *)
(* then never one without the older ones.  A message on a wire is received  *)
(* unless that very connection ends.                                        *)
LostOnlyWithConnection ==
  [][ /\ \A c \in Targets : \A t \in FileNames(store[c]) :
           \/ store[c][t].n \in StoredTickets'
           \/ \E s \in Sockets : store[c][t].n \in WireTickets(s)'
           \/ t = clock /\ store'[c][t] # NoFile
           \/ /\ DiesReplaying(c)
              /\ \A u \in FileNames(store[c]) : u < t => store'[c][u] = NoFile
      /\ \A s \in Sockets : \A n \in WireTickets(s) :
           n \in WireTickets(s)' \cup delivered' \/ s \notin clients' ]_vars

(* Once a packet has been read off a socket the hub gets to the end of the  *)
(* buffer: nothing complete stays there for ever (FixServer.cpp:134-136).   *)
BuffersDrain ==
  \A s \in Sockets : buffers[s] # <<>> ~> buffers[s] = <<>>

(* Everyone is served: what a peer sends is eventually looked at, however   *)
(* busy the other connections keep the one thread, unless its own           *)
(* connection ends first (FixServer.cpp:131).                               *)
EveryoneIsServed ==
  \A s \in Sockets :
    inbound[s] # <<>> ~> reader = s \/ s \notin clients \/ s \in closing

(* Messages that wait for a company reach its wire once a logon of it has   *)
(* been read on a connection that is not yet a session (README.md:18),      *)
(* unless that connection ends or becomes a session by an earlier packet.   *)
LogsOnAs(s, c) ==
  /\ socketToCompId[s] = NoComp
  /\ \E i \in DOMAIN buffers[s] :
       buffers[s][i].type = Logon /\ buffers[s][i].sender = c

WaitingAreReplayed ==
  \A s \in Sockets, c \in AllowedCompIds :
    store[c] # EmptyDir /\ LogsOnAs(s, c)
      ~> \/ store[c] = EmptyDir
         \/ s \notin clients \/ s \in closing
         \/ socketToCompId[s] \notin {NoComp, c}

(* Once refused a connection never becomes a session, whatever packets were *)
(* in its buffer behind the refused logon (FixServer.cpp:158-159).          *)
RefusedStayOut == \A s \in closing : socketToCompId[s] = NoComp

(* A message is put aside only when its target has no logged-on connection: *)
(* "Target ... is not online. Storing message." (FixServer.cpp:238).        *)
StoredOnlyWhenOffline ==
  [][ \A c \in CompIds : store'[c] # store[c] /\ store'[c] # EmptyDir
        => \A s \in clients : socketToCompId[s] # c ]_vars

(* A forwarded message carries the routing rule's tags: they are added      *)
(* "before a message is forwarded" (README.md:16).                          *)
ForwardedAreTagged ==
  \A s \in Sockets : \A i \in DOMAIN outbound[s] :
    outbound[s][i].n # 0 => outbound[s][i].tagged

(* Storing a message does not remove another: each gets a "unique filename" *)
(* (MessageStore.cpp:46).                                                   *)
StoringKeepsOthers ==
  [][ routed' # routed => StoredTickets \subseteq StoredTickets' ]_vars

-----------------------------------------------------------------------------
(* The hub implements MessageRelay: a ticket is given out when a message is *)
(* routed, a connection is a lane, a directory is what is kept for a target.*)
Tickets(msgs) == [i \in DOMAIN msgs |-> msgs[i].n]

Relay == INSTANCE MessageRelay WITH
  Lanes    <- Sockets,
  Owners   <- Targets,
  last     <- routed,
  kept     <- [c \in Targets |-> KeptTickets(c)],
  lanes    <- [s \in Sockets |-> Tickets(outbound[s])],
  received <- delivered

(* Nothing the hub does with sessions, buffers and files shows as anything  *)
(* but a message forwarded, kept, replayed in order, lost with its lane, or *)
(* lost by a crash during its replay.                                       *)
RefinesRelay == Relay!RelaySpec
=============================================================================
