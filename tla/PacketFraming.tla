----------------------------- MODULE PacketFraming -----------------------------
(***************************************************************************)
(* One direction of a connection, byte by byte: a writer that puts a four  *)
(* byte length in front of each message (FixClient::sendMessage, and the   *)
(* hub's replays, rejects and relays), TCP, and the loop that cuts the     *)
(* bytes into packets again (FixServer::onReadyRead,                       *)
(* FixClient::onReadyRead).                                                *)
(*                                                                         *)
(* A byte is <<n, k>>, byte k of packet n of the connection; bytes 0 to 3  *)
(* are the length, in the byte order of both ends.  quint32 has Width bits.*)
(***************************************************************************)
EXTENDS Integers, Sequences

CONSTANTS
  Width,        (* bits of quint32 and of int                               *)
  Lengths,      (* lengths of the messages that are sent                    *)
  MayReturn,    (* the loop body may return: the hub's does, the client's   *)
                (* does not                                                 *)
  MaxPackets    (* bound: packets per connection                            *)

Modulus    == 2 ^ Width
HeaderSize == 4

ASSUME FramingAssumption ==
  /\ Width \in Nat /\ Modulus \in Nat /\ Modulus > HeaderSize
  /\ Lengths \subseteq 0 .. Modulus - 1
  /\ MayReturn \in BOOLEAN
  /\ MaxPackets \in Nat

VARIABLES
  sent,      (* lengths of the packets sent on this connection              *)
  wire,      (* bytes sent and not yet read                                 *)
  buffer,    (* buffers_[client], or the client's buffer_                   *)
  reading,   (* onReadyRead is in its loop                                  *)
  taken      (* what the loop has cut off so far: the packet whose header   *)
             (* it read, 0 for bytes that are no header, and the data       *)

framingVars == <<sent, wire, buffer, reading, taken>>

FramingInit ==
  /\ sent = <<>> /\ wire = <<>> /\ buffer = <<>>
  /\ reading = FALSE /\ taken = <<>>

(* Arithmetic of the code: 4 + packetSize is a quint32, the cast makes it   *)
(* an int.                                                                  *)
TotalSize(packetSize) == (HeaderSize + packetSize) % Modulus
ToInt(u) == IF u >= Modulus \div 2 THEN u - Modulus ELSE u

IsPartial(packetSize) == Len(buffer) < ToInt(TotalSize(packetSize))

(* What memcpy finds in the first four bytes: the length of packet n, or    *)
(* any number when they are not a header.                                   *)
HeaderOf(buf) ==
  LET n == buf[1][1]
  IN  IF \A k \in 1 .. HeaderSize : buf[k] = <<n, k - 1>> THEN n ELSE 0
PacketSizes(buf) ==
  IF HeaderOf(buf) # 0 THEN {sent[HeaderOf(buf)] % Modulus}
  ELSE 0 .. Modulus - 1

(* QByteArray::mid and remove stop at the end of the array.                 *)
Mid(buf, n)    == SubSeq(buf, HeaderSize + 1,
                    IF HeaderSize + n <= Len(buf) THEN HeaderSize + n
                    ELSE Len(buf))
Removed(buf, n) == SubSeq(buf, n + 1, Len(buf))

(* Faulty variant: only the data is removed.                                *)
Rest_KeepsHeader(buf, packetSize) == Removed(buf, packetSize)
(* Faulty variant: the whole buffer goes with the packet.                   *)
Rest_Clears(buf, packetSize) == <<>>

Rest(buf, packetSize) == Removed(buf, TotalSize(packetSize))

PacketBytes(n, len) == [k \in 1 .. HeaderSize + len |-> <<n, k - 1>>]

SendPacket(len) ==
  /\ Len(sent) < MaxPackets
  /\ sent' = Append(sent, len)
  /\ wire' = wire \o PacketBytes(Len(sent'), len)
  /\ UNCHANGED <<buffer, reading, taken>>

(* onReadyRead up to its loop: readAll returns what has arrived.            *)
ReadyRead ==
  /\ ~reading
  /\ \E k \in 1 .. Len(wire) :
       /\ buffer' = buffer \o SubSeq(wire, 1, k)
       /\ wire' = SubSeq(wire, k + 1, Len(wire))
  /\ reading' = TRUE
  /\ UNCHANGED <<sent, taken>>

(* One iteration that cuts off a packet; the body may return.               *)
TakePacket ==
  /\ reading
  /\ Len(buffer) >= HeaderSize
  /\ \E packetSize \in PacketSizes(buffer) :
       /\ ~IsPartial(packetSize)
       /\ taken' = Append(taken, [of   |-> HeaderOf(buffer),
                                  data |-> Mid(buffer, packetSize)])
       /\ buffer' = Rest(buffer, packetSize)
  /\ reading' \in {TRUE} \cup (IF MayReturn THEN {FALSE} ELSE {})
  /\ UNCHANGED <<sent, wire>>

LoopEnds ==
  /\ reading
  /\ Len(buffer) >= HeaderSize =>
       \E packetSize \in PacketSizes(buffer) : IsPartial(packetSize)
  /\ reading' = FALSE
  /\ UNCHANGED <<sent, wire, buffer, taken>>

(* The connection ends and the next one of this peer starts afresh:         *)
(* onClientDisconnected removes the buffer, onNewConnection clears it.      *)
Reconnect ==
  /\ ~reading /\ sent # <<>>
  /\ sent' = <<>> /\ wire' = <<>> /\ buffer' = <<>> /\ taken' = <<>>
  /\ UNCHANGED reading

FramingNext ==
  \/ \E len \in Lengths : SendPacket(len)
  \/ ReadyRead \/ TakePacket \/ LoopEnds \/ Reconnect

FramingSpec == FramingInit /\ [][FramingNext]_framingVars

-----------------------------------------------------------------------------
(* Properties                                                               *)

IsWhole(p) ==
  p.of # 0 /\ p.data = [k \in 1 .. sent[p.of] |-> <<p.of, HeaderSize + k - 1>>]

(* Wherever TCP cuts the stream, the packets taken are those that were      *)
(* sent, whole and in order: a packet is never cut short, joined with the   *)
(* next, skipped or taken twice (FixServer.cpp:133-142).                    *)
PacketsComeOutAsSent ==
  /\ Len(taken) <= Len(sent)
  /\ \A i \in DOMAIN taken : taken[i].of = i /\ IsWhole(taken[i])

-----------------------------------------------------------------------------
(* FixServer's view of a connection: a packet has arrived when its last     *)
(* byte is in the buffer.                                                   *)
Arrived ==
  {n \in DOMAIN sent : \E i \in DOMAIN buffer :
     buffer[i] = <<n, HeaderSize + sent[n] - 1>>}
Span(lo, hi) == [i \in 1 .. hi - lo |-> lo + i]
LastArrived ==
  CHOOSE n \in Arrived \cup {Len(taken)} : \A m \in Arrived : m <= n

Channel == INSTANCE PacketChannel WITH
  got     <- [i \in DOMAIN taken |-> taken[i].of],
  arrived <- Span(Len(taken), LastArrived),
  wire    <- Span(LastArrived, Len(sent))

(* Cutting the byte stream is a queue of packets, which is what the module  *)
(* FixServer takes inbound, buffers and outbound to be.                     *)
RefinesChannel == Channel!ChannelSpec
=============================================================================
