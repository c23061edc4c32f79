----------------------------- MODULE PacketChannel -----------------------------
(***************************************************************************)
(* A connection as FixServer sees it: packets are sent one by one, arrive  *)
(* in groups, are taken one by one, and all that is under way is gone when *)
(* the connection breaks.  A packet is its number on the connection.       *)
(***************************************************************************)
EXTENDS Naturals, Sequences

VARIABLES
  wire,      \* packets sent that have not arrived
  arrived,   \* packets read and not yet taken
  got        \* packets taken

channelVars == <<wire, arrived, got>>

ChInit == wire = <<>> /\ arrived = <<>> /\ got = <<>>

Send ==
  /\ wire' = Append(wire, Len(got) + Len(arrived) + Len(wire) + 1)
  /\ UNCHANGED <<arrived, got>>

Arrive ==
  /\ \E k \in 1 .. Len(wire) :
       /\ arrived' = arrived \o SubSeq(wire, 1, k)
       /\ wire' = SubSeq(wire, k + 1, Len(wire))
  /\ UNCHANGED got

Take ==
  /\ arrived # <<>>
  /\ arrived' = Tail(arrived)
  /\ got' = Append(got, Head(arrived))
  /\ UNCHANGED wire

Break == wire' = <<>> /\ arrived' = <<>> /\ got' = <<>>

ChannelSpec == ChInit /\ [][Send \/ Arrive \/ Take \/ Break]_channelVars
=============================================================================
