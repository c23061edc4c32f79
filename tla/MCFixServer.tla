----------------------------- MODULE MCFixServer -----------------------------
(* Instances of FixServer for TLC.                                          *)
EXTENDS FixServer, TLC

CONSTANTS A, B, C

LogonOf(c)      == [type |-> Logon, sender |-> c, deliverTo |-> NoComp]
AppTo(from, to) == [type |-> "D", sender |-> from, deliverTo |-> to]
Unsupported     == [type |-> "X", sender |-> A, deliverTo |-> B]

(* Two companies are configured; C is a CompID that is not.                 *)
MCCompIds  == {A, B, C}
Companies  == {A, B}
OnlyA      == {A}
MCAppTypes == {"D", "X"}

(* A trades with B.                                                         *)
TradePackets == {LogonOf(A), LogonOf(B), AppTo(A, B)}

(* ... and one of A's messages has no tag 128.                              *)
RoutingPackets == TradePackets \cup {AppTo(A, NoComp)}

(* ... and one of A's messages is of an unsupported type.                   *)
OrderPackets == TradePackets \cup {Unsupported}

(* Accepted and refused logons, a message to be stored or relayed, one      *)
(* without tag 49, and one whose sender may have no routing rule.           *)
ProgressPackets ==
  {LogonOf(B), LogonOf(C), AppTo(A, B), AppTo(NoComp, B), AppTo(B, A)}

(* A message the configuration supports behind one it does not.             *)
RejectedPackets == {Unsupported, AppTo(A, B)}

SocketSymmetry == Permutations(Sockets)
=============================================================================
