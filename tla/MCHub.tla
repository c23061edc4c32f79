--------------------------------- MODULE MCHub ---------------------------------
(* Instances of Hub for TLC: client_a.cfg, client_b.cfg and fix_server.cfg, *)
(* with a third client that the hub does not know.                          *)
EXTENDS Hub, TLC

CONSTANTS A, B, C, ka, kb, kc

MCCompIds  == {A, B, C}
Companies  == {A, B}
OnlyA      == {A}
MCAppTypes == {"D"}

Settings(c, t) == [file |-> "good", server |-> TRUE, compId |-> c, target |-> t]
TwoClients   == {ka, kb}
ThreeClients == {ka, kb, kc}
MCConfig     == (ka :> Settings(A, B)) @@ (kb :> Settings(B, NoComp))
                  @@ (kc :> Settings(C, B))

LogonBy(c)     == [type |-> Logon, sender |-> c, deliverTo |-> NoComp]
OrderBy(c)     == [type |-> "D", sender |-> c, deliverTo |-> B]
ClientPackets  == {LogonBy(A), LogonBy(B), LogonBy(C), OrderBy(A), OrderBy(C)}
=============================================================================
