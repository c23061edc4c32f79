------------------------------- MODULE FixClient -------------------------------
(***************************************************************************)
(* The client program: client/src/main_client.cpp and FixClient.cpp.  Each *)
(* client is one thread, Qt's event loop.  It connects once, logs on when  *)
(* connected, and sends one order two seconds after its start, whatever    *)
(* has become of the connection by then.                                   *)
(*                                                                         *)
(* What the client logs about received data changes no state; how it cuts  *)
(* bytes into packets is the module PacketFraming.                         *)
(***************************************************************************)
EXTENDS Naturals, Sequences

CONSTANTS
  Clients,     (* client programs, each with a configuration file           *)
  NoComp,      (* the empty CompID                                          *)
  Logon,       (* MsgType "A"                                               *)
  NewOrder,    (* MsgType "D"                                               *)
  Config       (* what loadConfig finds, per client                         *)

FileStates == {"missing", "unparsable", "mistyped", "good"}

ConfigsAreRead ==
  \A k \in Clients :
    /\ Config[k].file \in FileStates
    /\ Config[k].server \in BOOLEAN  \* a host and a port other than 0

VARIABLES
  state,      (* socket_.state(), "down" while the program does not run     *)
  timer,      (* the single shot timer: "unset", "armed", "fired"           *)
  outgoing    (* packets written on the current connection                  *)

clientVars == <<state, timer, outgoing>>

ClientInit ==
  /\ state = [k \in Clients |-> "down"]
  /\ timer = [k \in Clients |-> "unset"]
  /\ outgoing = [k \in Clients |-> <<>>]

LogonOf(k) == [type |-> Logon, sender |-> Config[k].compId, deliverTo |-> NoComp]
OrderOf(k) == [type |-> NewOrder, sender |-> Config[k].compId,
               deliverTo |-> Config[k].target]

(* loadConfig returns true: a value of another type than expected makes     *)
(* value() throw a type_error, which no handler names, so the program ends  *)
(* then too.                                                                *)
LoadConfig(k) == Config[k].file = "good" /\ Config[k].compId # NoComp

(* main up to exec: connectToServer returns early without a host and port,  *)
(* the timer is armed all the same.                                         *)
Launch(k) ==
  /\ state[k] = "down"
  /\ LoadConfig(k)
  /\ state' = [state EXCEPT ![k] = IF Config[k].server THEN "connecting"
                                                       ELSE "unconnected"]
  /\ timer' = [timer EXCEPT ![k] = "armed"]
  /\ UNCHANGED outgoing

(* sendMessage: nothing is sent, and nothing kept, while not connected.     *)
SendMessage(k, p) ==
  outgoing' = [outgoing EXCEPT ![k] =
                 IF state'[k] = "connected" THEN Append(@, p) ELSE @]

(* onConnected, in the step in which Qt sets the socket's state.            *)
OnConnected(k) ==
  /\ state[k] = "connecting"
  /\ state' = [state EXCEPT ![k] = "connected"]
  /\ SendMessage(k, LogonOf(k))
  /\ UNCHANGED timer

(* Faulty variant: the order does not wait for the connection.              *)
SendTestMessage_Queues(k) ==
  /\ timer[k] = "armed"
  /\ timer' = [timer EXCEPT ![k] = "fired"]
  /\ UNCHANGED state
  /\ IF Config[k].target = NoComp THEN UNCHANGED outgoing
     ELSE outgoing' = [outgoing EXCEPT ![k] = Append(@, OrderOf(k))]

(* The timer's timeout: sendTestMessage.                                    *)
SendTestMessage(k) ==
  /\ timer[k] = "armed"
  /\ timer' = [timer EXCEPT ![k] = "fired"]
  /\ UNCHANGED state
  /\ IF Config[k].target = NoComp THEN UNCHANGED outgoing
     ELSE SendMessage(k, OrderOf(k))

(* Nobody listens, or the network fails: no slot is connected to            *)
(* errorOccurred, and nothing tries again.                                  *)
ConnectionFails(k) ==
  /\ state[k] = "connecting"
  /\ state' = [state EXCEPT ![k] = "unconnected"]
  /\ UNCHANGED <<timer, outgoing>>

OnDisconnected(k) ==
  /\ state[k] = "connected"
  /\ state' = [state EXCEPT ![k] = "unconnected"]
  /\ outgoing' = [outgoing EXCEPT ![k] = <<>>]
  /\ UNCHANGED timer
=============================================================================
