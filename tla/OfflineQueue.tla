----------------------------- MODULE OfflineQueue -----------------------------
(***************************************************************************)
(* What the offline message store promises, without directories, files and *)
(* the steps of an operation: messages are kept per target until they are  *)
(* handed over, many at once and the oldest first.  A crash or a failure   *)
(* may tear the message being stored, what cannot be taken out waits for   *)
(* the next time, and a crash may lose what was about to be handed over;   *)
(* of what is handed over at most one message stays to be handed again.    *)
(***************************************************************************)
EXTENDS Naturals, Sequences, FiniteSets

CONSTANT Owners     \* the targets messages are kept for

VARIABLES
  last,      \* tickets given out: 1 .. last
  kept,      \* kept[o]: tickets of the messages kept for o
  torn,      \* tickets of messages of which only a part was kept
  handed     \* handed[o]: tickets handed over for o, in order

queueVars == <<last, kept, torn, handed>>

QInit ==
  /\ last = 0
  /\ kept = [o \in Owners |-> {}]
  /\ torn = {}
  /\ handed = [o \in Owners |-> <<>>]

(* A request to keep a message; refusing it takes no further step.          *)
Ask == last' = last + 1 /\ UNCHANGED <<kept, torn, handed>>

(* The newest ticket is kept, at the cost of at most one other message.     *)
KeepNewest(o) ==
  /\ \A p \in Owners : \A n \in kept[p] : n < last
  /\ \A p \in Owners : \A i \in DOMAIN handed[p] : handed[p][i] < last
  /\ \E gone \in {{}} \cup {{n} : n \in kept[o]} :
       kept' = [kept EXCEPT ![o] = (@ \ gone) \cup {last}]
  /\ UNCHANGED <<last, torn, handed>>

OldestFirst(tickets) ==
  {q \in [1 .. Cardinality(tickets) -> tickets] :
     \A i, j \in DOMAIN q : i < j => q[i] < q[j]}

(* What cannot be taken out stays kept, and so does at most one of those    *)
(* that are handed over.                                                    *)
HandOver(o) ==
  /\ \E out \in SUBSET kept[o] : \E stays \in {{}} \cup {{n} : n \in out} :
       /\ \E q \in OldestFirst(out) : handed' = [handed EXCEPT ![o] = @ \o q]
       /\ kept' = [kept EXCEPT ![o] = (@ \ out) \cup stays]
  /\ UNCHANGED <<last, torn>>

(* A crash or a failure while a message is being stored, and a crash while  *)
(* some are taken out.                                                      *)
Tear ==
  /\ \E o \in Owners : last \in kept[o]
  /\ torn' = torn \cup {last}
  /\ UNCHANGED <<last, kept, handed>>

Lose(o) ==
  /\ \E rest \in SUBSET kept[o] : kept' = [kept EXCEPT ![o] = rest]
  /\ UNCHANGED <<last, torn, handed>>

QNext == Ask \/ Tear \/ \E o \in Owners :
                          KeepNewest(o) \/ HandOver(o) \/ Lose(o)

QueueSpec == QInit /\ [][QNext]_queueVars
=============================================================================
