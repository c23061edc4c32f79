----------------------------- MODULE MessageRelay -----------------------------
(***************************************************************************)
(* What the hub promises about the messages it forwards, without sessions, *)
(* sockets' lifecycles, file names or clocks.  A message gets the next     *)
(* ticket when the hub routes it; it is then put on a lane (a connection)  *)
(* or kept for its target, and what is kept for a target is put on a lane  *)
(* all at once, the oldest first, when the target comes back.              *)
(*                                                                         *)
(* The promises: a message is never in two places, a lane carries messages *)
(* in routing order, and a message disappears only with its lane, when a   *)
(* newer one takes its place among those kept for the same target, or when *)
(* the hub dies while it replays: then with all lanes the oldest of those  *)
(* kept for one target.                                                    *)
(***************************************************************************)
EXTENDS Naturals, Sequences, FiniteSets

CONSTANTS Lanes, Owners   \* connections; the targets messages are kept for

VARIABLES
  last,      \* tickets given out: 1 .. last
  kept,      \* kept[o]: tickets of the messages kept for target o
  lanes,     \* lanes[l]: what is under way on l; 0 is a notice of the hub
  received   \* tickets of the messages that arrived

relayVars == <<last, kept, lanes, received>>

RInit ==
  /\ last = 0
  /\ kept = [o \in Owners |-> {}]
  /\ lanes = [l \in Lanes |-> <<>>]
  /\ received = {}

(* The enumerations of a set of tickets, the oldest first: there is one.    *)
OldestFirst(tickets) ==
  {q \in [1 .. Cardinality(tickets) -> tickets] :
     \A i, j \in DOMAIN q : i < j => q[i] < q[j]}

Forward(l) ==
  /\ last' = last + 1
  /\ lanes' = [lanes EXCEPT ![l] = Append(@, last')]
  /\ UNCHANGED <<kept, received>>

(* Keeping a message may cost at most one of those kept before.             *)
Keep(o) ==
  /\ last' = last + 1
  /\ \E gone \in {{}} \cup {{n} : n \in kept[o]} :
       kept' = [kept EXCEPT ![o] = (@ \ gone) \cup {last'}]
  /\ UNCHANGED <<lanes, received>>

(* A hub that cannot keep a message loses it.                               *)
Forget ==
  /\ last' = last + 1
  /\ UNCHANGED <<kept, lanes, received>>

Replay(o, l) ==
  /\ kept[o] # {}
  /\ \E q \in OldestFirst(kept[o]) : lanes' = [lanes EXCEPT ![l] = @ \o q]
  /\ kept' = [kept EXCEPT ![o] = {}]
  /\ UNCHANGED <<last, received>>

Notice(l) ==
  /\ lanes' = [lanes EXCEPT ![l] = Append(@, 0)]
  /\ UNCHANGED <<last, kept, received>>

Arrive(l) ==
  /\ lanes[l] # <<>>
  /\ lanes' = [lanes EXCEPT ![l] = Tail(@)]
  /\ received' = received \cup ({Head(lanes[l])} \ {0})
  /\ UNCHANGED <<last, kept>>

(* A lane, or all of them, break with what they carry.                      *)
Break(broken) ==
  /\ lanes' = [l \in Lanes |-> IF l \in broken THEN <<>> ELSE lanes[l]]
  /\ UNCHANGED <<last, kept, received>>

(* All lanes break while what is kept for o is about to be put on one.      *)
BreakInReplay(o) ==
  /\ lanes' = [l \in Lanes |-> <<>>]
  /\ \E n \in kept[o] : kept' = [kept EXCEPT ![o] = {m \in @ : m > n}]
  /\ UNCHANGED <<last, received>>

RNext ==
  \/ \E l \in Lanes :
       \/ Forward(l) \/ Notice(l) \/ Arrive(l) \/ Break({l})
       \/ \E o \in Owners : Replay(o, l)
  \/ \E o \in Owners : Keep(o) \/ BreakInReplay(o)
  \/ Forget
  \/ Break(Lanes)

RelaySpec == RInit /\ [][RNext]_relayVars
=============================================================================
