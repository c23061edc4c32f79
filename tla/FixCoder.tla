-------------------------------- MODULE FixCoder --------------------------------
(***************************************************************************)
(* common/FixCode.cpp: the two tables between CompIDs and custom ids,      *)
(* written by AddRoute and read by TransformMessage and GetTargetCompID,   *)
(* by threads that share one FixCoder.  A mutex stands before the tables;  *)
(* the message belongs to its caller.                                      *)
(***************************************************************************)
EXTENDS FixHelper

CONSTANTS
  Callers, NoCaller,
  Routes,       (* pairs <<compId, customId>> that AddRoute is called with  *)
  CompIds, CustomIds, None,
  Hub,          (* the value "HUB"                                          *)
  Messages,     (* messages the callers hold                                *)
  MaxAsked      (* bound: asked of each thread                              *)

ASSUME CoderAssumption ==
  /\ NoCaller \notin Callers
  /\ {None, Empty} \cap (CompIds \cup CustomIds) = {}
  /\ Routes \subseteq CompIds \X CustomIds
  /\ MaxAsked \in Nat

VARIABLES
  compIdToCustomId, customIdToCompId,
  held,
  at,           (* the next step of each thread; "out" between asked        *)
  op,           (* its call: "AddRoute", "TransformMessage", ...            *)
  route,        (* the arguments of AddRoute                                *)
  msg,          (* the message of the call                                  *)
  found,        (* newTargetCompId, newOnBehalfOfId                         *)
  result,       (* what the call returned: "ok", "error" or a CompID        *)
  asked,
  given,        (* history: the message as the caller passed it             *)
  seen,         (* history: the tables that were in force during the call   *)
  inForce,      (* history: the tables the last AddRoute to end has left    *)
  last          (* history: the route of the AddRoute that ended last       *)

tables == <<compIdToCustomId, customIdToCompId>>
coderVars == <<tables, held, at, op, route, msg, found, result, asked, given, seen, inForce, last>>

NoMessage == [t \in {} |-> Empty]

CoderInit ==
  /\ compIdToCustomId = [c \in CompIds |-> None]
  /\ customIdToCompId = [k \in CustomIds |-> None]
  /\ held = NoCaller
  /\ at = [t \in Callers |-> "out"]
  /\ op = [t \in Callers |-> "none"]
  /\ route = [t \in Callers |-> <<None, None>>]
  /\ msg = [t \in Callers |-> NoMessage]
  /\ found = [t \in Callers |-> <<None, None>>]
  /\ result = [t \in Callers |-> "none"]
  /\ asked = [t \in Callers |-> 0]
  /\ given = [t \in Callers |-> NoMessage]
  /\ seen = [t \in Callers |-> {}]
  /\ inForce = tables /\ last = <<None, None>>

Lookup(table, key) == IF key \in DOMAIN table THEN table[key] ELSE None

Begins(t, name) ==
  /\ at[t] = "out" /\ asked[t] < MaxAsked
  /\ asked' = [asked EXCEPT ![t] = @ + 1]
  /\ op' = [op EXCEPT ![t] = name]
  /\ seen' = [seen EXCEPT ![t] = {inForce}]

(* The tag checks come before the mutex is taken.                           *)
Passes(t, m, tags) ==
  LET complete == \A tag \in tags : GetTagValue(m, tag) # Empty
  IN /\ msg' = [msg EXCEPT ![t] = m]
     /\ given' = [given EXCEPT ![t] = m]
     /\ at' = [at EXCEPT ![t] = IF complete THEN "lock" ELSE "out"]
     /\ result' = [result EXCEPT ![t] = IF complete THEN "none" ELSE "error"]

AddRoute(t) == \E r \in Routes :
  /\ Begins(t, "AddRoute")
  /\ route' = [route EXCEPT ![t] = r]
  /\ at' = [at EXCEPT ![t] = "lock"]
  /\ UNCHANGED <<tables, held, msg, found, result, given, inForce, last>>

TransformMessage(t) == \E m \in Messages :
  /\ Begins(t, "TransformMessage")
  /\ Passes(t, m, {TAG_SENDER_COMP_ID, TAG_DELIVER_TO_COMP_ID})
  /\ UNCHANGED <<tables, held, route, found, inForce, last>>

GetTargetCompID(t) == \E m \in Messages :
  /\ Begins(t, "GetTargetCompID")
  /\ Passes(t, m, {TAG_DELIVER_TO_COMP_ID})
  /\ UNCHANGED <<tables, held, route, found, inForce, last>>

(* Faulty variant: AddRoute does without the mutex.                         *)
TakeLock_ReadersOnly(t) ==
  /\ at[t] = "lock" /\ (op[t] # "AddRoute" => held = NoCaller)
  /\ held' = IF op[t] = "AddRoute" THEN held ELSE t
  /\ at' = [at EXCEPT ![t] = IF op[t] = "AddRoute" THEN "first" ELSE "target"]
  /\ UNCHANGED <<tables, op, route, msg, found, result, asked, given, seen, inForce, last>>

TakeLock(t) ==
  /\ at[t] = "lock" /\ held = NoCaller
  /\ held' = t
  /\ at' = [at EXCEPT ![t] = IF op[t] = "AddRoute" THEN "first" ELSE "target"]
  /\ UNCHANGED <<tables, op, route, msg, found, result, asked, given, seen, inForce, last>>

(* AddRoute: the two assignments.                                           *)
WriteCustomId(t) ==
  /\ at[t] = "first"
  /\ compIdToCustomId' = [compIdToCustomId EXCEPT ![route[t][1]] = route[t][2]]
  /\ at' = [at EXCEPT ![t] = "second"]
  /\ UNCHANGED <<customIdToCompId, held, op, route, msg, found, result, asked, given, seen, inForce, last>>

WriteCompId(t) ==
  /\ at[t] = "second"
  /\ customIdToCompId' = [customIdToCompId EXCEPT ![route[t][2]] = route[t][1]]
  /\ held' = NoCaller
  /\ at' = [at EXCEPT ![t] = "out"]
  /\ inForce' = <<compIdToCustomId, customIdToCompId'>> /\ last' = route[t]
  /\ seen' = [u \in Callers |-> IF at'[u] = "out" THEN seen[u] ELSE seen[u] \cup {inForce'}]
  /\ UNCHANGED <<compIdToCustomId, op, route, msg, found, result, asked, given>>

(* The call leaves the block of its lock_guard, to `next'.                  *)
Leaves(t, next, answer) ==
  /\ held' = NoCaller
  /\ at' = [at EXCEPT ![t] = next]
  /\ result' = [result EXCEPT ![t] = answer]

(* Faulty variant: each lookup takes the mutex for itself.                  *)
FindTarget_Unlocks(t) ==
  /\ at[t] = "target"
  /\ LET compId == Lookup(customIdToCompId, GetTagValue(msg[t], TAG_DELIVER_TO_COMP_ID))
     IN /\ found' = [found EXCEPT ![t] = <<compId, @[2]>>]
        /\ IF compId = None THEN Leaves(t, "out", "error")
           ELSE IF op[t] = "GetTargetCompID" THEN Leaves(t, "out", compId)
           ELSE Leaves(t, "behalf", result[t])
  /\ UNCHANGED <<tables, op, route, msg, asked, given, seen, inForce, last>>

(* The lookup of tag 128: all that GetTargetCompID does.                    *)
FindTarget(t) ==
  /\ at[t] = "target"
  /\ LET compId == Lookup(customIdToCompId, GetTagValue(msg[t], TAG_DELIVER_TO_COMP_ID))
     IN /\ found' = [found EXCEPT ![t] = <<compId, @[2]>>]
        /\ IF compId = None THEN Leaves(t, "out", "error")
           ELSE IF op[t] = "GetTargetCompID" THEN Leaves(t, "out", compId)
           ELSE at' = [at EXCEPT ![t] = "behalf"] /\ UNCHANGED <<held, result>>
  /\ UNCHANGED <<tables, op, route, msg, asked, given, seen, inForce, last>>

(* The lookup of tag 49.                                                    *)
FindOnBehalfOf(t) ==
  /\ at[t] = "behalf"
  /\ LET customId == Lookup(compIdToCustomId, GetTagValue(msg[t], TAG_SENDER_COMP_ID))
     IN /\ found' = [found EXCEPT ![t] = <<@[1], customId>>]
        /\ IF customId = None THEN Leaves(t, "out", "error") ELSE Leaves(t, "set", result[t])
  /\ UNCHANGED <<tables, op, route, msg, asked, given, seen, inForce, last>>

Transformed(m, compId, customId) ==
  EraseTag(SetTagValue(SetTagValue(SetTagValue(m, TAG_SENDER_COMP_ID, Hub),
                                   TAG_TARGET_COMP_ID, compId),
                       TAG_ON_BEHALF_OF_COMP_ID, customId),
           TAG_DELIVER_TO_COMP_ID)

SetTags(t) ==
  /\ at[t] = "set"
  /\ msg' = [msg EXCEPT ![t] = Transformed(@, found[t][1], found[t][2])]
  /\ at' = [at EXCEPT ![t] = "out"]
  /\ result' = [result EXCEPT ![t] = "ok"]
  /\ UNCHANGED <<tables, held, op, route, found, asked, given, seen, inForce, last>>

Steps(t) == \/ TakeLock(t) \/ WriteCustomId(t) \/ WriteCompId(t)
            \/ FindTarget(t) \/ FindOnBehalfOf(t) \/ SetTags(t)

CallsDone == /\ \A t \in Callers : at[t] = "out" /\ asked[t] = MaxAsked
             /\ UNCHANGED coderVars

CoderNext ==
  \/ \E t \in Callers :
       AddRoute(t) \/ TransformMessage(t) \/ GetTargetCompID(t) \/ Steps(t)
  \/ CallsDone

CoderSpec == CoderInit /\ [][CoderNext]_coderVars

-----------------------------------------------------------------------------
(* Properties                                                               *)

(* Every variable has its type.                                             *)
CoderTypeOK ==
  /\ compIdToCustomId \in [CompIds -> CustomIds \cup {None}]
  /\ customIdToCompId \in [CustomIds -> CompIds \cup {None}]
  /\ held \in Callers \cup {NoCaller}
  /\ at \in [Callers -> {"out", "lock", "first", "second", "target", "behalf", "set"}]
  /\ asked \in [Callers -> 0 .. MaxAsked]

(* What the two functions promise, from the tables they are given: tag 128  *)
(* names the receiver; the message is rewritten as a whole, or refused and  *)
(* left as it was.                                                          *)
Answer(name, m, custom, comp) ==
  LET sender  == GetTagValue(m, TAG_SENDER_COMP_ID)
      deliver == GetTagValue(m, TAG_DELIVER_TO_COMP_ID)
      target  == Lookup(comp, deliver)
      behalf  == Lookup(custom, sender)
  IN CASE name = "GetTargetCompID" ->
            [msg |-> m, result |-> IF target = None THEN "error" ELSE target]
       [] name = "TransformMessage" /\ (target = None \/ behalf = None) ->
            [msg |-> m, result |-> "error"]
       [] OTHER -> [msg |-> Transformed(m, target, behalf), result |-> "ok"]

(* A call answers as if it had run alone, at one moment between its begin   *)
(* and its end: both lookups see the same tables, never half a route, and a *)
(* refused message is unchanged (FixCode.cpp:38-85).                        *)
AnswersFromOneTable == \A t \in Callers :
  at[t] = "out" /\ op[t] \in {"TransformMessage", "GetTargetCompID"} =>
    \E tb \in seen[t] :
      [msg |-> msg[t], result |-> result[t]] = Answer(op[t], given[t], tb[1], tb[2])

(* Between registrations, the last route registered holds in both           *)
(* directions, whoever registered at the same time (FixCode.cpp:10-14).     *)
LastRouteHolds ==
  (last[1] # None /\ \A t \in Callers : at[t] # "second") =>
    /\ compIdToCustomId[last[1]] = last[2]
    /\ customIdToCompId[last[2]] = last[1]

=============================================================================
