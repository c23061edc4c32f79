--------------------------- MODULE FixSessionVerity ---------------------------
(***************************************************************************)
(* common/FixSessionVerity.cpp: the table of allowed Sender/Target pairs   *)
(* and the check of a message header against it.                           *)
(***************************************************************************)
EXTENDS FixHelper

CONSTANTS Senders, Targets, NoTarget

ASSUME VerityAssumption == NoTarget \notin Targets /\ Empty \notin Senders \cup Targets

VARIABLES
  allowedPairs,   (* allowedPairs_: sender -> target                        *)
  registered,     (* history: the pairs registered so far                   *)
  header,         (* the header last validated, by tag                      *)
  valid           (* what validate returned                                 *)

verityVars == <<allowedPairs, registered, header, valid>>

NoHeader == [tag \in {} |-> Empty]

VerityInit ==
  /\ allowedPairs = [s \in Senders |-> NoTarget]
  /\ registered = {}
  /\ header = NoHeader /\ valid = FALSE

addAllowedPair(s, t) ==
  /\ allowedPairs' = [allowedPairs EXCEPT ![s] = t]
  /\ registered' = registered \cup {<<s, t>>}
  /\ header' = NoHeader /\ valid' = FALSE

(* Faulty variant: the target is compared only when there is one.           *)
Accepts_NoTarget(h) ==
  /\ TAG_SENDER_COMP_ID \in DOMAIN h
  /\ allowedPairs[h[TAG_SENDER_COMP_ID]] # NoTarget
  /\ TAG_TARGET_COMP_ID \in DOMAIN h =>
       allowedPairs[h[TAG_SENDER_COMP_ID]] = h[TAG_TARGET_COMP_ID]

Accepts(h) ==
  /\ {TAG_SENDER_COMP_ID, TAG_TARGET_COMP_ID} \subseteq DOMAIN h
  /\ allowedPairs[h[TAG_SENDER_COMP_ID]] # NoTarget
  /\ allowedPairs[h[TAG_SENDER_COMP_ID]] = h[TAG_TARGET_COMP_ID]

(* Tags 115 and 128 are only logged.                                        *)
Headers ==
  LET Of(tags) == [tags -> Senders \cup Targets]
      Fits(h) == /\ TAG_SENDER_COMP_ID \in DOMAIN h => h[TAG_SENDER_COMP_ID] \in Senders
                 /\ TAG_TARGET_COMP_ID \in DOMAIN h => h[TAG_TARGET_COMP_ID] \in Targets
  IN {h \in UNION {Of(tags) : tags \in SUBSET {TAG_SENDER_COMP_ID, TAG_TARGET_COMP_ID}} : Fits(h)}

validate(h) ==
  /\ header' = h
  /\ valid' = Accepts(h)
  /\ UNCHANGED <<allowedPairs, registered>>

VerityNext ==
  \/ \E s \in Senders, t \in Targets : addAllowedPair(s, t)
  \/ \E h \in Headers : validate(h)

VeritySpec == VerityInit /\ [][VerityNext]_verityVars

-----------------------------------------------------------------------------
(* Properties                                                               *)

HeaderPair == <<GetTagValue(header, TAG_SENDER_COMP_ID),
                GetTagValue(header, TAG_TARGET_COMP_ID)>>

(* Only a full header of a pair that was registered is accepted, whatever   *)
(* was registered before and since (FixSessionVerity.cpp:26-44).            *)
AcceptedWereRegistered == valid => HeaderPair \in registered

=============================================================================
