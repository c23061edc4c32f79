------------------------------- MODULE FixHelper -------------------------------
(***************************************************************************)
(* common/FixHelper: a FIX message is a std::map from tag to value, here a *)
(* function whose domain is the set of tags present.                       *)
(***************************************************************************)
EXTENDS Integers

TAG_MSG_TYPE             == 35
TAG_SENDER_COMP_ID       == 49
TAG_TARGET_COMP_ID       == 56
TAG_ON_BEHALF_OF_COMP_ID == 115
TAG_DELIVER_TO_COMP_ID   == 128

Empty == ""

GetTagValue(msg, tag) == IF tag \in DOMAIN msg THEN msg[tag] ELSE Empty

SetTagValue(msg, tag, value) ==
  [t \in DOMAIN msg \cup {tag} |-> IF t = tag THEN value ELSE msg[t]]

(* The types of enum FixMessageType but Unknown, by the character of tag 35.*)
MessageTypes == {"D", "G", "F", "8", "9"}
Unknown      == "Unknown"

GetMsgType(msg) ==
  LET value == GetTagValue(msg, TAG_MSG_TYPE)
  IN IF value \in MessageTypes THEN value ELSE Unknown

IsRoutableAppMessage(type) == type # Unknown

EraseTag(msg, tag) == [t \in DOMAIN msg \ {tag} |-> msg[t]]
=============================================================================
