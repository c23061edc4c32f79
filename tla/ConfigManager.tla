----------------------------- MODULE ConfigManager -----------------------------
(***************************************************************************)
(* common/ConfigManager.cpp: what the singleton keeps of the files it is   *)
(* told to load, one after another, when files may be missing, broken or   *)
(* of another shape than expected.                                         *)
(*                                                                         *)
(* The members the code looks up without asking for them first are read    *)
(* with operator[] of a const value, which asserts that they are there:    *)
(* the build does not define NDEBUG, and the program ends.                 *)
(***************************************************************************)
EXTENDS JsonValue

CONSTANTS
  Files,        (* what files may hold: Missing, Broken or File(v)        *)
  MaxRules      (* bound: rules kept                                        *)

File(v) == [state |-> "parsed", json |-> v]
Missing == [state |-> "missing", json |-> Null]     (* does not open        *)
Broken  == [state |-> "broken", json |-> Null]      (* is not JSON          *)

VARIABLES
  allowedCompIds,       (* allowedCompIds_                                  *)
  supportedMsgTypes,    (* supportedMsgTypes_                               *)
  routingRules,         (* routingRules_                                    *)
  loaded,               (* the file loaded last                             *)
  lists,                (* the members of it that were gone through         *)
  error                 (* how that ended                                   *)

configVars ==
  <<allowedCompIds, supportedMsgTypes, routingRules, loaded, lists, error>>

AllLists == {"allowed_comp_ids", "supported_msg_types", "routing_rules"}

Seqs == INSTANCE SequencesExt

-----------------------------------------------------------------------------
(* Reading                                                                  *)

(* A sequence of errors, up to the first that is one.                       *)
Good(errors) == {i \in DOMAIN errors : \A j \in 1 .. i : errors[j] = "none"}
First(errors) ==
  IF Good(errors) = DOMAIN errors THEN "none"
  ELSE errors[CHOOSE i \in DOMAIN errors : i \notin Good(errors) /\ 1 .. i - 1 \subseteq Good(errors)]

(* get<T>(): int is read from numbers and truth values.                     *)
GetError(v, types) == IF v.type \in types THEN "none" ELSE "type_error"
MemberError(v, k, types) ==
  LET member == ConstIndexKey(v, k)
  IN IF member.error # "none" THEN member.error ELSE GetError(member.result, types)

(* Faulty variant: only arrays are gone through.                            *)
ElementsOf_Arrays(v, k) ==
  IF contains(v, k) /\ IsArray(v.members[k]) THEN v.members[k].items ELSE <<>>

(* The elements of a member, in a for loop; of a string that is itself.     *)
ElementsOf(v, k) == IF contains(v, k) THEN Elements(v.members[k]) ELSE <<>>

TextErrors(v, k) ==
  [i \in DOMAIN ElementsOf(v, k) |-> GetError(ElementsOf(v, k)[i], {"string"})]
TextsOf(v, k) == {ElementsOf(v, k)[i].text : i \in Good(TextErrors(v, k))}

TagErrors(r) ==
  LET tags == ElementsOf(r, "add_tags")
  IN [i \in DOMAIN tags |-> First(<<MemberError(tags[i], "tag", {"number", "boolean"}),
                                    MemberError(tags[i], "value", {"string"})>>)]

(* Faulty variant: tags are left out when one cannot be read.               *)
RuleError_OfSource(r) == MemberError(r, "source_comp_id", {"string"})

RuleError(r) == First(<<MemberError(r, "source_comp_id", {"string"})>> \o TagErrors(r))

Rule(r) ==
  LET tags == ElementsOf(r, "add_tags")
  IN [sourceCompId |-> r.members["source_comp_id"].text,
      tagsToAdd |-> [i \in Good(TagErrors(r)) |->
                       <<tags[i].members["tag"], tags[i].members["value"].text>>]]

RuleErrors(v) ==
  LET rules == ElementsOf(v, "routing_rules")
  IN [i \in DOMAIN rules |-> RuleError(rules[i])]
RulesOf(v) ==
  LET rules == ElementsOf(v, "routing_rules")
  IN [i \in Good(RuleErrors(v)) |-> Rule(rules[i])]

(* What the lists of a file are gone through as: sequences, be they arrays, *)
(* objects or single values.                                                *)
IsList(s) == Len(s) \in Nat /\ s = [i \in 1 .. Len(s) |-> s[i]]

ASSUME ConfigAssumption ==
  \A file \in Files \ {Missing, Broken} :
    /\ \A k \in AllLists : IsList(ElementsOf(file.json, k))
    /\ \A j \in DOMAIN ElementsOf(file.json, "routing_rules") :
         IsList(ElementsOf(ElementsOf(file.json, "routing_rules")[j], "add_tags"))

-----------------------------------------------------------------------------
(* Queries                                                                  *)

isCompIdAllowed(c) == c \in allowedCompIds

isMsgTypeSupported(t) == supportedMsgTypes = {} \/ t \in supportedMsgTypes

(* Faulty variant: the last rule wins.                                      *)
getRoutingRule_Last(rules, c) ==
  {rules[i] : i \in {j \in DOMAIN rules : rules[j].sourceCompId = c
                       /\ \A k \in j + 1 .. Len(rules) : rules[k].sourceCompId # c}}

(* The first rule of that source, or none.                                  *)
getRoutingRule(rules, c) ==
  {rules[i] : i \in {j \in DOMAIN rules : rules[j].sourceCompId = c
                       /\ \A k \in 1 .. j - 1 : rules[k].sourceCompId # c}}

-----------------------------------------------------------------------------
ConfigInit ==
  /\ allowedCompIds = {}
  /\ supportedMsgTypes = {}
  /\ routingRules = <<>>
  /\ loaded = Missing /\ lists = {}
  /\ error = "none"

(* An assertion ends the program.                                           *)
Loads(file, members) == error # "assertion" /\ loaded' = file /\ lists' = members

Refused(file) ==
  /\ Loads(file, {})
  /\ file \in {Missing, Broken}
  /\ error' = "runtime_error"
  /\ UNCHANGED <<allowedCompIds, supportedMsgTypes, routingRules>>

(* What comes after an element of the wrong type is not read.               *)
load(file) ==
  /\ Loads(file, AllLists)
  /\ file \notin {Missing, Broken}
  /\ LET v     == file.json
         ids   == First(TextErrors(v, "allowed_comp_ids"))
         types == First(TextErrors(v, "supported_msg_types"))
     IN /\ allowedCompIds' = allowedCompIds \cup TextsOf(v, "allowed_comp_ids")
        /\ supportedMsgTypes' = supportedMsgTypes \cup
             (IF ids # "none" THEN {} ELSE TextsOf(v, "supported_msg_types"))
        /\ routingRules' = routingRules \o
             (IF First(<<ids, types>>) # "none" THEN <<>> ELSE RulesOf(v))
        /\ error' = First(<<ids, types>> \o RuleErrors(v))
  /\ Len(routingRules') <= MaxRules

loadAllowedCompIds(file) ==
  /\ Loads(file, {"allowed_comp_ids"})
  /\ file \notin {Missing, Broken}
  /\ allowedCompIds' = allowedCompIds \cup TextsOf(file.json, "allowed_comp_ids")
  /\ error' = First(TextErrors(file.json, "allowed_comp_ids"))
  /\ UNCHANGED <<supportedMsgTypes, routingRules>>

ProgramEnded == error = "assertion" /\ UNCHANGED configVars

ConfigNext ==
  \/ \E file \in Files : Refused(file) \/ load(file) \/ loadAllowedCompIds(file)
  \/ ProgramEnded

ConfigSpec == ConfigInit /\ [][ConfigNext]_configVars

-----------------------------------------------------------------------------
(* Properties                                                               *)

Sources == {routingRules[i].sourceCompId : i \in DOMAIN routingRules}

(* However often files are loaded into the one instance, and whatever is    *)
(* wrong with them, what has been allowed stays allowed and a source keeps  *)
(* the rule it has (ConfigManager.cpp:16-102).                              *)
LoadsOnlyAdd ==
  [][/\ allowedCompIds \subseteq allowedCompIds'
     /\ supportedMsgTypes \subseteq supportedMsgTypes'
     /\ \A c \in Sources :
          getRoutingRule(routingRules, c) = getRoutingRule(routingRules', c)]_configVars

(* A rule is kept only with all the tags its file gives it: an exception in *)
(* the middle of the tags leaves the rule out (ConfigManager.cpp:40-55).    *)
RulesAreWhole ==
  \A i \in DOMAIN routingRules :
    \E file \in Files \ {Missing, Broken} :
      \E j \in DOMAIN ElementsOf(file.json, "routing_rules") :
        LET r == ElementsOf(file.json, "routing_rules")[j]
        IN /\ MemberError(r, "source_comp_id", {"string"}) = "none"
           /\ Rule(r) = routingRules[i]
           /\ Len(routingRules[i].tagsToAdd) = Len(ElementsOf(r, "add_tags"))

(* A call that reports nothing has taken all there is: every element of     *)
(* every list it reads, a rule with every tag, in a file whose lists may be *)
(* single values (ConfigManager.cpp:25-55, :72-76).                         *)
Taken(k, item) ==
  CASE k = "allowed_comp_ids"    -> IsString(item) /\ isCompIdAllowed(item.text)
    [] k = "supported_msg_types" -> IsString(item) /\ item.text \in supportedMsgTypes
    [] k = "routing_rules"       ->
         \E i \in DOMAIN routingRules :
           /\ routingRules[i] = Rule(item)
           /\ Len(routingRules[i].tagsToAdd) = Len(ElementsOf(item, "add_tags"))

NothingSkipped ==
  error = "none" =>
    \A k \in lists :
      contains(loaded.json, k) =>
        LET items == Elements(loaded.json.members[k])
        IN \A i \in DOMAIN items : Taken(k, items[i])
=============================================================================
