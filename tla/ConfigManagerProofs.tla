-------------------------- MODULE ConfigManagerProofs --------------------------
(***************************************************************************)
(* Proofs about ConfigManager, for any files: whatever their lists hold,   *)
(* and however long they are.                                              *)
(***************************************************************************)
EXTENDS ConfigManager, SequenceTheorems, WellFoundedInduction, TLAPS

-----------------------------------------------------------------------------
(* Reading up to the first error                                            *)

NatOrder == {ab \in Nat \X Nat : ab[1] < ab[2]}

LEMMA NatOrderEnds == IsWellFoundedOn(NatOrder, Nat)
<1>1. NatOrder = OpToRel(<, Nat)
  BY DEF OpToRel, NatOrder
<1> QED
  BY <1>1, NatLessThanWellFounded

LEMMA Least ==
  ASSUME NEW B \in SUBSET Nat, B # {}
  PROVE  \E l \in B : \A b \in B : l <= b
<1>1. PICK l \in B : \A b \in B : ~(<<b, l>> \in NatOrder)
  BY NatOrderEnds, WFMin
<1>2. ASSUME NEW b \in B PROVE l <= b
  <2>1. ~(<<b, l>> \in NatOrder) /\ b \in Nat /\ l \in Nat
    BY <1>1
  <2>2. ~(b < l)
    BY <2>1 DEF NatOrder
  <2> QED
    BY <2>1, <2>2
<1> QED
  BY <1>2

(* Errors with numbers 1 to n: e is a list of what each element was.        *)
ListOf(e, n) == n \in Nat /\ DOMAIN e = 1 .. n

(* The first bad one, if any: what is before it is good, nothing else is.   *)
LEMMA FirstBad ==
  ASSUME NEW e, NEW n, ListOf(e, n), NEW i \in 1 .. n, e[i] # "none"
  PROVE  \E l \in 1 .. n : e[l] # "none" /\ Good(e) = 1 .. l - 1
<1> DEFINE B == {j \in 1 .. n : e[j] # "none"}
<1>1. n \in Nat /\ DOMAIN e = 1 .. n
  BY DEF ListOf
<1>2. B \in SUBSET Nat /\ i \in B
  BY <1>1
<1>3. PICK l \in B : \A b \in B : l <= b
  BY <1>2, Least
<1>4. l \in 1 .. n /\ e[l] # "none" /\ l \in Nat
  BY <1>1, <1>3
<1>5. \A j \in 1 .. n : j < l => e[j] = "none"
  BY <1>1, <1>3
<1>6. ASSUME NEW j \in 1 .. l - 1 PROVE j \in Good(e)
  <2>1. j \in 1 .. n /\ \A k \in 1 .. j : k \in 1 .. n /\ k < l
    BY <1>1, <1>4
  <2> QED
    BY <1>1, <1>5, <2>1 DEF Good
<1>7. ASSUME NEW j \in Good(e) PROVE j \in 1 .. l - 1
  <2>1. j \in 1 .. n /\ \A k \in 1 .. j : e[k] = "none"
    BY <1>1 DEF Good
  <2>2. l \notin 1 .. j
    BY <1>4, <2>1
  <2> QED
    BY <1>1, <1>4, <2>1, <2>2
<1>8. Good(e) = 1 .. l - 1
  BY <1>6, <1>7
<1> QED
  BY <1>4, <1>8

(* First says "none" of a list only if every element was read.              *)
LEMMA NoneMeansAll ==
  ASSUME NEW e, NEW n, ListOf(e, n), First(e) = "none"
  PROVE  Good(e) = 1 .. n /\ \A i \in 1 .. n : e[i] = "none"
<1>1. n \in Nat /\ DOMAIN e = 1 .. n
  BY DEF ListOf
<1>2. SUFFICES ASSUME NEW i \in 1 .. n, e[i] # "none" PROVE FALSE
  <2>1. ASSUME \A i \in 1 .. n : e[i] = "none" PROVE Good(e) = 1 .. n
    <3>1. \A i \in 1 .. n : \A j \in 1 .. i : j \in 1 .. n
      BY <1>1
    <3> QED
      BY <1>1, <2>1, <3>1 DEF Good
  <2> QED
    BY <1>2, <2>1
<1>3. PICK l \in 1 .. n : e[l] # "none" /\ Good(e) = 1 .. l - 1
  BY <1>2, FirstBad
<1>4. l \notin Good(e) /\ l \in DOMAIN e
  BY <1>1, <1>3
<1>5. \E k \in DOMAIN e : k \notin Good(e) /\ 1 .. k - 1 \subseteq Good(e)
  BY <1>3, <1>4
<1>6. PICK k \in DOMAIN e :
        /\ k \notin Good(e) /\ 1 .. k - 1 \subseteq Good(e)
        /\ First(e) = e[k]
  BY <1>4, <1>5 DEF First
<1>7. k \in 1 .. n /\ k \notin 1 .. l - 1 /\ 1 .. k - 1 \subseteq 1 .. l - 1
  BY <1>1, <1>3, <1>6
<1>8. k = l
  BY <1>1, <1>7
<1> QED
  BY <1>3, <1>6, <1>8

LEMMA GoodIsPrefix ==
  ASSUME NEW e, NEW n, ListOf(e, n)
  PROVE  \E m \in Nat : Good(e) = 1 .. m /\ Good(e) \subseteq DOMAIN e
<1>1. n \in Nat /\ DOMAIN e = 1 .. n /\ Good(e) \subseteq DOMAIN e
  BY DEF ListOf, Good
<1>2. CASE \A i \in 1 .. n : e[i] = "none"
  <2>1. \A i \in 1 .. n : \A j \in 1 .. i : j \in 1 .. n
    BY <1>1
  <2>2. Good(e) = 1 .. n
    BY <1>1, <1>2, <2>1 DEF Good
  <2> QED
    BY <1>1, <2>2
<1>3. ASSUME NEW i \in 1 .. n, e[i] # "none"
      PROVE  \E m \in Nat : Good(e) = 1 .. m /\ Good(e) \subseteq DOMAIN e
  <2>1. PICK l \in 1 .. n : e[l] # "none" /\ Good(e) = 1 .. l - 1
    BY <1>3, FirstBad
  <2>2. l - 1 \in Nat
    BY <1>1
  <2> QED
    BY <1>1, <2>1, <2>2
<1> QED
  BY <1>2, <1>3

-----------------------------------------------------------------------------
(* Rules                                                                    *)

LEMMA ListsAreLists ==
  ASSUME NEW s, IsList(s)
  PROVE  Len(s) \in Nat /\ DOMAIN s = 1 .. Len(s)
BY DEF IsList

RulesIn(v) == ElementsOf(v, "routing_rules")
TagsOf(r) == ElementsOf(r, "add_tags")

LEMMA FilesHaveLists ==
  ASSUME NEW file \in Files, file \notin {Missing, Broken}
  PROVE  /\ IsList(ElementsOf(file.json, "allowed_comp_ids"))
         /\ IsList(ElementsOf(file.json, "supported_msg_types"))
         /\ IsList(RulesIn(file.json))
         /\ \A j \in DOMAIN RulesIn(file.json) :
              IsList(TagsOf(RulesIn(file.json)[j]))
BY ConfigAssumption DEF AllLists, RulesIn, TagsOf

(* A rule of which RuleError says nothing has a source and all its tags.    *)
LEMMA ReadRulesAreWhole ==
  ASSUME NEW r, IsList(TagsOf(r)), RuleError(r) = "none"
  PROVE  /\ MemberError(r, "source_comp_id", {"string"}) = "none"
         /\ Len(Rule(r).tagsToAdd) = Len(TagsOf(r))
<1> DEFINE source == MemberError(r, "source_comp_id", {"string"})
           n == Len(TagsOf(r))
           te == TagErrors(r)
           E == {te[i] : i \in 1 .. n} \cup {source}
<1>1. n \in Nat /\ DOMAIN TagsOf(r) = 1 .. n
  BY ListsAreLists
<1>2. DOMAIN te = 1 .. n /\ te = [i \in 1 .. n |-> te[i]]
  BY <1>1 DEF TagErrors, TagsOf
<1> HIDE DEF te, source, n
<1>3. te \in [1 .. n -> E]
  BY <1>2
<1>4. te \in Seq(E) /\ Len(te) = n
  BY <1>1, <1>3
<1>5. <<source>> \in Seq(E) /\ Len(<<source>>) = 1
  OBVIOUS
<1> DEFINE all == <<source>> \o te
<1>6. /\ DOMAIN all = 1 .. n + 1
      /\ all[1] = source
      /\ \A i \in 1 .. n : all[i + 1] = te[i]
  BY <1>1, <1>4, <1>5
<1>7. First(all) = "none"
  BY DEF RuleError, te, source
<1> HIDE DEF all
<1>8. ListOf(all, n + 1)
  BY <1>1, <1>6 DEF ListOf
<1>9. \A i \in 1 .. n + 1 : all[i] = "none"
  BY <1>7, <1>8, NoneMeansAll
<1>10. source = "none"
  BY <1>1, <1>6, <1>9
<1>11. ASSUME NEW i \in 1 .. n PROVE te[i] = "none"
  <2>1. i + 1 \in 1 .. n + 1
    BY <1>1
  <2> QED
    BY <1>6, <1>9, <2>1
<1>12. Good(te) = 1 .. n
  <2>1. \A i \in 1 .. n : \A j \in 1 .. i : j \in 1 .. n
    BY <1>1
  <2> QED
    BY <1>2, <1>11, <2>1 DEF Good
<1>13. Len(Rule(r).tagsToAdd) = n
  <2>1. DOMAIN Rule(r).tagsToAdd = 1 .. n
    BY <1>12 DEF Rule, te
  <2>2. \E f : Rule(r).tagsToAdd = [i \in 1 .. n |-> f[i]]
    <3>1. Rule(r).tagsToAdd =
            [i \in 1 .. n |-> <<TagsOf(r)[i].members["tag"],
                                TagsOf(r)[i].members["value"].text>>]
      BY <1>12 DEF Rule, te, TagsOf
    <3> DEFINE f == [i \in 1 .. n |-> <<TagsOf(r)[i].members["tag"],
                                        TagsOf(r)[i].members["value"].text>>]
    <3>2. f = [i \in 1 .. n |-> f[i]]
      OBVIOUS
    <3> QED
      BY <3>1, <3>2
  <2> QED
    BY <1>1, <2>2
<1> QED
  BY <1>10, <1>13 DEF source, n

(* The rules that files hold with all that belongs to them.                 *)
WholeIn(v) ==
  {Rule(RulesIn(v)[j]) :
     j \in {i \in DOMAIN RulesIn(v) :
              /\ MemberError(RulesIn(v)[i], "source_comp_id", {"string"}) = "none"
              /\ Len(Rule(RulesIn(v)[i]).tagsToAdd) = Len(TagsOf(RulesIn(v)[i]))}}

WholeRules == UNION {WholeIn(file.json) : file \in Files \ {Missing, Broken}}

LEMMA RulesOfAreWhole ==
  ASSUME NEW file \in Files, file \notin {Missing, Broken}
  PROVE  RulesOf(file.json) \in Seq(WholeRules)
<1> DEFINE v == file.json
           rules == RulesIn(v)
           errors == RuleErrors(v)
<1>1. /\ Len(rules) \in Nat /\ DOMAIN rules = 1 .. Len(rules)
      /\ \A j \in 1 .. Len(rules) : IsList(TagsOf(rules[j]))
  BY FilesHaveLists, ListsAreLists
<1>2. /\ DOMAIN errors = 1 .. Len(rules)
      /\ \A j \in 1 .. Len(rules) : errors[j] = RuleError(rules[j])
  BY <1>1 DEF RuleErrors, RulesIn
<1>3. ListOf(errors, Len(rules))
  BY <1>1, <1>2 DEF ListOf
<1>4. PICK m \in Nat : Good(errors) = 1 .. m /\ Good(errors) \subseteq DOMAIN errors
  BY <1>3, GoodIsPrefix
<1>5. RulesOf(v) = [i \in 1 .. m |-> Rule(rules[i])]
  BY <1>4 DEF RulesOf, RulesIn
<1>6. ASSUME NEW i \in 1 .. m PROVE Rule(rules[i]) \in WholeRules
  <2>1. i \in 1 .. Len(rules) /\ errors[i] = "none"
    <3>1. i \in Good(errors) /\ i \in 1 .. i
      BY <1>4
    <3> QED
      BY <1>2, <1>4, <3>1 DEF Good
  <2>2. RuleError(rules[i]) = "none" /\ IsList(TagsOf(rules[i]))
    BY <1>1, <1>2, <2>1
  <2>3. /\ MemberError(rules[i], "source_comp_id", {"string"}) = "none"
        /\ Len(Rule(rules[i]).tagsToAdd) = Len(TagsOf(rules[i]))
    BY <2>2, ReadRulesAreWhole
  <2>4. Rule(rules[i]) \in WholeIn(v)
    BY <1>1, <2>1, <2>3 DEF WholeIn
  <2> QED
    BY <2>4 DEF WholeRules
<1> HIDE DEF rules
<1>7. [i \in 1 .. m |-> Rule(rules[i])] \in Seq(WholeRules)
  BY <1>4, <1>6
<1> QED
  BY <1>5, <1>7

(* RulesAreWhole says of each rule what WholeRules collects.                *)
RulesInv == routingRules \in Seq(WholeRules)

LEMMA RulesStep ==
  ASSUME RulesInv, [ConfigNext]_configVars
  PROVE  RulesInv'
<1>1. ASSUME NEW file \in Files, load(file) PROVE RulesInv'
  <2>1. /\ file \notin {Missing, Broken}
        /\ \/ routingRules' = routingRules \o <<>>
           \/ routingRules' = routingRules \o RulesOf(file.json)
    BY <1>1 DEF load
  <2>2. RulesOf(file.json) \in Seq(WholeRules) /\ <<>> \in Seq(WholeRules)
    BY <2>1, RulesOfAreWhole
  <2>3. PICK new \in Seq(WholeRules) : routingRules' = routingRules \o new
    BY <2>1, <2>2
  <2>4. routingRules \o new \in Seq(WholeRules)
    BY DEF RulesInv
  <2> QED
    BY <2>3, <2>4 DEF RulesInv
<1>2. ASSUME NEW file \in Files, Refused(file) \/ loadAllowedCompIds(file)
      PROVE  RulesInv'
  BY <1>2 DEF Refused, loadAllowedCompIds, RulesInv
<1>3. CASE ProgramEnded \/ UNCHANGED configVars
  BY <1>3 DEF ProgramEnded, configVars, RulesInv
<1> QED
  BY <1>1, <1>2, <1>3 DEF ConfigNext

LEMMA RulesSound == ConfigSpec => []RulesInv
<1>1. ConfigInit => RulesInv
  BY DEF ConfigInit, RulesInv
<1>2. RulesInv /\ [ConfigNext]_configVars => RulesInv'
  BY RulesStep
<1> QED
  BY <1>1, <1>2, PTL DEF ConfigSpec

(* Whatever is wrong with a file and wherever, and however often files are  *)
(* loaded, a rule that is kept is one of a file with every tag it has there *)
(* (ConfigManager.cpp:40-55).                                               *)
THEOREM KeptRulesAreWhole == ConfigSpec => []RulesAreWhole
<1>1. ASSUME RulesInv, NEW i \in DOMAIN routingRules
      PROVE  \E file \in Files \ {Missing, Broken} :
               \E j \in DOMAIN RulesIn(file.json) :
                 LET r == RulesIn(file.json)[j]
                 IN /\ MemberError(r, "source_comp_id", {"string"}) = "none"
                    /\ Rule(r) = routingRules[i]
                    /\ Len(routingRules[i].tagsToAdd) = Len(TagsOf(r))
  <2>1. routingRules[i] \in WholeRules
    BY <1>1 DEF RulesInv
  <2>2. PICK file \in Files \ {Missing, Broken} :
          routingRules[i] \in WholeIn(file.json)
    BY <2>1 DEF WholeRules
  <2>3. PICK j \in DOMAIN RulesIn(file.json) :
          /\ MemberError(RulesIn(file.json)[j], "source_comp_id", {"string"}) = "none"
          /\ Rule(RulesIn(file.json)[j]) = routingRules[i]
          /\ Len(Rule(RulesIn(file.json)[j]).tagsToAdd)
               = Len(TagsOf(RulesIn(file.json)[j]))
    BY <2>2 DEF WholeIn
  <2> QED
    BY <2>3
<1>2. RulesInv => RulesAreWhole
  BY <1>1 DEF RulesAreWhole, RulesIn, TagsOf
<1> QED
  BY <1>2, RulesSound, PTL

-----------------------------------------------------------------------------
(* What was read                                                            *)

(* If the loop through the texts of a member threw nothing, all of them are *)
(* strings and among the texts read.                                        *)
LEMMA AllTextsRead ==
  ASSUME NEW v, NEW k, contains(v, k), IsList(ElementsOf(v, k)),
         First(TextErrors(v, k)) = "none"
  PROVE  LET items == Elements(v.members[k])
         IN \A i \in DOMAIN items : IsString(items[i]) /\ items[i].text \in TextsOf(v, k)
<1> DEFINE items == ElementsOf(v, k)
           errors == TextErrors(v, k)
           n == Len(items)
<1>1. n \in Nat /\ DOMAIN items = 1 .. n
  BY ListsAreLists
<1>2. DOMAIN errors = 1 .. n /\ \A i \in 1 .. n : errors[i] = GetError(items[i], {"string"})
  BY <1>1 DEF TextErrors
<1>3. ListOf(errors, n)
  BY <1>1, <1>2 DEF ListOf
<1> HIDE DEF n
<1>4. Good(errors) = 1 .. n /\ \A i \in 1 .. n : errors[i] = "none"
  BY <1>3, NoneMeansAll
<1>5. ASSUME NEW i \in 1 .. n
      PROVE  IsString(items[i]) /\ items[i].text \in TextsOf(v, k)
  <2>1. GetError(items[i], {"string"}) = "none"
    BY <1>2, <1>4
  <2>2. items[i].type = "string"
    BY <2>1 DEF GetError
  <2>3. items[i].text \in TextsOf(v, k)
    BY <1>4 DEF TextsOf
  <2> QED
    BY <2>2, <2>3 DEF IsString
<1>6. items = Elements(v.members[k])
  BY DEF ElementsOf
<1> QED
  BY <1>1, <1>5, <1>6

(* First of a list that is joined from two says "none" only if both do.     *)
LEMMA NoneOfAll ==
  ASSUME NEW x, NEW y, NEW e, NEW n, ListOf(e, n), e = [i \in 1 .. n |-> e[i]],
         First(<<x, y>> \o e) = "none"
  PROVE  x = "none" /\ y = "none" /\ \A i \in 1 .. n : e[i] = "none"
<1> DEFINE E == {e[i] : i \in 1 .. n} \cup {x, y}
           all == <<x, y>> \o e
<1>1. n \in Nat
  BY DEF ListOf
<1>2. e \in [1 .. n -> E]
  OBVIOUS
<1>3. e \in Seq(E) /\ Len(e) = n
  BY <1>1, <1>2
<1>4. /\ <<x, y>> \in Seq(E) /\ Len(<<x, y>>) = 2
      /\ <<x, y>>[1] = x /\ <<x, y>>[2] = y
  OBVIOUS
<1>5. /\ DOMAIN all = 1 .. 2 + n /\ all[1] = x /\ all[2] = y
      /\ \A i \in 1 .. n : all[i + 2] = e[i]
  BY <1>1, <1>3, <1>4
<1> HIDE DEF all
<1>6. ListOf(all, 2 + n)
  BY <1>1, <1>5 DEF ListOf
<1>7. First(all) = "none"
  BY DEF all
<1>8. \A i \in 1 .. 2 + n : all[i] = "none"
  BY <1>6, <1>7, NoneMeansAll
<1>9. ASSUME NEW i \in 1 .. n PROVE e[i] = "none"
  <2>1. i + 2 \in 1 .. 2 + n
    BY <1>1
  <2> QED
    BY <1>5, <1>8, <2>1
<1> QED
  BY <1>1, <1>5, <1>8, <1>9

(* Every element of the list k of v is kept.                                *)
AllTaken(v, k) ==
  contains(v, k) => \A i \in DOMAIN Elements(v.members[k]) :
                      Taken(k, Elements(v.members[k])[i])

LEMMA IdsTaken ==
  ASSUME NEW v, IsList(ElementsOf(v, "allowed_comp_ids")),
         First(TextErrors(v, "allowed_comp_ids")) = "none",
         TextsOf(v, "allowed_comp_ids") \subseteq allowedCompIds'
  PROVE  AllTaken(v, "allowed_comp_ids")'
<1> SUFFICES ASSUME contains(v, "allowed_comp_ids"),
                    NEW i \in DOMAIN Elements(v.members["allowed_comp_ids"])
             PROVE  Taken("allowed_comp_ids", Elements(v.members["allowed_comp_ids"])[i])'
  BY DEF AllTaken
<1>1. /\ IsString(Elements(v.members["allowed_comp_ids"])[i])
      /\ Elements(v.members["allowed_comp_ids"])[i].text \in TextsOf(v, "allowed_comp_ids")
  BY AllTextsRead
<1> QED
  BY <1>1 DEF Taken, isCompIdAllowed

LEMMA TypesTaken ==
  ASSUME NEW v, IsList(ElementsOf(v, "supported_msg_types")),
         First(TextErrors(v, "supported_msg_types")) = "none",
         TextsOf(v, "supported_msg_types") \subseteq supportedMsgTypes'
  PROVE  AllTaken(v, "supported_msg_types")'
<1> SUFFICES ASSUME contains(v, "supported_msg_types"),
                    NEW i \in DOMAIN Elements(v.members["supported_msg_types"])
             PROVE  Taken("supported_msg_types",
                          Elements(v.members["supported_msg_types"])[i])'
  BY DEF AllTaken
<1>1. /\ IsString(Elements(v.members["supported_msg_types"])[i])
      /\ Elements(v.members["supported_msg_types"])[i].text
           \in TextsOf(v, "supported_msg_types")
  BY AllTextsRead
<1> QED
  BY <1>1 DEF Taken

(* If no rule of a file has an error, its rules are read to the last, with  *)
(* their tags.                                                              *)
LEMMA AllRulesRead ==
  ASSUME NEW file \in Files, file \notin {Missing, Broken},
         \A i \in 1 .. Len(RulesIn(file.json)) : RuleErrors(file.json)[i] = "none"
  PROVE  /\ DOMAIN RulesOf(file.json) = DOMAIN RulesIn(file.json)
         /\ \A i \in DOMAIN RulesIn(file.json) :
              /\ RulesOf(file.json)[i] = Rule(RulesIn(file.json)[i])
              /\ Len(Rule(RulesIn(file.json)[i]).tagsToAdd)
                   = Len(TagsOf(RulesIn(file.json)[i]))
<1> DEFINE rules == RulesIn(file.json)
           errors == RuleErrors(file.json)
<1>1. /\ Len(rules) \in Nat /\ DOMAIN rules = 1 .. Len(rules)
      /\ \A j \in 1 .. Len(rules) : IsList(TagsOf(rules[j]))
  BY FilesHaveLists, ListsAreLists
<1>2. /\ DOMAIN errors = 1 .. Len(rules)
      /\ \A j \in 1 .. Len(rules) : errors[j] = RuleError(rules[j])
  BY <1>1 DEF RuleErrors, RulesIn
<1>3. Good(errors) = 1 .. Len(rules)
  <2>1. \A i \in 1 .. Len(rules) : \A j \in 1 .. i : j \in 1 .. Len(rules)
    BY <1>1
  <2> QED
    BY <1>2, <2>1 DEF Good
<1>4. RulesOf(file.json) = [i \in 1 .. Len(rules) |-> Rule(rules[i])]
  BY <1>3 DEF RulesOf, RulesIn
<1>5. ASSUME NEW i \in 1 .. Len(rules)
      PROVE  Len(Rule(rules[i]).tagsToAdd) = Len(TagsOf(rules[i]))
  <2>1. RuleError(rules[i]) = "none" /\ IsList(TagsOf(rules[i]))
    BY <1>1, <1>2
  <2> QED
    BY <2>1, ReadRulesAreWhole
<1> QED
  BY <1>1, <1>4, <1>5

LEMMA RulesTaken ==
  ASSUME RulesInv, NEW file \in Files, file \notin {Missing, Broken},
         \A i \in 1 .. Len(RulesIn(file.json)) : RuleErrors(file.json)[i] = "none",
         routingRules' = routingRules \o RulesOf(file.json)
  PROVE  AllTaken(file.json, "routing_rules")'
<1> DEFINE v == file.json
           rules == RulesIn(v)
           new == RulesOf(v)
<1>1. new \in Seq(WholeRules) /\ routingRules \in Seq(WholeRules)
  BY RulesOfAreWhole DEF RulesInv
<1>2. /\ DOMAIN new = DOMAIN rules
      /\ \A i \in DOMAIN rules : /\ new[i] = Rule(rules[i])
                                 /\ Len(Rule(rules[i]).tagsToAdd) = Len(TagsOf(rules[i]))
  BY AllRulesRead
<1>3. ASSUME NEW i \in DOMAIN rules
      PROVE  \E j \in DOMAIN routingRules' :
               /\ routingRules'[j] = Rule(rules[i])
               /\ Len(routingRules'[j].tagsToAdd) = Len(TagsOf(rules[i]))
  <2>1. i \in DOMAIN new
    BY <1>2
  <2> HIDE DEF new
  <2>2. i \in 1 .. Len(new) /\ Len(routingRules) \in Nat
    BY <1>1, <2>1
  <2>3. /\ Len(routingRules) + i \in DOMAIN (routingRules \o new)
        /\ (routingRules \o new)[Len(routingRules) + i] = new[i]
    BY <1>1, <2>2
  <2> QED
    BY <1>2, <2>3 DEF new
<1>4. ASSUME contains(v, "routing_rules"),
             NEW i \in DOMAIN Elements(v.members["routing_rules"])
      PROVE  Taken("routing_rules", Elements(v.members["routing_rules"])[i])'
  <2>1. rules = Elements(v.members["routing_rules"])
    BY <1>4 DEF RulesIn, ElementsOf
  <2>2. PICK j \in DOMAIN routingRules' :
               /\ routingRules'[j] = Rule(rules[i])
               /\ Len(routingRules'[j].tagsToAdd) = Len(TagsOf(rules[i]))
    BY <1>3, <1>4, <2>1
  <2> QED
    BY <2>1, <2>2 DEF Taken, TagsOf
<1> QED
  BY <1>4 DEF AllTaken

(* The last call, if it threw nothing, kept every element of its lists.     *)
LoadedInv == error = "none" => \A k \in lists : AllTaken(loaded.json, k)

LEMMA LoadedStep ==
  ASSUME RulesInv, LoadedInv, [ConfigNext]_configVars
  PROVE  LoadedInv'
<1>1. ASSUME NEW file \in Files, load(file), error' = "none"
      PROVE  \A k \in lists' : AllTaken(loaded.json, k)'
  <2> DEFINE v == file.json
             ids == First(TextErrors(v, "allowed_comp_ids"))
             types == First(TextErrors(v, "supported_msg_types"))
             errors == RuleErrors(v)
             n == Len(RulesIn(v))
  <2>1. /\ file \notin {Missing, Broken} /\ loaded' = file /\ lists' = AllLists
        /\ First(<<ids, types>> \o errors) = "none"
        /\ TextsOf(v, "allowed_comp_ids") \subseteq allowedCompIds'
        /\ supportedMsgTypes' = supportedMsgTypes \cup
             (IF ids # "none" THEN {} ELSE TextsOf(v, "supported_msg_types"))
        /\ routingRules' = routingRules \o
             (IF First(<<ids, types>>) # "none" THEN <<>> ELSE RulesOf(v))
    BY <1>1 DEF load, Loads
  <2>2. /\ IsList(ElementsOf(v, "allowed_comp_ids"))
        /\ IsList(ElementsOf(v, "supported_msg_types"))
        /\ IsList(RulesIn(v))
    BY <2>1, FilesHaveLists
  <2>3. ListOf(errors, n) /\ errors = [i \in 1 .. n |-> errors[i]]
    BY <2>2, ListsAreLists DEF RuleErrors, RulesIn, ListOf
  <2> HIDE DEF ids, types, errors, n
  <2>4. ids = "none" /\ types = "none" /\ \A i \in 1 .. n : errors[i] = "none"
    BY <2>1, <2>3, NoneOfAll
  <2>5. First(<<ids, types>>) = "none"
    <3>1. Good(<<ids, types>>) = DOMAIN <<ids, types>>
      BY <2>4 DEF Good
    <3> QED
      BY <3>1 DEF First
  <2>6. AllTaken(v, "allowed_comp_ids")'
    BY <2>1, <2>2, <2>4, IdsTaken DEF ids
  <2>7. AllTaken(v, "supported_msg_types")'
    BY <2>1, <2>2, <2>4, TypesTaken DEF types
  <2>8. AllTaken(v, "routing_rules")'
    BY <2>1, <2>4, <2>5, RulesTaken DEF errors, n
  <2> QED
    BY <2>1, <2>6, <2>7, <2>8 DEF AllLists
<1>2. ASSUME NEW file \in Files, loadAllowedCompIds(file), error' = "none"
      PROVE  \A k \in lists' : AllTaken(loaded.json, k)'
  <2>1. /\ file \notin {Missing, Broken} /\ loaded' = file
        /\ lists' = {"allowed_comp_ids"}
        /\ TextsOf(file.json, "allowed_comp_ids") \subseteq allowedCompIds'
        /\ First(TextErrors(file.json, "allowed_comp_ids")) = "none"
    BY <1>2 DEF loadAllowedCompIds, Loads
  <2>2. IsList(ElementsOf(file.json, "allowed_comp_ids"))
    BY <2>1, FilesHaveLists
  <2>3. AllTaken(file.json, "allowed_comp_ids")'
    BY <2>1, <2>2, IdsTaken
  <2> QED
    BY <2>1, <2>3
<1>3. ASSUME NEW file \in Files, Refused(file) PROVE LoadedInv'
  BY <1>3 DEF Refused, LoadedInv
<1>4. CASE ProgramEnded \/ UNCHANGED configVars
  <2>1. UNCHANGED configVars
    BY <1>4 DEF ProgramEnded
  <2>2. /\ error' = error /\ loaded' = loaded /\ lists' = lists
        /\ allowedCompIds' = allowedCompIds /\ supportedMsgTypes' = supportedMsgTypes
        /\ routingRules' = routingRules
    BY <2>1 DEF configVars
  <2>3. ASSUME NEW k, NEW item, Taken(k, item) PROVE Taken(k, item)'
    BY <2>2, <2>3 DEF Taken, isCompIdAllowed
  <2>4. ASSUME NEW v, NEW k, AllTaken(v, k) PROVE AllTaken(v, k)'
    BY <2>3, <2>4 DEF AllTaken
  <2> QED
    BY <2>2, <2>4 DEF LoadedInv
<1> QED
  BY <1>1, <1>2, <1>3, <1>4 DEF ConfigNext, LoadedInv

(* A call that reports nothing has read every CompID, every type and every  *)
(* rule of the lists it goes through, and they are all in force: an error   *)
(* in the middle never passes for success (ConfigManager.cpp:25-55, :72-76).*)
THEOREM SuccessSkipsNothing == ConfigSpec => []NothingSkipped
<1>1. ConfigInit => LoadedInv
  BY DEF ConfigInit, LoadedInv
<1>2. RulesInv /\ LoadedInv /\ [ConfigNext]_configVars => LoadedInv'
  BY LoadedStep
<1>3. LoadedInv => NothingSkipped
  BY DEF LoadedInv, NothingSkipped, AllTaken
<1> QED
  BY <1>1, <1>2, <1>3, RulesSound, PTL DEF ConfigSpec

-----------------------------------------------------------------------------
(* Loading again                                                            *)

(* The rules of a source that has one are looked up as before when others   *)
(* come behind them.                                                        *)
LEMMA RulesBehindDoNotCount ==
  ASSUME NEW T, NEW rules \in Seq(T), NEW new \in Seq(T), NEW c,
         NEW h \in DOMAIN rules, rules[h].sourceCompId = c
  PROVE  getRoutingRule(rules, c) = getRoutingRule(rules \o new, c)
<1> DEFINE all == rules \o new
           n == Len(rules)
           Own(rs) == {j \in DOMAIN rs : /\ rs[j].sourceCompId = c
                                         /\ \A k \in 1 .. j - 1 : rs[k].sourceCompId # c}
<1>1. /\ n \in Nat /\ Len(new) \in Nat
      /\ DOMAIN rules = 1 .. n /\ DOMAIN all = 1 .. n + Len(new)
      /\ \A i \in 1 .. n : all[i] = rules[i]
  OBVIOUS
<1>2. h \in 1 .. n
  BY <1>1
<1> HIDE DEF all, n
<1>3. ASSUME NEW j \in Own(rules) PROVE j \in Own(all) /\ all[j] = rules[j]
  <2>1. j \in 1 .. n /\ rules[j].sourceCompId = c
    BY <1>1
  <2>2. j \in DOMAIN all
    BY <1>1, <2>1
  <2>3. ASSUME NEW k \in 1 .. j - 1 PROVE all[k].sourceCompId # c
    <3>1. k \in 1 .. n
      BY <1>1, <2>1
    <3> QED
      BY <1>1, <3>1
  <2> QED
    BY <1>1, <2>1, <2>2, <2>3
<1>4. ASSUME NEW j \in Own(all) PROVE j \in Own(rules) /\ all[j] = rules[j]
  <2>1. /\ j \in 1 .. n + Len(new) /\ all[j].sourceCompId = c
        /\ \A k \in 1 .. j - 1 : all[k].sourceCompId # c
    BY <1>1
  <2>2. j \in 1 .. n
    <3>1. SUFFICES ASSUME j \notin 1 .. n PROVE FALSE
      OBVIOUS
    <3>2. h \in 1 .. j - 1
      BY <1>1, <1>2, <2>1, <3>1
    <3>3. all[h].sourceCompId = c
      BY <1>1, <1>2
    <3> QED
      BY <2>1, <3>2, <3>3
  <2>3. ASSUME NEW k \in 1 .. j - 1 PROVE rules[k].sourceCompId # c
    <3>1. k \in 1 .. n
      BY <1>1, <2>2
    <3> QED
      BY <1>1, <2>1, <3>1
  <2> QED
    BY <1>1, <2>1, <2>2, <2>3
<1> DEFINE A == Own(rules)
           B == Own(all)
<1>5. \A j \in A : j \in B /\ all[j] = rules[j]
  BY <1>3
<1>6. \A j \in B : j \in A /\ all[j] = rules[j]
  BY <1>4
<1> HIDE DEF A, B, Own
<1>7. {rules[i] : i \in A} = {all[i] : i \in B}
  BY <1>5, <1>6
<1> QED
  BY <1>7 DEF getRoutingRule, all, A, B, Own

(* What a load does to what was there.                                      *)
Adds ==
  /\ allowedCompIds \subseteq allowedCompIds'
  /\ supportedMsgTypes \subseteq supportedMsgTypes'
  /\ \A c \in Sources :
       getRoutingRule(routingRules, c) = getRoutingRule(routingRules', c)

(* Whatever is loaded after, with or without errors, a CompID or a type     *)
(* that is allowed stays so, and a source keeps the rule it has             *)
(* (ConfigManager.cpp:16-62, :78-90).                                       *)
THEOREM LoadingOnlyAdds == ConfigSpec => LoadsOnlyAdd
<1>1. ASSUME RulesInv, ConfigNext PROVE Adds
  <2>1. ASSUME NEW file \in Files, load(file) PROVE Adds
    <3>1. /\ file \notin {Missing, Broken}
          /\ \/ routingRules' = routingRules \o <<>>
             \/ routingRules' = routingRules \o RulesOf(file.json)
      BY <2>1 DEF load
    <3>2. RulesOf(file.json) \in Seq(WholeRules) /\ <<>> \in Seq(WholeRules)
      BY <3>1, RulesOfAreWhole
    <3>3. PICK new \in Seq(WholeRules) : routingRules' = routingRules \o new
      BY <3>1, <3>2
    <3>4. ASSUME NEW c \in Sources
          PROVE  getRoutingRule(routingRules, c) = getRoutingRule(routingRules', c)
      <4>1. PICK h \in DOMAIN routingRules : routingRules[h].sourceCompId = c
        BY DEF Sources
      <4>2. getRoutingRule(routingRules, c) = getRoutingRule(routingRules \o new, c)
        BY <1>1, <4>1, RulesBehindDoNotCount DEF RulesInv
      <4> QED
        BY <3>3, <4>2
    <3>5. /\ allowedCompIds \subseteq allowedCompIds'
          /\ supportedMsgTypes \subseteq supportedMsgTypes'
      BY <2>1 DEF load
    <3> QED
      BY <3>4, <3>5 DEF Adds
  <2>2. ASSUME NEW file \in Files, Refused(file) \/ loadAllowedCompIds(file) PROVE Adds
    BY <2>2 DEF Refused, loadAllowedCompIds, Adds
  <2>3. CASE ProgramEnded
    BY <2>3 DEF ProgramEnded, configVars, Adds
  <2> QED
    BY <1>1, <2>1, <2>2, <2>3 DEF ConfigNext
<1>2. RulesInv /\ [ConfigNext]_configVars => [Adds]_configVars
  BY <1>1
<1> QED
  BY <1>2, RulesSound, PTL DEF ConfigSpec, LoadsOnlyAdd, Adds
=============================================================================
