---------------------------- MODULE FixMessageCodec ----------------------------
(***************************************************************************)
(* parseFixMessage and serializeFixMessage of the hub (FixServer.cpp), and *)
(* the way of a message through both: parsed, the routing rule's tags set, *)
(* serialized, and parsed by whoever receives it.                          *)
(*                                                                         *)
(* A text is a sequence of characters, a character its value as a signed   *)
(* char: BodyLength, CheckSum and the integers in front of "=" are about   *)
(* characters.                                                             *)
(***************************************************************************)
EXTENDS FixHelper, Sequences, SequencesExt, FiniteSetsExt

CONSTANTS
  MaxInt,       (* the largest int                                          *)
  Texts,        (* what may arrive                                          *)
  CustomTags    (* the tagsToAdd a rule may have: sequences of <<tag, text>>*)

Ints  == -MaxInt - 1 .. MaxInt
Chars == -128 .. 127

ASSUME CodecAssumption ==
  /\ MaxInt \in Nat /\ MaxInt > 255
  /\ Texts \subseteq Seq(Chars)
  /\ CustomTags \subseteq Seq(Ints \X Seq(Chars))

SOH    == 1
Equals == 61
Zero   == 48
Plus   == 43
Minus  == 45
DigitChars == Zero .. Zero + 9
Blanks     == 9 .. 13 \cup {32}

-----------------------------------------------------------------------------
(* std::to_string and std::stoi                                             *)

NatText[n \in Nat] ==
  IF n < 10 THEN <<Zero + n>> ELSE Append(NatText[n \div 10], Zero + (n % 10))
IntText(n) == IF n < 0 THEN <<Minus>> \o NatText[-n] ELSE NatText[n]

DigitsValue(digits) == FoldLeft(LAMBDA v, c : 10 * v + (c - Zero), 0, digits)

(* How many characters at the beginning are among C.                        *)
Leading(chars, C) == Max({k \in 0 .. Len(chars) : \A i \in 1 .. k : chars[i] \in C})

(* stoi skips blanks, reads a sign and as many digits as follow, and        *)
(* ignores the rest; it throws where there is no digit and where the number *)
(* is no int.                                                               *)
NoInteger == MaxInt + 1
Stoi(chars) ==
  LET word   == SubSeq(chars, Leading(chars, Blanks) + 1, Len(chars))
      signed == word # <<>> /\ Head(word) \in {Plus, Minus}
      digits == IF signed THEN Tail(word) ELSE word
      n      == Leading(digits, DigitChars)
      size   == DigitsValue(SubSeq(digits, 1, n))
      value  == IF signed /\ Head(word) = Minus THEN -size ELSE size
  IN IF n = 0 \/ value \notin Ints THEN NoInteger ELSE value

-----------------------------------------------------------------------------
(* parseFixMessage                                                          *)

NoFields == [tag \in {} |-> <<>>]
ValueOf(m, tag) == IF tag \in DOMAIN m THEN m[tag] ELSE <<>>

(* The fields std::getline finds: what is before each SOH, and the rest.    *)
Fields(chars) ==
  LET Read(acc, c) == IF c = SOH THEN Append(acc, <<>>)
                      ELSE [acc EXCEPT ![Len(acc)] = Append(@, c)]
  IN FoldLeft(Read, << <<>> >>, chars)

(* Faulty variant: the value begins with the "=".                           *)
TakeField_KeepsEquals(m, field) ==
  LET at  == SelectInSeq(field, LAMBDA c : c = Equals)
      tag == Stoi(SubSeq(field, 1, at - 1))
  IN IF at = 0 \/ tag = NoInteger THEN m ELSE SetTagValue(m, tag, SubSeq(field, at, Len(field)))

TakeField(m, field) ==
  LET at  == SelectInSeq(field, LAMBDA c : c = Equals)
      tag == Stoi(SubSeq(field, 1, at - 1))
  IN IF at = 0 \/ tag = NoInteger THEN m ELSE SetTagValue(m, tag, SubSeq(field, at + 1, Len(field)))

Parse(chars) == FoldLeft(TakeField, NoFields, Fields(chars))

-----------------------------------------------------------------------------
(* serializeFixMessage                                                      *)

FieldText(tag, value) == IntText(tag) \o <<Equals>> \o value \o <<SOH>>

Header == {8, 9, 10}

(* The tags of a std::map in their order: tag i has i-1 tags below it.      *)
InOrder(tags) ==
  [i \in 1 .. Cardinality(tags) |->
     CHOOSE t \in tags : Cardinality({u \in tags : u < t}) = i - 1]

Body(m) ==
  LET tags == InOrder(DOMAIN m \ Header)
  IN FlattenSeq([i \in DOMAIN tags |-> FieldText(tags[i], m[tags[i]])])

(* The sum of the chars, in an int that wraps when it overflows, and C++'s  *)
(* remainder, which has its sign.                                           *)
CharSum(chars) == FoldLeft(+, 0, chars)
Wrapped(n) == ((n + MaxInt + 1) % (2 * (MaxInt + 1))) - (MaxInt + 1)
Remainder(n, d) == IF n < 0 THEN -((-n) % d) ELSE n % d

(* setw(3) and setfill('0')                                                 *)
Padded(chars) == [i \in 1 .. 3 - Len(chars) |-> Zero] \o chars

(* Faulty variant: the CheckSum is that of the body.                        *)
Serialize_BodySum(m) ==
  LET body   == Body(m)
      length == IntText(Len(body))
      begin  == FieldText(8, ValueOf(m, 8)) \o FieldText(9, length)
      check  == Padded(IntText(Remainder(Wrapped(CharSum(body)), 256)))
  IN [fields |-> SetTagValue(SetTagValue(SetTagValue(m, 8, ValueOf(m, 8)), 9, length), 10, check),
      text |-> begin \o body \o FieldText(10, check)]

(* The text, and the message with the tags that are set on the way.         *)
Serialize(m) ==
  LET body   == Body(m)
      length == IntText(Len(body))
      begin  == FieldText(8, ValueOf(m, 8)) \o FieldText(9, length)
      check  == Padded(IntText(Remainder(Wrapped(CharSum(begin \o body)), 256)))
  IN [fields |-> SetTagValue(SetTagValue(SetTagValue(m, 8, ValueOf(m, 8)), 9, length), 10, check),
      text |-> begin \o body \o FieldText(10, check)]

-----------------------------------------------------------------------------
(* A message on its way.                                                    *)

VARIABLES stage, text, fields, received

codecVars == <<stage, text, fields, received>>

CodecInit ==
  /\ stage = "raw" /\ text \in Texts
  /\ fields = NoFields /\ received = NoFields

ParseMessage ==
  /\ stage = "raw" /\ stage' = "parsed"
  /\ fields' = Parse(text)
  /\ UNCHANGED <<text, received>>

SetCustomTags ==
  /\ stage = "parsed" /\ stage' = "tagged"
  /\ \E tags \in CustomTags :
       fields' = FoldLeft(LAMBDA m, t : SetTagValue(m, t[1], t[2]), fields, tags)
  /\ UNCHANGED <<text, received>>

SerializeMessage ==
  /\ stage = "tagged" /\ stage' = "serialized"
  /\ LET out == Serialize(fields) IN fields' = out.fields /\ text' = out.text
  /\ UNCHANGED received

Receive ==
  /\ stage = "serialized" /\ stage' = "received"
  /\ received' = Parse(text)
  /\ UNCHANGED <<text, fields>>

Done == stage = "received" /\ UNCHANGED codecVars

CodecNext == ParseMessage \/ SetCustomTags \/ SerializeMessage \/ Receive \/ Done

CodecSpec == CodecInit /\ [][CodecNext]_codecVars

-----------------------------------------------------------------------------
(* Properties                                                               *)

(* Values without SOH. A rule's tagsToAdd are set as the configuration has  *)
(* them (FixServer.cpp:223); a value with an SOH would end its field in the *)
(* text and begin another, so what a rule adds is read back only where its  *)
(* values have none.                                                        *)
FreeChars == Chars \ {SOH}
FreeText  == Seq(FreeChars)
TagsAreFixText == CustomTags \subseteq Seq(Ints \X FreeText)

(* What is serialized is read back as it was: no field is lost, split or    *)
(* merged, whatever was in the text the hub parsed (FixServer.cpp:249-304). *)
ReadBackAsWritten == stage = "received" => received = fields

Outgoing == stage \in {"serialized", "received"}

(* Where the body begins and ends in the text: behind the field of tag 9,   *)
(* before that of tag 10.                                                   *)
BodyStart == LET soh == {i \in 1 .. Len(text) : text[i] = SOH}
             IN Min(soh \ {Min(soh)}) + 1
CheckStart == Len(text) - (3 + Len(fields[10]))

(* The receiver can check what the hub sends, also when the message came in *)
(* with a BodyLength or a CheckSum of its own: BodyLength is the number of  *)
(* characters between tag 9 and tag 10, and CheckSum the sum of the bytes   *)
(* before it, modulo 256, as long as every byte is below 128 and their sum  *)
(* is an int (FixServer.cpp:268-304).                                       *)
ReceiverCanCheck ==
  LET summed == SubSeq(text, 1, CheckStart - 1)
  IN Outgoing =>
       /\ Stoi(fields[9]) = CheckStart - BodyStart
       /\ (\A i \in 1 .. Len(text) : text[i] >= 0) /\ CharSum(summed) \in Ints =>
            Stoi(fields[10]) = FoldLeft(LAMBDA s, c : (s + c) % 256, 0, summed)
=============================================================================
