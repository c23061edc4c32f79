------------------------------- MODULE MCHelpers -------------------------------
(***************************************************************************)
(* Instances, for TLC, of the components that the hub and the clients are  *)
(* made of besides the ones that MCFixServer, MCHub and MCMessageStore     *)
(* have.  They share no variable, so they are checked side by side: `part' *)
(* says which of them a behaviour is of, and the variables of the others   *)
(* stay as they are at the beginning.                                      *)
(***************************************************************************)
EXTENDS PacketFraming, StatusSignal, Logger, FixCoder, FixMessageCodec,
        FixSessionVerity, ConfigManager, TLC

VARIABLE part

allVars == <<part, framingVars, signalVars, loggerVars, coderVars, codecVars,
             verityVars, configVars>>

MCInit ==
  /\ part \in {"framing", "signal", "logger", "coder", "codec", "verity", "config"}
  /\ FramingInit /\ SignalInit /\ LoggerInit /\ CoderInit /\ VerityInit /\ ConfigInit
  /\ CodecInit /\ (part # "codec" => text = <<>>)

FramingRuns ==
  /\ part = "framing" /\ FramingNext
  /\ UNCHANGED <<signalVars, loggerVars, coderVars, codecVars, verityVars, configVars>>
SignalRuns ==
  /\ part = "signal" /\ SignalNext
  /\ UNCHANGED <<framingVars, loggerVars, coderVars, codecVars, verityVars, configVars>>
LoggerRuns ==
  /\ part = "logger" /\ LoggerNext
  /\ UNCHANGED <<framingVars, signalVars, coderVars, codecVars, verityVars, configVars>>
CoderRuns ==
  /\ part = "coder" /\ CoderNext
  /\ UNCHANGED <<framingVars, signalVars, loggerVars, codecVars, verityVars, configVars>>
CodecRuns ==
  /\ part = "codec" /\ CodecNext
  /\ UNCHANGED <<framingVars, signalVars, loggerVars, coderVars, verityVars, configVars>>
VerityRuns ==
  /\ part = "verity" /\ VerityNext
  /\ UNCHANGED <<framingVars, signalVars, loggerVars, coderVars, codecVars, configVars>>
ConfigRuns ==
  /\ part = "config" /\ ConfigNext
  /\ UNCHANGED <<framingVars, signalVars, loggerVars, coderVars, codecVars, verityVars>>

MCNext ==
  /\ UNCHANGED part
  /\ \/ FramingRuns \/ SignalRuns \/ LoggerRuns \/ CoderRuns \/ CodecRuns
     \/ VerityRuns \/ ConfigRuns

MCSpec == MCInit /\ [][MCNext]_allVars /\ SignalFairness

-----------------------------------------------------------------------------
(* Framing: with five bits an int goes from -16 to 15, so messages of up to *)
(* 11 bytes, with their headers the largest that fit, stand for those below *)
(* 2^31 - 4.                                                                *)
ShortLengths == {0, 1, 3, 11}

-----------------------------------------------------------------------------
InfoAndError == {INFO, ERROR}

-----------------------------------------------------------------------------
CONSTANTS a, b, x, y

AllRoutes == {a, b} \X {x, y}

(* A full message, one whose receiver may be unknown, one without sender,   *)
(* one without receiver.                                                    *)
Samples == {(TAG_SENDER_COMP_ID :> a @@ TAG_DELIVER_TO_COMP_ID :> x),
            (TAG_SENDER_COMP_ID :> b @@ TAG_DELIVER_TO_COMP_ID :> y),
            (TAG_DELIVER_TO_COMP_ID :> x),
            (TAG_SENDER_COMP_ID :> a)}

-----------------------------------------------------------------------------
(* 8=F 35=D 11=O 9=1 10=7 and a tag given twice, with an "=" in its value;  *)
(* no "=", no tag, a negative tag, a tag that is too large, 3x=D, and 58=   *)
(* with characters above 127, as in a text that is not ASCII.               *)
F8  == <<56, 61, 70>>
F35 == <<51, 53, 61, 68>>
F11 == <<49, 49, 61, 79>>
F9  == <<57, 61, 49>>
F10 == <<49, 48, 61, 55>>
F35Again == <<51, 53, 61, 61, 56>>
NoEquals == <<51, 53>>
NoTag    == <<61, 68>>
Negative == <<45, 51, 61, 68>>
TooLarge == <<52, 48, 57, 54, 61, 68>>
NotAnInteger == <<51, 120, 61, 68>>
HighBytes == <<53, 56, 61>> \o [i \in 1 .. 24 |-> -61]

Joined(list) == FlattenSeq([i \in 1 .. Len(list) |-> Append(list[i], SOH)])
AllTexts ==
  LET all == {F8, F35, F11, F9, F10, F35Again, NoEquals, NoTag, Negative, TooLarge,
              NotAnInteger, HighBytes}
  IN {Joined(list) : list \in UNION {[1 .. n -> all] : n \in 0 .. 3}}

(* No tag, a new one, one that is there, and BodyLength itself.             *)
Rules == {<<>>, << <<58, <<90>> >> >>, << <<35, <<90>> >>, <<9, <<57>> >> >>}

(* What the theorems about the codec suppose holds of these rules.          *)
ASSUME RulesAreFixText == TagsAreFixText

-----------------------------------------------------------------------------
Names == <<"add_tags", "allowed_comp_ids", "routing_rules", "source_comp_id",
           "supported_msg_types", "tag", "value">>

TextA == String("a")
Tag == Object("tag" :> Number(1) @@ "value" :> String("x"))
HalfTag == Object("tag" :> Number(2))
RuleFor(c, tags) == Object("source_comp_id" :> c @@ "add_tags" :> tags)

IdLists   == {Null, TextA, Array(<<TextA, String("b")>>),
              Array(<<TextA, Number(1), String("b")>>)}
TypeLists == {Null, Array(<<String("d")>>), Array(<<Null>>)}
RuleLists ==
  {Null, Array(<<RuleFor(TextA, Null)>>),
   Array(<<RuleFor(TextA, Array(<<Tag, Tag>>)), RuleFor(String("b"), Tag)>>),
   Array(<<RuleFor(TextA, Array(<<Tag, Null>>))>>),
   Array(<<RuleFor(TextA, Array(<<Tag, HalfTag>>))>>), Array(<<EmptyObject>>)}

SomeFiles ==
  {Missing, Broken, File(Null), File(Array(<<TextA>>)), File(EmptyObject)}
    \cup {File(Object("allowed_comp_ids" :> ids @@ "supported_msg_types" :> types
                             @@ "routing_rules" :> rules)) :
          ids \in IdLists, types \in TypeLists, rules \in RuleLists}
=============================================================================
