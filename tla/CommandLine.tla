----------------------------- MODULE CommandLine ----------------------------
(***************************************************************************)
(* What a run is asked to do: CArgumentParser::Parse over wmain's options, *)
(* and wmain's checks of what was set.                                     *)
(*                                                                         *)
(* An argument is what isLongCommand and isShortCommand tell apart: a long *)
(* command (--name or --name=value), letters behind one dash, or plain     *)
(* text ("-" and "--" are).  Texts are told apart by what is asked of      *)
(* them: whether they are empty, end in ".json" or end in "=".  No option  *)
(* of wmain that takes a value has a letter.                               *)
(***************************************************************************)
EXTENDS Integers, FiniteSets, SequencesExt

CONSTANT NoValue  (* of a long command without "="                         *)

Texts == {"", "x.json", "x", "x="}

InputOptions == {"register_input", "register_output", "listen_input", "log_folder"}
FlagOfLetter == [r |-> "register", l |-> "listen", h |-> "help", v |-> "version"]
Letters      == DOMAIN FlagOfLetter
Names        == InputOptions \cup {FlagOfLetter[c] : c \in Letters}

Long(name, value) == [form |-> "long", name |-> name, value |-> value]
Short(letters)    == [form |-> "short", letters |-> letters]
Plain(text)       == [form |-> "plain", text |-> text]

ASSUME NoValueAssumption == NoValue \notin Texts

-----------------------------------------------------------------------------
(* Parse.  A state of it: the argument it is at, the options' wasSet and   *)
(* value, the positional arguments, and the error, if any.                 *)

NoError == [result |-> "ParseSuccessful", command |-> ""]

Reset == [index |-> 1, wasSet |-> [o \in Names |-> 0], value |-> [o \in Names |-> ""],
          positionalArgsValues |-> <<>>, errorText |-> NoError]

Fail(s, why, command) == [s EXCEPT !.errorText = [result |-> why, command |-> command]]

(* (A slip: an option that was set is set, however often.)                 *)
SlipSetsOnce(s, o) == [s EXCEPT !.wasSet[o] = 1]

SetOption(s, o) == [s EXCEPT !.wasSet[o] = @ + 1]

(* (A slip: what follows is the value, whatever it is.)                    *)
SlipTakesAnything(argv, s, o) ==
  IF s.index = Len(argv) THEN Fail(s, "NoValueWasPassedToOption", o)
  ELSE SetOption([s EXCEPT !.index = @ + 1,
                           !.value[o] = IF argv[s.index + 1].form = "plain"
                                          THEN argv[s.index + 1].text ELSE "x"], o)

(* The value is the next argument, unless that is a command. *)
TakeNext(argv, s, o) ==
  IF s.index = Len(argv) \/ argv[s.index + 1].form # "plain"
    THEN Fail(s, "NoValueWasPassedToOption", o)
    ELSE SetOption([s EXCEPT !.index = @ + 1, !.value[o] = argv[s.index + 1].text], o)

(* Whether there is a value behind "=" is asked by comparing the last      *)
(* character with "=".                                                     *)
LooksMissing(text) == text \in {"", "x="}

ParseLongCommand(argv, s) ==
  LET name  == argv[s.index].name
      value == argv[s.index].value
  IN CASE name \notin Names -> Fail(s, "InvalidOption", name)
       [] name \in Names \ InputOptions ->
            IF value = NoValue THEN SetOption(s, name)
            ELSE Fail(s, "ValuePassedToOptionThatDoesNotTakeValue", name)
       [] name \in InputOptions /\ value = NoValue -> TakeNext(argv, s, name)
       [] OTHER ->
            IF LooksMissing(value) THEN Fail(s, "NoValueWasPassedToOption", name)
            ELSE SetOption([s EXCEPT !.value[name] = value], name)

ReadLetter(s, c) ==
  IF s.errorText # NoError THEN s
  ELSE IF c \in Letters THEN SetOption(s, FlagOfLetter[c])
  ELSE Fail(s, "InvalidOption", c)

(* Letter by letter, up to the first that is unknown. *)
ParseShortCommand(argv, s) ==
  LET letters == argv[s.index].letters
      after[k \in 0 .. Len(letters)] ==
        IF k = 0 THEN s ELSE ReadLetter(after[k - 1], letters[k])
  IN  after[Len(letters)]

ParseArgument(argv, s) ==
  CASE argv[s.index].form = "long"  -> ParseLongCommand(argv, s)
    [] argv[s.index].form = "short" -> ParseShortCommand(argv, s)
    [] OTHER -> [s EXCEPT !.positionalArgsValues = Append(@, argv[s.index].text)]

(* One round of the loop, if it has not ended. *)
ParseNext(argv, s) ==
  IF s.errorText # NoError \/ s.index > Len(argv) THEN s
  ELSE LET t == ParseArgument(argv, s) IN [t EXCEPT !.index = @ + 1]

Parse(argv) ==
  LET after[n \in 0 .. Len(argv)] == IF n = 0 THEN Reset ELSE ParseNext(argv, after[n - 1])
  IN  after[Len(argv)]

-----------------------------------------------------------------------------
(* wmain.  "register" and "listen" come with whether the files named to    *)
(* them are ".json" files, as the default ones are; everything else is the *)
(* exit code.                                                              *)

AskedOnce == Names \ {"help", "version"}

IsJson(s, o) == s.wasSet[o] > 0 => s.value[o] = "x.json"

Asks(argv) ==
  LET s == Parse(argv)
      Ask(what, input, output) == [asks |-> what, input |-> input, output |-> output]
  IN CASE s.errorText # NoError -> Ask("PARSE_ERROR", TRUE, TRUE)
       [] s.errorText = NoError /\ \E o \in AskedOnce : s.wasSet[o] > 1 ->
            Ask("ARGUMENT_ERROR", TRUE, TRUE)
       [] OTHER ->
            IF s.wasSet["help"] > 0 \/ s.wasSet["version"] > 0 THEN Ask("SUCCESS", TRUE, TRUE)
            ELSE IF s.wasSet["register"] > 0
              THEN Ask("register", IsJson(s, "register_input"), IsJson(s, "register_output"))
            ELSE IF s.wasSet["listen"] > 0
              THEN Ask("listen", IsJson(s, "listen_input"), TRUE)
            ELSE Ask("SUCCESS", TRUE, TRUE)

Askings ==
  [asks : {"register"}, input : BOOLEAN, output : BOOLEAN]
    \cup [asks : {"listen"}, input : BOOLEAN, output : {TRUE}]
    \cup [asks : {"PARSE_ERROR", "ARGUMENT_ERROR", "SUCCESS"}, input : {TRUE}, output : {TRUE}]

-----------------------------------------------------------------------------
(* What a command line says, argument by argument, with no parser's state. *)

IsBare(a) == a.form = "long" /\ a.name \in InputOptions /\ a.value = NoValue

IsValue(argv, i) == i > 1 /\ argv[i].form = "plain" /\ IsBare(argv[i - 1])

(* The options an argument names, in its order. *)
NamedBy(a) ==
  CASE a.form = "long"  -> <<a.name>>
    [] a.form = "short" -> [k \in DOMAIN a.letters |-> FlagOfLetter[a.letters[k]]]
    [] OTHER            -> <<>>

AllNamed(argv) == FlattenSeq([i \in DOMAIN argv |-> NamedBy(argv[i])])

Count(names, o) == Cardinality({k \in DOMAIN names : names[k] = o})

TimesNamed(argv, o) == Count(AllNamed(argv), o)

(* The value argument i gives to the option it names. *)
ValueGiven(argv, i) == IF IsBare(argv[i]) THEN argv[i + 1].text ELSE argv[i].value

Gives(argv, o) == {i \in DOMAIN argv : argv[i].form = "long" /\ argv[i].name = o}

Positional(argv, i) ==
  IF argv[i].form = "plain" /\ ~ IsValue(argv, i) THEN <<argv[i].text>> ELSE <<>>

Positionals(argv) == FlattenSeq([i \in DOMAIN argv |-> Positional(argv, i)])

Complaint(argv, i) ==
  LET a == argv[i]
      Says(why) == [result |-> why, command |-> a.name]
  IN CASE a.form = "long" /\ a.name \notin Names -> Says("InvalidOption")
       [] a.form = "long" /\ a.name \in Names \ InputOptions /\ a.value # NoValue ->
            Says("ValuePassedToOptionThatDoesNotTakeValue")
       [] a.form = "long" /\ a.name \in InputOptions
            /\ \/ a.value # NoValue /\ LooksMissing(a.value)
               \/ a.value = NoValue /\ (i = Len(argv) \/ ~ IsValue(argv, i + 1)) ->
            Says("NoValueWasPassedToOption")
       [] a.form = "short" /\ \E k \in DOMAIN a.letters : a.letters[k] \notin Letters ->
            [result  |-> "InvalidOption",
             command |-> a.letters[Min({k \in DOMAIN a.letters : a.letters[k] \notin Letters})]]
       [] OTHER -> NoError

Faulty(argv) == {i \in DOMAIN argv : Complaint(argv, i) # NoError}

(* Every option is set as often as the command line names it, to the last  *)
(* value given to it, and every text that is not a value is a positional   *)
(* argument; or the complaint is about the first argument that is wrong,   *)
(* an option that is followed by another, where its value should be,       *)
(* included.  (Parse moves its index inside the functions it calls.)       *)
ReadAsWritten(argv) ==
  LET s == Parse(argv)
  IN IF Faulty(argv) # {} THEN s.errorText = Complaint(argv, Min(Faulty(argv)))
     ELSE /\ s.errorText = NoError
          /\ \A o \in Names : s.wasSet[o] = TimesNamed(argv, o)
          /\ \A o \in InputOptions :
               Gives(argv, o) # {} => s.value[o] = ValueGiven(argv, Max(Gives(argv, o)))
          /\ s.positionalArgsValues = Positionals(argv)

(* The same command line with every option spelled out, its value behind   *)
(* an "=".                                                                 *)
Spelling(argv, i) ==
  CASE IsBare(argv[i])        -> <<Long(argv[i].name, argv[i + 1].text)>>
    [] argv[i].form = "short" -> [k \in DOMAIN NamedBy(argv[i]) |-> Long(NamedBy(argv[i])[k], NoValue)]
    [] IsValue(argv, i)       -> <<>>
    [] OTHER                  -> <<argv[i]>>

SpelledOut(argv) == FlattenSeq([i \in DOMAIN argv |-> Spelling(argv, i)])

(* What a run does depends neither on the order of its options nor on how  *)
(* they are spelled: letters or names, a value after the option or behind  *)
(* an "=" (if it may be: an empty one, or one that ends in "=", may not).  *)
AskedAnotherWay(argv) ==
  (Faulty(argv) = {} /\ \A i \in DOMAIN argv : IsValue(argv, i) => ~ LooksMissing(argv[i].text))
    => Asks(argv) = Asks(Reverse(SpelledOut(argv)))
=============================================================================
