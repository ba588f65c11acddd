-------------------------- MODULE CommandLine_proofs ------------------------
(***************************************************************************)
(* Every command line, of whatever words and length, is read as it is      *)
(* written, and asks for the same when its options are spelled out and     *)
(* turned round; and the runs are modelled for everything that a command   *)
(* line asks for, and for nothing else.                                    *)
(*                                                                         *)
(* The loops of the parser are functions by recursion: Iteration gives     *)
(* them a value, and Induction over their rounds shows what is known       *)
(* between two of them (LettersCounted; Between, Knows).                   *)
(***************************************************************************)
EXTENDS MCProgram, Induction, FiniteSetTheorems, SequenceTheorems

(* What FlattenSeq puts together, piece by piece.                          *)
Flattens(f, S, seqs) ==
  /\ f \in [0 .. Len(seqs) -> Seq(S)]
  /\ f[0] = <<>>
  /\ \A k \in 1 .. Len(seqs) : f[k] = f[k - 1] \o seqs[k]
  /\ FlattenSeq(seqs) = f[Len(seqs)]

(* FlattenSeq joins its sequences one after the other.                     *)
LEMMA FlattenSeqDef ==
  ASSUME NEW S, NEW seqs \in Seq(Seq(S))
  PROVE  \E f : Flattens(f, S, seqs)
<1> DEFINE n == Len(seqs)
           More(k) == [s \in Seq(S) |-> s \o seqs[k]]
           step == [k \in 1 .. n |-> More(k)]
           F(g) == [i \in 1 .. n |-> IF i = 1 THEN seqs[i] ELSE g[i - 1] \o seqs[i]]
           flatten == CHOOSE g : g = F(g)
<1>1. n \in Nat /\ \A k \in 1 .. n : seqs[k] \in Seq(S)
  OBVIOUS
<1>2. step \in [1 .. n -> [Seq(S) -> Seq(S)]]
  <2>1. \A k \in 1 .. n : More(k) \in [Seq(S) -> Seq(S)]
    BY <1>1
  <2> QED BY <2>1
<1>3. <<>> \in Seq(S)
  OBVIOUS
<1>4. PICK f : Iterates(f, Seq(S), n, <<>>, step)
  <2> HIDE DEF n, step
  <2> QED BY <1>1, <1>2, <1>3, Iteration
<1>5. f \in [0 .. n -> Seq(S)] /\ f[0] = <<>>
  BY <1>4 DEF Iterates
<1>6. ASSUME NEW k \in 1 .. n PROVE f[k] = f[k - 1] \o seqs[k]
  <2>1. f[k] = step[k][f[k - 1]]
    BY <1>4 DEF Iterates
  <2>2. k - 1 \in 0 .. n
    BY <1>1
  <2>3. f[k - 1] \in Seq(S)
    BY <1>5, <2>2
  <2>4. f[k] = More(k)[f[k - 1]]
    BY <2>1
  <2> QED BY <2>3, <2>4
<1>7. CASE n = 0
  <2>1. FlattenSeq(seqs) = seqs /\ seqs = <<>>
    BY <1>7 DEF FlattenSeq
  <2> QED BY <1>5, <1>6, <1>7, <2>1 DEF Flattens
<1>8. CASE n # 0
  <2>1. FlattenSeq(seqs) = flatten[n]
    BY <1>8 DEF FlattenSeq
  <2> HIDE DEF n, step, More
  <2> DEFINE h == [i \in 1 .. n |-> f[i]]
  <2>2. h = F(h)
    <3>1. ASSUME NEW i \in 1 .. n PROVE h[i] = IF i = 1 THEN seqs[i] ELSE h[i - 1] \o seqs[i]
      <4>1. CASE i = 1
        <5>1. f[i] = f[i - 1] \o seqs[i] /\ seqs[i] \in Seq(S)
          BY <1>1, <1>6
        <5>2. i - 1 = 0
          BY <4>1
        <5>3. f[i] = <<>> \o seqs[i]
          BY <1>5, <5>1, <5>2
        <5> QED BY <4>1, <5>1, <5>3
      <4>2. CASE i # 1
        <5>1. i - 1 \in 1 .. n
          BY <1>1, <4>2
        <5> QED BY <1>6, <4>2, <5>1
      <4> QED BY <4>1, <4>2
    <3> HIDE DEF h
    <3>2. h = [i \in 1 .. n |-> h[i]]
      BY DEF h
    <3> QED BY <3>1, <3>2
  <2>3. flatten = F(flatten)
    <3> HIDE DEF F, h
    <3> QED BY <2>2
  <2> HIDE DEF flatten, h
  <2> DEFINE T == {i \in Nat : i \in 1 .. n => flatten[i] = f[i]}
  <2>4. 0 \in T
    OBVIOUS
  <2>5. ASSUME NEW i \in Nat, i \in T PROVE i + 1 \in T
    <3> SUFFICES ASSUME i + 1 \in 1 .. n PROVE flatten[i + 1] = f[i + 1]
      OBVIOUS
    <3>1. flatten[i + 1] = IF i + 1 = 1 THEN seqs[i + 1] ELSE flatten[(i + 1) - 1] \o seqs[i + 1]
      BY <2>3
    <3>2. (i + 1) - 1 = i /\ f[i + 1] = f[i] \o seqs[i + 1] /\ seqs[i + 1] \in Seq(S)
      <4>1. (i + 1) - 1 = i
        OBVIOUS
      <4> QED BY <1>1, <1>6, <4>1
    <3>3. CASE i = 0
      <4>1. i + 1 = 1 /\ f[i] = <<>>
        BY <1>5, <3>3
      <4> QED BY <3>1, <3>2, <4>1
    <3>4. CASE i # 0
      <4>1. flatten[i] = f[i] /\ i + 1 # 1
        BY <1>1, <2>5, <3>4
      <4> QED BY <3>1, <3>2, <4>1
    <3> QED BY <3>3, <3>4
  <2> HIDE DEF T
  <2>6. \A i \in Nat : i \in T
    BY <2>4, <2>5, Induction
  <2>7. flatten[n] = f[n]
    BY <1>1, <1>8, <2>6 DEF T
  <2> QED BY <1>5, <1>6, <2>1, <2>7 DEF Flattens, n
<1> QED BY <1>7, <1>8

-----------------------------------------------------------------------------
(* The parser's state.                                                     *)

Argument(Words) == [form : {"long"}, name : Words, value : Texts \cup {NoValue}]
                     \cup [form : {"short"}, letters : Seq(Words)]
                     \cup [form : {"plain"}, text : Texts]

Results == {"ParseSuccessful", "InvalidOption", "ValuePassedToOptionThatDoesNotTakeValue",
            "NoValueWasPassedToOption"}

ParserState(Words) ==
  [index : Nat, wasSet : [Names -> Nat], value : [Names -> Texts],
   positionalArgsValues : Seq(Texts), errorText : [result : Results, command : Words \cup {""}]]

(* Two states that differ at most in what is said of them besides.         *)
SameBut(Words, s, t, index, wasSet, value, texts) ==
  /\ t \in ParserState(Words)
  /\ t.index = index
  /\ t.wasSet = wasSet
  /\ t.value = value
  /\ t.positionalArgsValues = texts
  /\ t.errorText = s.errorText

(* resetParsedValues leaves a state at the first argument, with nothing    *)
(* set.                                                                    *)
LEMMA ResetFacts ==
  ASSUME NEW Words
  PROVE  /\ Reset \in ParserState(Words)
         /\ Reset.index = 1
         /\ Reset.errorText = NoError
         /\ \A o \in Names : Reset.wasSet[o] = 0
         /\ Reset.positionalArgsValues = <<>>
<1>1. "" \in Texts
  BY DEF Texts
<1>2. [o \in Names |-> 0] \in [Names -> Nat] /\ [o \in Names |-> ""] \in [Names -> Texts]
  BY <1>1
<1>3. NoError \in [result : Results, command : Words \cup {""}]
  BY DEF NoError, Results
<1>4. <<>> \in Seq(Texts)
  OBVIOUS
<1> HIDE DEF NoError
<1> QED BY <1>2, <1>3, <1>4 DEF Reset, ParserState

(* generateErrorText only records the error.                               *)
LEMMA FailFacts ==
  ASSUME NEW Words, NEW s \in ParserState(Words), NEW why \in Results, NEW command \in Words
  PROVE  /\ Fail(s, why, command) \in ParserState(Words)
         /\ Fail(s, why, command).errorText = [result |-> why, command |-> command]
BY DEF Fail, ParserState

(* The types of a state's fields.                                          *)
LEMMA FieldFacts ==
  ASSUME NEW Words, NEW s \in ParserState(Words)
  PROVE  /\ s.index \in Nat
         /\ s.wasSet \in [Names -> Nat]
         /\ s.value \in [Names -> Texts]
         /\ s.positionalArgsValues \in Seq(Texts)
         /\ s.errorText \in [result : Results, command : Words \cup {""}]
BY DEF ParserState

(* Setting an option counts it once more and changes nothing else.         *)
LEMMA SetOptionFacts ==
  ASSUME NEW Words, NEW s \in ParserState(Words), NEW o \in Names
  PROVE  SameBut(Words, s, SetOption(s, o), s.index, [s.wasSet EXCEPT ![o] = @ + 1], s.value,
                 s.positionalArgsValues)
<1> DEFINE w == [s.wasSet EXCEPT ![o] = @ + 1]
<1>1. w \in [Names -> Nat]
  <2>1. s.wasSet \in [Names -> Nat]
    BY FieldFacts
  <2> QED BY <2>1
<1>2. SetOption(s, o) = [s EXCEPT !.wasSet = w]
  BY DEF SetOption, ParserState
<1> HIDE DEF w
<1> QED BY <1>1, <1>2 DEF ParserState, SameBut, w

(* Taking a value changes that option's value, and the index if it moves   *)
(* on.                                                                     *)
LEMMA TakeValueFacts ==
  ASSUME NEW Words, NEW s \in ParserState(Words), NEW o \in Names, NEW text \in Texts
  PROVE  /\ SameBut(Words, s, [s EXCEPT !.value[o] = text], s.index, s.wasSet,
                    [s.value EXCEPT ![o] = text], s.positionalArgsValues)
         /\ SameBut(Words, s, [s EXCEPT !.index = @ + 1, !.value[o] = text], s.index + 1, s.wasSet,
                    [s.value EXCEPT ![o] = text], s.positionalArgsValues)
<1> DEFINE v == [s.value EXCEPT ![o] = text]
           i == s.index + 1
<1>1. v \in [Names -> Texts] /\ i \in Nat
  <2>1. s.value \in [Names -> Texts] /\ s.index \in Nat
    BY FieldFacts
  <2> QED BY <2>1
<1>2. /\ [s EXCEPT !.value[o] = text] = [s EXCEPT !.value = v]
      /\ [s EXCEPT !.index = @ + 1, !.value[o] = text] = [s EXCEPT !.index = i, !.value = v]
  BY DEF ParserState
<1> HIDE DEF v, i
<1>3. SameBut(Words, s, [s EXCEPT !.value = v], s.index, s.wasSet, v, s.positionalArgsValues)
  BY <1>1 DEF ParserState, SameBut
<1>4. SameBut(Words, s, [s EXCEPT !.index = i, !.value = v], i, s.wasSet, v, s.positionalArgsValues)
  BY <1>1 DEF ParserState, SameBut
<1> QED BY <1>2, <1>3, <1>4 DEF v, i

(* The end of a round changes the index alone.                             *)
LEMMA NextIndexFacts ==
  ASSUME NEW Words, NEW s \in ParserState(Words)
  PROVE  SameBut(Words, s, [s EXCEPT !.index = @ + 1], s.index + 1, s.wasSet, s.value, s.positionalArgsValues)
<1> DEFINE i == s.index + 1
<1>1. i \in Nat
  <2>1. s.index \in Nat
    BY FieldFacts
  <2> QED BY <2>1
<1>2. [s EXCEPT !.index = @ + 1] = [s EXCEPT !.index = i]
  BY DEF ParserState
<1> HIDE DEF i
<1>3. SameBut(Words, s, [s EXCEPT !.index = i], i, s.wasSet, s.value, s.positionalArgsValues)
  BY <1>1 DEF ParserState, SameBut
<1> QED BY <1>2, <1>3 DEF i

(* A positional argument is added behind the others.                       *)
LEMMA AppendFacts ==
  ASSUME NEW Words, NEW s \in ParserState(Words), NEW text \in Texts
  PROVE  SameBut(Words, s, [s EXCEPT !.positionalArgsValues = Append(@, text)], s.index, s.wasSet, s.value,
                 Append(s.positionalArgsValues, text))
<1> DEFINE p == Append(s.positionalArgsValues, text)
<1>1. p \in Seq(Texts)
  <2>1. s.positionalArgsValues \in Seq(Texts)
    BY FieldFacts
  <2> QED BY <2>1
<1>2. [s EXCEPT !.positionalArgsValues = Append(@, text)] = [s EXCEPT !.positionalArgsValues = p]
  BY DEF ParserState
<1> HIDE DEF p
<1>3. SameBut(Words, s, [s EXCEPT !.positionalArgsValues = p], s.index, s.wasSet, s.value, p)
  BY <1>1 DEF ParserState, SameBut
<1> QED BY <1>2, <1>3 DEF p

(* An error is not NoError.                                                *)
LEMMA WrongIsAnError ==
  ASSUME NEW why, NEW command, why # "ParseSuccessful"
  PROVE  [result |-> why, command |-> command] # NoError
<1> DEFINE e == [result |-> why, command |-> command]
<1>1. e.result = why
  OBVIOUS
<1>2. NoError.result = "ParseSuccessful"
  BY DEF NoError
<1> HIDE DEF e
<1>3. e # NoError
  BY <1>1, <1>2
<1> QED BY <1>3 DEF e

(* Kinds of arguments.                                                     *)
LEMMA ArgumentFacts ==
  ASSUME NEW Words, NEW a \in Argument(Words)
  PROVE  /\ a.form \in {"long", "short", "plain"}
         /\ a.form = "long" => a.name \in Words /\ a.value \in Texts \cup {NoValue}
         /\ a.form = "short" => a.letters \in Seq(Words)
         /\ a.form = "plain" => a.text \in Texts
BY DEF Argument

(* Letters stand for flags, which take no value.                           *)
LEMMA NameFacts ==
  /\ \A c \in Letters : FlagOfLetter[c] \in Names \ InputOptions
  /\ InputOptions \subseteq Names
<1>1. \A c \in Letters : FlagOfLetter[c] \in Names \ InputOptions
  BY DEF Letters, FlagOfLetter, Names, InputOptions
<1>2. InputOptions \subseteq Names
  BY DEF Names
<1> QED BY <1>1, <1>2

(* The first number of a set, and the last.                                *)
LEMMA MinIs ==
  ASSUME NEW T, T \subseteq Int, NEW x \in T, \A y \in T : x <= y
  PROVE  Min(T) = x
<1>1. \A z \in T : (\A y \in T : z <= y) => z = x
  OBVIOUS
<1> DEFINE P(z) == \A y \in T : z <= y
<1>2. Min(T) = CHOOSE z \in T : P(z)
  BY DEF Min
<1>3. P(x) /\ \A z \in T : P(z) => z = x
  BY <1>1
<1> HIDE DEF P
<1> QED BY <1>2, <1>3

(* The greatest likewise.                                                  *)
LEMMA MaxIs ==
  ASSUME NEW T, T \subseteq Int, NEW x \in T, \A y \in T : y <= x
  PROVE  Max(T) = x
<1>1. \A z \in T : (\A y \in T : z >= y) => z = x
  OBVIOUS
<1> DEFINE P(z) == \A y \in T : z >= y
<1>2. Max(T) = CHOOSE z \in T : P(z)
  BY DEF Max
<1>3. P(x) /\ \A z \in T : P(z) => z = x
  BY <1>1
<1> HIDE DEF P
<1> QED BY <1>2, <1>3

(* That of a single number is that number.                                 *)
LEMMA MaxOfOne ==
  ASSUME NEW i \in Int
  PROVE  Max({i}) = i
<1> DEFINE T == {i}
<1>1. T \subseteq Int /\ i \in T /\ \A y \in T : y <= i
  OBVIOUS
<1> HIDE DEF T
<1>2. Max(T) = i
  BY <1>1, MaxIs
<1> QED BY <1>2 DEF T

-----------------------------------------------------------------------------
(* How often one of some elements, or a name, occurs in a sequence.        *)

HowMany(q, X) == Cardinality({k \in DOMAIN q : q[k] \in X})

(* Occurrences add up.                                                     *)
LEMMA HowManyConcat ==
  ASSUME NEW S, NEW q \in Seq(S), NEW r \in Seq(S), NEW X
  PROVE  /\ HowMany(q, X) \in Nat
         /\ HowMany(q \o r, X) = HowMany(q, X) + HowMany(r, X)
<1> DEFINE m == Len(q)
           n == Len(r)
           A == {k \in 1 .. m : q[k] \in X}
           B == {k \in 1 .. n : r[k] \in X}
           C == {k \in m + 1 .. m + n : (q \o r)[k] \in X}
<1>1. m \in Nat /\ n \in Nat /\ DOMAIN q = 1 .. m /\ DOMAIN r = 1 .. n
      /\ DOMAIN (q \o r) = 1 .. m + n
  OBVIOUS
<1>2. HowMany(q, X) = Cardinality(A) /\ HowMany(r, X) = Cardinality(B)
      /\ HowMany(q \o r, X) = Cardinality({k \in 1 .. m + n : (q \o r)[k] \in X})
  BY <1>1 DEF HowMany
<1>3. \A k \in 1 .. m : (q \o r)[k] = q[k]
  OBVIOUS
<1>4. \A k \in 1 .. n : (q \o r)[m + k] = r[k]
  OBVIOUS
<1> DEFINE p == q \o r
<1> HIDE DEF m, n, p
<1>5. {k \in 1 .. m + n : p[k] \in X} = A \cup C
  BY <1>1, <1>3 DEF p
<1>6. A \cap C = {}
  BY <1>1
<1>7. IsFiniteSet(A) /\ IsFiniteSet(B) /\ IsFiniteSet(C)
  <2>1. IsFiniteSet(1 .. m) /\ IsFiniteSet(1 .. n) /\ IsFiniteSet(m + 1 .. m + n)
    BY <1>1, FS_Interval
  <2>2. A \in SUBSET (1 .. m) /\ B \in SUBSET (1 .. n) /\ C \in SUBSET (m + 1 .. m + n)
    OBVIOUS
  <2> HIDE DEF A, B, C
  <2> QED BY <2>1, <2>2, FS_Subset
<1>8. Cardinality(C) = Cardinality(B)
  <2> DEFINE f == [k \in B |-> m + k]
  <2>1. f \in [B -> C]
    BY <1>1, <1>4 DEF p
  <2>2. \A k, l \in B : f[k] = f[l] => k = l
    BY <1>1
  <2>3. \A c \in C : \E k \in B : f[k] = c
    <3> SUFFICES ASSUME NEW c \in C PROVE \E k \in B : f[k] = c
      OBVIOUS
    <3>1. c - m \in 1 .. n /\ m + (c - m) = c
      BY <1>1
    <3>2. r[c - m] \in X
      BY <1>4, <3>1 DEF p
    <3> QED BY <3>1, <3>2
  <2>4. f \in Bijection(B, C)
    <3> HIDE DEF B, C, f
    <3>1. f \in Injection(B, C)
      BY <2>1, <2>2 DEF Injection, IsInjective
    <3>2. f \in Surjection(B, C)
      BY <2>1, <2>3 DEF Surjection
    <3> QED BY <3>1, <3>2 DEF Bijection
  <2>5. ExistsBijection(B, C)
    <3> HIDE DEF B, C, f
    <3> QED BY <2>4 DEF ExistsBijection
  <2> HIDE DEF B, C
  <2> QED BY <1>7, <2>5, FS_Bijection
<1>9. Cardinality(A \cap C) = 0
  BY <1>6, FS_EmptySet
<1>10. Cardinality(A) \in Nat /\ Cardinality(B) \in Nat /\ Cardinality(C) \in Nat
  <2> HIDE DEF A, B, C
  <2> QED BY <1>7, FS_CardinalityType
<1>11. Cardinality(A \cup C) = Cardinality(A) + Cardinality(C) - Cardinality(A \cap C)
  <2> HIDE DEF A, B, C
  <2> QED BY <1>7, FS_Union
<1>12. HowMany(p, X) = Cardinality(A \cup C)
  BY <1>2, <1>5 DEF p
<1> HIDE DEF A, B, C
<1>13. HowMany(p, X) = HowMany(q, X) + HowMany(r, X)
  BY <1>2, <1>8, <1>9, <1>10, <1>11, <1>12
<1> QED BY <1>2, <1>10, <1>13 DEF p

(* A single element occurs once or not at all.                             *)
LEMMA HowManyOne ==
  ASSUME NEW x, NEW X
  PROVE  HowMany(<<x>>, X) = IF x \in X THEN 1 ELSE 0
<1>1. DOMAIN <<x>> = {1} /\ <<x>>[1] = x
  OBVIOUS
<1>2. CASE x \in X
  <2>1. {k \in DOMAIN <<x>> : <<x>>[k] \in X} = {1}
    BY <1>1, <1>2
  <2> QED BY <1>2, <2>1, FS_Singleton DEF HowMany
<1>3. CASE x \notin X
  <2>1. {k \in DOMAIN <<x>> : <<x>>[k] \in X} = {}
    BY <1>1, <1>3
  <2> QED BY <1>3, <2>1, FS_EmptySet DEF HowMany
<1> QED BY <1>2, <1>3

(* Nothing occurs in the empty sequence.                                   *)
LEMMA HowManyNone == \A X : HowMany(<<>>, X) = 0
<1>1. \A X : {k \in DOMAIN <<>> : <<>>[k] \in X} = {}
  OBVIOUS
<1> QED BY <1>1, FS_EmptySet DEF HowMany

(* Count is the case of a single name: the same three facts of it.         *)
LEMMA CountIsHowMany == \A q, o : Count(q, o) = HowMany(q, {o})
BY DEF Count, HowMany

LEMMA CountConcat ==
  ASSUME NEW S, NEW q \in Seq(S), NEW r \in Seq(S), NEW o
  PROVE  /\ Count(q, o) \in Nat
         /\ Count(q \o r, o) = Count(q, o) + Count(r, o)
<1>1. HowMany(q, {o}) \in Nat /\ HowMany(q \o r, {o}) = HowMany(q, {o}) + HowMany(r, {o})
  BY HowManyConcat
<1> QED BY <1>1, CountIsHowMany

LEMMA CountOne ==
  ASSUME NEW x, NEW o
  PROVE  Count(<<x>>, o) = IF x = o THEN 1 ELSE 0
BY HowManyOne, CountIsHowMany

LEMMA CountNone == \A o : Count(<<>>, o) = 0
BY HowManyNone, CountIsHowMany

-----------------------------------------------------------------------------
(* One argument.                                                           *)

(* The parser is at argument i, which is not the value of the one before.  *)
Meets(Words, argv, i, s) ==
  /\ argv \in Seq(Argument(Words))
  /\ i \in 1 .. Len(argv)
  /\ s \in ParserState(Words)
  /\ s.index = i
  /\ s.errorText = NoError
  /\ ~ IsValue(argv, i)

(* What the argument says is in the state, or the complaint about it.      *)
Counted(argv, i, s, t) ==
  \A o \in Names : t.wasSet[o] = s.wasSet[o] + Count(NamedBy(argv[i]), o)

Valued(argv, i, s, t) ==
  \A o \in InputOptions :
    t.value[o] = IF i \in Gives(argv, o) THEN ValueGiven(argv, i) ELSE s.value[o]

Follows(argv, i) == IsBare(argv[i]) => i < Len(argv) /\ IsValue(argv, i + 1)

HasRead(Words, argv, i, s, t) ==
  /\ t \in ParserState(Words)
  /\ t.errorText = Complaint(argv, i)
  /\ Complaint(argv, i) = NoError =>
       /\ t.index = IF IsBare(argv[i]) THEN i + 1 ELSE i
       /\ Follows(argv, i)
       /\ Counted(argv, i, s, t)
       /\ Valued(argv, i, s, t)
       /\ t.positionalArgsValues = s.positionalArgsValues \o Positional(argv, i)

(* Plain text is appended to the positional arguments.                     *)
LEMMA PlainRead ==
  ASSUME NEW Words, NEW argv, NEW i, NEW s, Meets(Words, argv, i, s), argv[i].form = "plain"
  PROVE  HasRead(Words, argv, i, s, ParseArgument(argv, s))
<1> DEFINE a == argv[i]
           t == [s EXCEPT !.positionalArgsValues = Append(@, a.text)]
<1>1. a \in Argument(Words) /\ s \in ParserState(Words) /\ s.index = i /\ i \in DOMAIN argv
  BY DEF Meets
<1> HIDE DEF a
<1>2. a.form = "plain" /\ a.text \in Texts
  BY <1>1, ArgumentFacts DEF a
<1>3. ParseArgument(argv, s) = t
  BY <1>1, <1>2 DEF ParseArgument, a
<1>4. SameBut(Words, s, t, s.index, s.wasSet, s.value, Append(s.positionalArgsValues, a.text))
  BY <1>1, <1>2, AppendFacts
<1> HIDE DEF t
<1>5. Complaint(argv, i) = NoError
  BY <1>2 DEF Complaint, a
<1>6. ~ IsBare(argv[i]) /\ NamedBy(argv[i]) = <<>> /\ \A o : i \notin Gives(argv, o)
  BY <1>2 DEF IsBare, NamedBy, Gives, a
<1>7. Positional(argv, i) = <<a.text>>
  BY <1>2 DEF Positional, Meets, a
<1>8. Counted(argv, i, s, t)
  <2>1. \A o \in Names : s.wasSet[o] \in Nat
    BY <1>1, FieldFacts
  <2>2. t.wasSet = s.wasSet
    BY <1>4 DEF SameBut
  <2> QED BY <1>6, <2>1, <2>2, CountNone DEF Counted
<1>9. Valued(argv, i, s, t)
  BY <1>4, <1>6 DEF SameBut, Valued
<1>10. t.positionalArgsValues = s.positionalArgsValues \o Positional(argv, i)
  <2>1. s.positionalArgsValues \in Seq(Texts)
    BY <1>1, FieldFacts
  <2>2. Append(s.positionalArgsValues, a.text) = s.positionalArgsValues \o <<a.text>>
    BY <1>2, <2>1
  <2> QED BY <1>4, <1>7, <2>2 DEF SameBut
<1>11. t \in ParserState(Words) /\ t.index = i /\ t.errorText = NoError
  BY <1>1, <1>4 DEF SameBut, Meets
<1> QED BY <1>3, <1>5, <1>6, <1>8, <1>9, <1>10, <1>11 DEF HasRead, Follows

(* A name, read: the option was set once more, to the value if there is one. *)
LEMMA NameRead ==
  ASSUME NEW Words, NEW argv, NEW i, NEW s, Meets(Words, argv, i, s), argv[i].form = "long",
         Complaint(argv, i) = NoError, Follows(argv, i),
         NEW o \in Names, o = argv[i].name,
         NEW t,
         SameBut(Words, s, t, IF IsBare(argv[i]) THEN i + 1 ELSE i, [s.wasSet EXCEPT ![o] = @ + 1],
                 IF o \in InputOptions THEN [s.value EXCEPT ![o] = ValueGiven(argv, i)] ELSE s.value,
                 s.positionalArgsValues)
  PROVE  HasRead(Words, argv, i, s, t)
<1>1. s \in ParserState(Words) /\ i \in DOMAIN argv
  BY DEF Meets
<1>2. NamedBy(argv[i]) = <<o>> /\ \A p : i \in Gives(argv, p) <=> p = o
  BY <1>1 DEF NamedBy, Gives
<1>3. Counted(argv, i, s, t)
  <2>1. \A p \in Names : s.wasSet[p] \in Nat
    BY <1>1, FieldFacts
  <2>2. s.wasSet \in [Names -> Nat]
    BY <1>1, FieldFacts
  <2>3. t.wasSet = [s.wasSet EXCEPT ![o] = @ + 1]
    BY DEF SameBut
  <2>4. \A p : Count(NamedBy(argv[i]), p) = IF o = p THEN 1 ELSE 0
    BY <1>2, CountOne
  <2> QED BY <2>1, <2>2, <2>3, <2>4 DEF Counted
<1>4. Valued(argv, i, s, t)
  <2> SUFFICES ASSUME NEW p \in InputOptions
               PROVE  t.value[p] = IF i \in Gives(argv, p) THEN ValueGiven(argv, i) ELSE s.value[p]
    BY DEF Valued
  <2>1. s.value \in [Names -> Texts] /\ p \in Names
    BY <1>1, FieldFacts, NameFacts
  <2>2. t.value = IF o \in InputOptions THEN [s.value EXCEPT ![o] = ValueGiven(argv, i)] ELSE s.value
    BY DEF SameBut
  <2>3. CASE p = o
    BY <1>2, <2>1, <2>2, <2>3
  <2>4. CASE p # o
    BY <1>2, <2>1, <2>2, <2>4
  <2> QED BY <2>3, <2>4
<1>5. t.positionalArgsValues = s.positionalArgsValues \o Positional(argv, i)
  <2>1. s.positionalArgsValues \in Seq(Texts)
    BY <1>1, FieldFacts
  <2>2. Positional(argv, i) = <<>>
    BY DEF Positional
  <2>3. s.positionalArgsValues \o <<>> = s.positionalArgsValues
    BY <2>1
  <2> QED BY <2>2, <2>3 DEF SameBut
<1>6. t \in ParserState(Words) /\ t.errorText = NoError
  BY DEF SameBut, Meets
<1>7. t.index = IF IsBare(argv[i]) THEN i + 1 ELSE i
  BY DEF SameBut
<1> QED BY <1>3, <1>4, <1>5, <1>6, <1>7 DEF HasRead

(* A command that is wrong.                                                *)
LEMMA WrongCommand ==
  ASSUME NEW Words, NEW argv, NEW i, NEW s, Meets(Words, argv, i, s),
         NEW why \in Results, why # "ParseSuccessful", NEW command \in Words,
         Complaint(argv, i) = [result |-> why, command |-> command]
  PROVE  HasRead(Words, argv, i, s, Fail(s, why, command))
<1>1. s \in ParserState(Words)
  BY DEF Meets
<1>2. /\ Fail(s, why, command) \in ParserState(Words)
      /\ Fail(s, why, command).errorText = [result |-> why, command |-> command]
  BY <1>1, FailFacts
<1>3. Complaint(argv, i) # NoError
  BY WrongIsAnError
<1> QED BY <1>2, <1>3 DEF HasRead

(* A long command is read as it is written: one case for each branch of    *)
(* parseLongCommand.                                                       *)
LEMMA LongRead ==
  ASSUME NEW Words, NEW argv, NEW i, NEW s, Meets(Words, argv, i, s), argv[i].form = "long"
  PROVE  HasRead(Words, argv, i, s, ParseArgument(argv, s))
<1> DEFINE a == argv[i]
           t == ParseArgument(argv, s)
<1>1. a \in Argument(Words) /\ s \in ParserState(Words) /\ s.index = i /\ i \in DOMAIN argv /\ i \in Nat
  BY DEF Meets
<1> HIDE DEF a
<1>2. a.form = "long" /\ a.name \in Words /\ a.value \in Texts \cup {NoValue}
  BY <1>1, ArgumentFacts DEF a
<1>3. t = ParseLongCommand(argv, s)
  BY <1>1, <1>2 DEF ParseArgument, a
<1> HIDE DEF t
<1>4. /\ "InvalidOption" \in Results
      /\ "ValuePassedToOptionThatDoesNotTakeValue" \in Results
      /\ "NoValueWasPassedToOption" \in Results
  BY DEF Results
<1>5. CASE a.name \notin Names
  <2>1. t = Fail(s, "InvalidOption", a.name)
    BY <1>1, <1>3, <1>5, NameFacts DEF ParseLongCommand, a
  <2>2. Complaint(argv, i) = [result |-> "InvalidOption", command |-> a.name]
    BY <1>2, <1>5, NameFacts DEF Complaint, a
  <2> QED BY <1>2, <1>4, <2>1, <2>2, WrongCommand DEF t
<1>6. CASE a.name \in Names \ InputOptions /\ a.value # NoValue
  <2>1. t = Fail(s, "ValuePassedToOptionThatDoesNotTakeValue", a.name)
    BY <1>1, <1>3, <1>6 DEF ParseLongCommand, a
  <2>2. Complaint(argv, i) = [result |-> "ValuePassedToOptionThatDoesNotTakeValue", command |-> a.name]
    BY <1>2, <1>6 DEF Complaint, a
  <2> QED BY <1>2, <1>4, <2>1, <2>2, WrongCommand DEF t
<1>7. CASE a.name \in Names \ InputOptions /\ a.value = NoValue
  <2>1. t = SetOption(s, a.name)
    BY <1>1, <1>3, <1>7 DEF ParseLongCommand, a
  <2>2. Complaint(argv, i) = NoError /\ ~ IsBare(argv[i])
    BY <1>2, <1>7 DEF Complaint, IsBare, a
  <2>3. SameBut(Words, s, t, i, [s.wasSet EXCEPT ![a.name] = @ + 1], s.value, s.positionalArgsValues)
    BY <1>1, <1>7, <2>1, SetOptionFacts
  <2>4. Follows(argv, i)
    BY <2>2 DEF Follows
  <2>5. HasRead(Words, argv, i, s, t)
    BY <1>7, <2>2, <2>3, <2>4, NameRead DEF a
  <2> QED BY <2>5 DEF t
<1>8. CASE a.name \in InputOptions /\ a.value = NoValue /\ (i = Len(argv) \/ argv[i + 1].form # "plain")
  <2>1. t = Fail(s, "NoValueWasPassedToOption", a.name)
    BY <1>1, <1>3, <1>8, NameFacts DEF ParseLongCommand, TakeNext, a
  <2>2. i = Len(argv) \/ ~ IsValue(argv, i + 1)
    BY <1>8 DEF IsValue
  <2>3. Complaint(argv, i) = [result |-> "NoValueWasPassedToOption", command |-> a.name]
    BY <1>2, <1>8, <2>2, NameFacts DEF Complaint, a
  <2> QED BY <1>2, <1>4, <2>1, <2>3, WrongCommand DEF t
<1>9. CASE a.name \in InputOptions /\ a.value = NoValue /\ i # Len(argv) /\ argv[i + 1].form = "plain"
  <2> DEFINE u == [s EXCEPT !.index = @ + 1, !.value[a.name] = argv[i + 1].text]
  <2>1. t = SetOption(u, a.name)
    BY <1>1, <1>3, <1>9, NameFacts DEF ParseLongCommand, TakeNext, a
  <2>2. IsBare(argv[i]) /\ i < Len(argv) /\ i + 1 > 1 /\ (i + 1) - 1 = i
    BY <1>1, <1>2, <1>9 DEF IsBare, Meets, a
  <2>3. IsValue(argv, i + 1)
    BY <1>9, <2>2 DEF IsValue
  <2>4. Complaint(argv, i) = NoError
    BY <1>2, <1>9, <2>3, NameFacts DEF Complaint, a
  <2>5. a.name \in Names /\ argv[i + 1] \in Argument(Words)
    BY <1>9, <2>2, NameFacts DEF Meets
  <2>6. argv[i + 1].text \in Texts
    BY <1>9, <2>5, ArgumentFacts
  <2> DEFINE v == [s.value EXCEPT ![a.name] = argv[i + 1].text]
  <2>7. SameBut(Words, s, u, i + 1, s.wasSet, v, s.positionalArgsValues)
    BY <1>1, <2>5, <2>6, TakeValueFacts
  <2> HIDE DEF u, v
  <2>8. u \in ParserState(Words) /\ u.index = i + 1 /\ u.wasSet = s.wasSet /\ u.value = v
        /\ u.positionalArgsValues = s.positionalArgsValues /\ u.errorText = s.errorText
    BY <2>7 DEF SameBut
  <2>9. SameBut(Words, u, t, u.index, [u.wasSet EXCEPT ![a.name] = @ + 1], u.value, u.positionalArgsValues)
    BY <2>1, <2>5, <2>8, SetOptionFacts
  <2>10. SameBut(Words, s, t, i + 1, [s.wasSet EXCEPT ![a.name] = @ + 1], v, s.positionalArgsValues)
    BY <2>8, <2>9 DEF SameBut
  <2>11. v = [s.value EXCEPT ![a.name] = ValueGiven(argv, i)]
    BY <2>2 DEF ValueGiven, v
  <2>12. HasRead(Words, argv, i, s, t)
    BY <1>2, <1>9, <2>2, <2>3, <2>4, <2>5, <2>10, <2>11, NameRead DEF Follows, a
  <2> QED BY <2>12 DEF t
<1>10. CASE a.name \in InputOptions /\ a.value # NoValue /\ LooksMissing(a.value)
  <2>1. t = Fail(s, "NoValueWasPassedToOption", a.name)
    BY <1>1, <1>3, <1>10, NameFacts DEF ParseLongCommand, a
  <2>2. Complaint(argv, i) = [result |-> "NoValueWasPassedToOption", command |-> a.name]
    BY <1>2, <1>10, NameFacts DEF Complaint, a
  <2> QED BY <1>2, <1>4, <2>1, <2>2, WrongCommand DEF t
<1>11. CASE a.name \in InputOptions /\ a.value # NoValue /\ ~ LooksMissing(a.value)
  <2> DEFINE u == [s EXCEPT !.value[a.name] = a.value]
             v == [s.value EXCEPT ![a.name] = a.value]
  <2>1. t = SetOption(u, a.name)
    BY <1>1, <1>3, <1>11, NameFacts DEF ParseLongCommand, a
  <2>2. Complaint(argv, i) = NoError /\ ~ IsBare(argv[i])
    BY <1>2, <1>11, NameFacts DEF Complaint, IsBare, a
  <2>3. a.name \in Names /\ a.value \in Texts
    BY <1>2, <1>11, NameFacts
  <2>4. SameBut(Words, s, u, i, s.wasSet, v, s.positionalArgsValues)
    BY <1>1, <2>3, TakeValueFacts
  <2> HIDE DEF u, v
  <2>5. u \in ParserState(Words) /\ u.index = i /\ u.wasSet = s.wasSet /\ u.value = v
        /\ u.positionalArgsValues = s.positionalArgsValues /\ u.errorText = s.errorText
    BY <2>4 DEF SameBut
  <2>6. SameBut(Words, u, t, u.index, [u.wasSet EXCEPT ![a.name] = @ + 1], u.value, u.positionalArgsValues)
    BY <2>1, <2>3, <2>5, SetOptionFacts
  <2>7. SameBut(Words, s, t, i, [s.wasSet EXCEPT ![a.name] = @ + 1], v, s.positionalArgsValues)
    BY <2>5, <2>6 DEF SameBut
  <2>8. v = [s.value EXCEPT ![a.name] = ValueGiven(argv, i)]
    BY <2>2 DEF ValueGiven, v, a
  <2>9. HasRead(Words, argv, i, s, t)
    BY <1>2, <1>11, <2>2, <2>3, <2>7, <2>8, NameRead DEF Follows, a
  <2> QED BY <2>9 DEF t
<1> QED BY <1>5, <1>6, <1>7, <1>8, <1>9, <1>10, <1>11 DEF a

-----------------------------------------------------------------------------
(* Letters.                                                                *)

LEMMA ReadLetterFacts ==
  ASSUME NEW Words, NEW s \in ParserState(Words), NEW c \in Words
  PROVE  /\ ReadLetter(s, c) \in ParserState(Words)
         /\ s.errorText # NoError => ReadLetter(s, c).errorText = s.errorText
         /\ s.errorText = NoError /\ c \notin Letters =>
              ReadLetter(s, c).errorText = [result |-> "InvalidOption", command |-> c]
         /\ s.errorText = NoError /\ c \in Letters =>
              SameBut(Words, s, ReadLetter(s, c), s.index, [s.wasSet EXCEPT ![FlagOfLetter[c]] = @ + 1],
                      s.value, s.positionalArgsValues)
<1>1. CASE s.errorText # NoError
  BY <1>1 DEF ReadLetter
<1>2. CASE s.errorText = NoError /\ c \notin Letters
  <2>1. ReadLetter(s, c) = Fail(s, "InvalidOption", c) /\ "InvalidOption" \in Results
    BY <1>2 DEF ReadLetter, Results
  <2> QED BY <1>2, <2>1, FailFacts
<1>3. CASE s.errorText = NoError /\ c \in Letters
  <2>1. ReadLetter(s, c) = SetOption(s, FlagOfLetter[c]) /\ FlagOfLetter[c] \in Names
    BY <1>3, NameFacts DEF ReadLetter
  <2>2. SameBut(Words, s, ReadLetter(s, c), s.index, [s.wasSet EXCEPT ![FlagOfLetter[c]] = @ + 1],
                s.value, s.positionalArgsValues)
    BY <2>1, SetOptionFacts
  <2> QED BY <1>3, <2>2 DEF SameBut
<1> QED BY <1>1, <1>2, <1>3

(* The states between the letters.                                         *)
ReadsLetters(Words, f, s, letters) ==
  /\ f \in [0 .. Len(letters) -> ParserState(Words)]
  /\ f[0] = s
  /\ \A k \in 1 .. Len(letters) : f[k] = ReadLetter(f[k - 1], letters[k])

(* The loop over the letters goes through such states.                     *)
LEMMA ShortCommandDef ==
  ASSUME NEW Words, NEW argv, NEW s \in ParserState(Words), argv[s.index].letters \in Seq(Words)
  PROVE  \E f : /\ ReadsLetters(Words, f, s, argv[s.index].letters)
                /\ ParseShortCommand(argv, s) = f[Len(argv[s.index].letters)]
<1> DEFINE letters == argv[s.index].letters
           n == Len(letters)
           One(k) == [u \in ParserState(Words) |-> ReadLetter(u, letters[k])]
           step == [k \in 1 .. n |-> One(k)]
           F(g) == [k \in 0 .. n |-> IF k = 0 THEN s ELSE ReadLetter(g[k - 1], letters[k])]
           after == CHOOSE g : g = F(g)
<1>1. n \in Nat /\ \A k \in 1 .. n : letters[k] \in Words
  OBVIOUS
<1>2. ParseShortCommand(argv, s) = after[n]
  BY DEF ParseShortCommand
<1> HIDE DEF n, letters
<1>3. step \in [1 .. n -> [ParserState(Words) -> ParserState(Words)]]
  <2>1. \A k \in 1 .. n : One(k) \in [ParserState(Words) -> ParserState(Words)]
    BY <1>1, ReadLetterFacts
  <2> HIDE DEF One
  <2> QED BY <2>1
<1>4. PICK f : Iterates(f, ParserState(Words), n, s, step)
  <2> HIDE DEF step
  <2> QED BY <1>1, <1>3, Iteration
<1>5. f \in [0 .. n -> ParserState(Words)] /\ f[0] = s
  BY <1>4 DEF Iterates
<1>6. ASSUME NEW k \in 1 .. n PROVE f[k] = ReadLetter(f[k - 1], letters[k])
  <2>1. f[k] = step[k][f[k - 1]]
    BY <1>4 DEF Iterates
  <2>2. k - 1 \in 0 .. n
    BY <1>1
  <2>3. f[k - 1] \in ParserState(Words)
    BY <1>5, <2>2
  <2>4. f[k] = One(k)[f[k - 1]]
    BY <2>1
  <2> QED BY <2>3, <2>4
<1> HIDE DEF step
<1>7. f = F(f)
  <2>1. ASSUME NEW k \in 0 .. n PROVE f[k] = IF k = 0 THEN s ELSE ReadLetter(f[k - 1], letters[k])
    <3>1. CASE k = 0
      BY <1>5, <3>1
    <3>2. CASE k # 0
      <4>1. k \in 1 .. n
        BY <1>1, <3>2
      <4> QED BY <1>6, <3>2, <4>1
    <3> QED BY <3>1, <3>2
  <2>2. f = [k \in 0 .. n |-> f[k]]
    BY <1>5
  <2> QED BY <2>1, <2>2
<1>8. after = F(after)
  <2> HIDE DEF F
  <2> QED BY <1>7
<1> HIDE DEF after
<1>9. after[0] = f[0]
  BY <1>1, <1>5, <1>8
<1>10. ASSUME NEW k \in 1 .. n, after[k - 1] = f[k - 1] PROVE after[k] = f[k]
  <2>1. k \in 0 .. n /\ k # 0
    BY <1>1
  <2>2. after[k] = ReadLetter(after[k - 1], letters[k])
    BY <1>8, <2>1
  <2> QED BY <1>6, <1>10, <2>2
<1>11. after[n] = f[n]
  BY <1>1, <1>9, <1>10, Agreement
<1> QED BY <1>2, <1>5, <1>6, <1>11 DEF ReadsLetters, n, letters

(* The options of the first k letters.                                     *)
Flags(letters, k) == [j \in 1 .. k |-> FlagOfLetter[letters[j]]]

Known(letters, k) == \A j \in 1 .. k : letters[j] \in Letters

(* One letter more is one option more.                                     *)
LEMMA FlagsGrow ==
  ASSUME NEW Words, NEW letters \in Seq(Words), NEW k \in Nat, k + 1 <= Len(letters),
         Known(letters, k + 1)
  PROVE  /\ Flags(letters, k) \in Seq(Names)
         /\ Flags(letters, k + 1) = Flags(letters, k) \o <<FlagOfLetter[letters[k + 1]]>>
<1> DEFINE q == Flags(letters, k)
           r == Flags(letters, k + 1)
           x == FlagOfLetter[letters[k + 1]]
<1>1. \A j \in 1 .. k + 1 : FlagOfLetter[letters[j]] \in Names
  BY NameFacts DEF Known
<1>2. q \in Seq(Names) /\ Len(q) = k /\ \A j \in 1 .. k : q[j] = FlagOfLetter[letters[j]]
  BY <1>1 DEF Flags
<1>3. r \in Seq(Names) /\ Len(r) = k + 1 /\ \A j \in 1 .. k + 1 : r[j] = FlagOfLetter[letters[j]]
  BY <1>1 DEF Flags
<1>4. x \in Names /\ r[k + 1] = x
  BY <1>1, <1>3
<1> HIDE DEF q, r, x
<1>5. q \o <<x>> \in Seq(Names) /\ Len(q \o <<x>>) = k + 1
  BY <1>2, <1>4
<1>6. ASSUME NEW j \in 1 .. k + 1 PROVE (q \o <<x>>)[j] = r[j]
  <2>1. CASE j = k + 1
    BY <1>2, <1>4, <2>1
  <2>2. CASE j # k + 1
    <3>1. j \in 1 .. k
      BY <2>2
    <3> QED BY <1>2, <1>3, <3>1
  <2> QED BY <2>1, <2>2
<1>7. r = q \o <<x>>
  BY <1>3, <1>5, <1>6, SeqEqual
<1> QED BY <1>2, <1>7 DEF q, r, x

(* After k letters: the first that is unknown, or every one counted.       *)
LetterTrouble(letters, k, t) ==
  \E j \in 1 .. k : /\ letters[j] \notin Letters
                    /\ Known(letters, j - 1)
                    /\ t.errorText = [result |-> "InvalidOption", command |-> letters[j]]

LettersCounted(letters, k, s, t) ==
  /\ Known(letters, k)
  /\ t.errorText = NoError
  /\ t.index = s.index
  /\ t.value = s.value
  /\ t.positionalArgsValues = s.positionalArgsValues
  /\ \A o \in Names : t.wasSet[o] = s.wasSet[o] + Count(Flags(letters, k), o)

(* A letter keeps the trouble there was, or makes it, or is counted.       *)
LEMMA OneLetter ==
  ASSUME NEW Words, NEW letters \in Seq(Words), NEW k \in Nat, k + 1 <= Len(letters),
         NEW s \in ParserState(Words), NEW t \in ParserState(Words),
         LetterTrouble(letters, k, t) \/ LettersCounted(letters, k, s, t)
  PROVE  \/ LetterTrouble(letters, k + 1, ReadLetter(t, letters[k + 1]))
         \/ LettersCounted(letters, k + 1, s, ReadLetter(t, letters[k + 1]))
<1> DEFINE c == letters[k + 1]
           u == ReadLetter(t, c)
<1>1. c \in Words
  OBVIOUS
<1> HIDE DEF c
<1>2. /\ u \in ParserState(Words)
      /\ t.errorText # NoError => u.errorText = t.errorText
      /\ t.errorText = NoError /\ c \notin Letters =>
           u.errorText = [result |-> "InvalidOption", command |-> c]
      /\ t.errorText = NoError /\ c \in Letters =>
           SameBut(Words, t, u, t.index, [t.wasSet EXCEPT ![FlagOfLetter[c]] = @ + 1],
                   t.value, t.positionalArgsValues)
  BY <1>1, ReadLetterFacts
<1> HIDE DEF u
<1>3. CASE LetterTrouble(letters, k, t)
  <2>1. PICK j \in 1 .. k : /\ letters[j] \notin Letters
                            /\ Known(letters, j - 1)
                            /\ t.errorText = [result |-> "InvalidOption", command |-> letters[j]]
    BY <1>3 DEF LetterTrouble
  <2>2. t.errorText # NoError
    BY <2>1, WrongIsAnError
  <2>3. j \in 1 .. k + 1
    OBVIOUS
  <2> QED BY <1>2, <2>1, <2>2, <2>3 DEF LetterTrouble, u, c
<1>4. CASE LettersCounted(letters, k, s, t) /\ c \notin Letters
  <2>1. k + 1 \in 1 .. k + 1 /\ (k + 1) - 1 = k
    OBVIOUS
  <2>2. Known(letters, k) /\ u.errorText = [result |-> "InvalidOption", command |-> c]
    BY <1>2, <1>4 DEF LettersCounted
  <2>3. LetterTrouble(letters, k + 1, u)
    BY <1>4, <2>1, <2>2 DEF LetterTrouble, c
  <2> QED BY <2>3 DEF u, c
<1>5. CASE LettersCounted(letters, k, s, t) /\ c \in Letters
  <2> DEFINE x == FlagOfLetter[c]
  <2>1. Known(letters, k + 1)
    <3>1. \A j \in 1 .. k + 1 : j \in 1 .. k \/ j = k + 1
      OBVIOUS
    <3> QED BY <1>5, <3>1 DEF LettersCounted, Known, c
  <2>2. x \in Names
    BY <1>5, NameFacts
  <2>3. /\ u.index = t.index
        /\ u.wasSet = [t.wasSet EXCEPT ![x] = @ + 1]
        /\ u.value = t.value
        /\ u.positionalArgsValues = t.positionalArgsValues
        /\ u.errorText = t.errorText
    BY <1>2, <1>5 DEF SameBut, LettersCounted
  <2>4. Flags(letters, k) \in Seq(Names) /\ Flags(letters, k + 1) = Flags(letters, k) \o <<x>>
    BY <2>1, FlagsGrow DEF c
  <2> HIDE DEF x
  <2>5. ASSUME NEW o \in Names PROVE u.wasSet[o] = s.wasSet[o] + Count(Flags(letters, k + 1), o)
    <3>1. t.wasSet \in [Names -> Nat] /\ s.wasSet \in [Names -> Nat]
      BY FieldFacts
    <3>2. t.wasSet[o] = s.wasSet[o] + Count(Flags(letters, k), o)
      BY <1>5 DEF LettersCounted
    <3>3. <<x>> \in Seq(Names)
      BY <2>2
    <3>4. /\ Count(Flags(letters, k), o) \in Nat
          /\ Count(Flags(letters, k + 1), o) = Count(Flags(letters, k), o) + Count(<<x>>, o)
      <4> DEFINE q == Flags(letters, k)
                 r == <<x>>
      <4>1. q \in Seq(Names) /\ r \in Seq(Names) /\ Flags(letters, k + 1) = q \o r
        BY <2>4, <3>3
      <4> HIDE DEF q, r
      <4>2. Count(q, o) \in Nat /\ Count(q \o r, o) = Count(q, o) + Count(r, o)
        BY <4>1, CountConcat
      <4> QED BY <4>1, <4>2 DEF q, r
    <3>5. Count(<<x>>, o) = IF x = o THEN 1 ELSE 0
      BY CountOne
    <3>6. u.wasSet[o] = t.wasSet[o] + (IF x = o THEN 1 ELSE 0)
      BY <2>2, <2>3, <3>1
    <3> QED BY <3>1, <3>2, <3>4, <3>5, <3>6
  <2>6. LettersCounted(letters, k + 1, s, u)
    BY <1>5, <2>1, <2>3, <2>5 DEF LettersCounted
  <2> QED BY <2>6 DEF u, c
<1> QED BY <1>3, <1>4, <1>5

(* So does every letter up to the last.                                    *)
LEMMA LettersRead ==
  ASSUME NEW Words, NEW letters \in Seq(Words), NEW s \in ParserState(Words), s.errorText = NoError,
         NEW f, ReadsLetters(Words, f, s, letters)
  PROVE  \/ LetterTrouble(letters, Len(letters), f[Len(letters)])
         \/ LettersCounted(letters, Len(letters), s, f[Len(letters)])
<1> DEFINE n == Len(letters)
           T == {k \in Nat : k <= n => \/ LetterTrouble(letters, k, f[k])
                                       \/ LettersCounted(letters, k, s, f[k])}
<1>1. n \in Nat
  OBVIOUS
<1>2. LettersCounted(letters, 0, s, f[0])
  <2>1. Flags(letters, 0) = <<>>
    BY DEF Flags
  <2>2. \A o \in Names : s.wasSet[o] \in Nat
    BY FieldFacts
  <2>3. f[0] = s
    BY DEF ReadsLetters
  <2>4. Known(letters, 0)
    BY DEF Known
  <2> QED BY <2>1, <2>2, <2>3, <2>4, CountNone DEF LettersCounted
<1>3. ASSUME NEW k \in Nat, k \in T PROVE k + 1 \in T
  <2> SUFFICES ASSUME k + 1 <= n
               PROVE  \/ LetterTrouble(letters, k + 1, f[k + 1])
                      \/ LettersCounted(letters, k + 1, s, f[k + 1])
    OBVIOUS
  <2>1. k \in 0 .. n /\ k + 1 \in 1 .. n /\ (k + 1) - 1 = k
    BY <1>1
  <2>2. f[k] \in ParserState(Words) /\ f[k + 1] = ReadLetter(f[k], letters[k + 1])
    BY <2>1 DEF ReadsLetters
  <2>3. LetterTrouble(letters, k, f[k]) \/ LettersCounted(letters, k, s, f[k])
    BY <1>3, <2>1
  <2> QED BY <2>2, <2>3, OneLetter
<1>4. 0 \in T
  BY <1>2
<1> HIDE DEF T
<1>5. \A k \in Nat : k \in T
  BY <1>3, <1>4, Induction
<1> QED BY <1>1, <1>5 DEF T

(* Letters behind one dash are read as they are written.                   *)
LEMMA ShortRead ==
  ASSUME NEW Words, NEW argv, NEW i, NEW s, Meets(Words, argv, i, s), argv[i].form = "short"
  PROVE  HasRead(Words, argv, i, s, ParseArgument(argv, s))
<1> DEFINE a == argv[i]
           letters == a.letters
           n == Len(letters)
           t == ParseArgument(argv, s)
           bad == {k \in DOMAIN letters : letters[k] \notin Letters}
<1>1. a \in Argument(Words) /\ s \in ParserState(Words) /\ s.index = i /\ i \in DOMAIN argv /\ s.errorText = NoError
  BY DEF Meets
<1> HIDE DEF a
<1>2. a.form = "short" /\ letters \in Seq(Words)
  BY <1>1, ArgumentFacts DEF a
<1>3. t = ParseShortCommand(argv, s)
  BY <1>1, <1>2 DEF ParseArgument, a
<1>4. argv[s.index].letters = letters
  BY <1>1 DEF a
<1> HIDE DEF t, letters
<1>5. PICK f : ReadsLetters(Words, f, s, letters) /\ t = f[n]
  BY <1>1, <1>2, <1>3, <1>4, ShortCommandDef
<1>6. LetterTrouble(letters, n, t) \/ LettersCounted(letters, n, s, t)
  BY <1>1, <1>2, <1>5, LettersRead
<1>7. n \in Nat /\ DOMAIN letters = 1 .. n /\ t \in ParserState(Words)
  BY <1>2, <1>5 DEF ReadsLetters
<1>8. CASE LetterTrouble(letters, n, t)
  <2>1. PICK j \in 1 .. n : /\ letters[j] \notin Letters
                            /\ Known(letters, j - 1)
                            /\ t.errorText = [result |-> "InvalidOption", command |-> letters[j]]
    BY <1>8 DEF LetterTrouble
  <2>2. j \in bad /\ bad \subseteq Int
    BY <1>7, <2>1
  <2>3. ASSUME NEW k \in bad PROVE j <= k
    <3>1. k \in 1 .. n /\ ~ (k \in 1 .. j - 1)
      BY <1>7, <2>1 DEF Known
    <3> QED BY <1>7, <3>1
  <2> HIDE DEF bad
  <2>4. Min(bad) = j
    BY <2>2, <2>3, MinIs
  <2>5. Complaint(argv, i) = [result |-> "InvalidOption", command |-> letters[Min(bad)]]
    BY <1>2, <1>7, <2>1 DEF Complaint, bad, letters, a
  <2>6. Complaint(argv, i) # NoError
    BY <2>5, WrongIsAnError
  <2> QED BY <1>7, <2>1, <2>4, <2>5, <2>6 DEF HasRead, t
<1>9. CASE LettersCounted(letters, n, s, t)
  <2>1. \A k \in DOMAIN letters : letters[k] \in Letters
    BY <1>7, <1>9 DEF LettersCounted, Known
  <2>2. Complaint(argv, i) = NoError
    BY <1>2, <2>1 DEF Complaint, letters, a
  <2>3. ~ IsBare(argv[i]) /\ (\A o : i \notin Gives(argv, o)) /\ Positional(argv, i) = <<>>
    BY <1>2 DEF IsBare, Gives, Positional, a
  <2>4. NamedBy(argv[i]) = Flags(letters, n)
    BY <1>2, <1>7 DEF NamedBy, Flags, letters, a
  <2>5. Counted(argv, i, s, t)
    BY <1>9, <2>4 DEF LettersCounted, Counted
  <2>6. Valued(argv, i, s, t)
    BY <1>9, <2>3 DEF LettersCounted, Valued
  <2>7. s.positionalArgsValues \o <<>> = s.positionalArgsValues
    <3>1. s.positionalArgsValues \in Seq(Texts)
      BY <1>1, FieldFacts
    <3> QED BY <3>1
  <2>8. t.errorText = NoError /\ t.index = i /\ t.positionalArgsValues = s.positionalArgsValues
    BY <1>1, <1>9 DEF LettersCounted
  <2> QED BY <1>7, <2>2, <2>3, <2>5, <2>6, <2>7, <2>8 DEF HasRead, Follows, t
<1> QED BY <1>6, <1>8, <1>9

(* Every argument is read as it is written.                                *)
LEMMA ArgumentRead ==
  ASSUME NEW Words, NEW argv, NEW i, NEW s, Meets(Words, argv, i, s)
  PROVE  HasRead(Words, argv, i, s, ParseArgument(argv, s))
<1>1. argv[i] \in Argument(Words)
  BY DEF Meets
<1>2. argv[i].form \in {"long", "short", "plain"}
  BY <1>1, ArgumentFacts
<1> QED BY <1>2, LongRead, ShortRead, PlainRead

-----------------------------------------------------------------------------
(* The arguments up to one of them.                                        *)

Pieces(argv, named, texts) ==
  /\ Flattens(texts, Texts, [i \in DOMAIN argv |-> Positional(argv, i)])
  /\ Faulty(argv) = {} => Flattens(named, Names, [i \in DOMAIN argv |-> NamedBy(argv[i])])

(* What a state says of the first i arguments, none of them wrong.         *)
LastGiven(argv, i, o, j) == j \in Gives(argv, o) /\ j <= i /\ \A h \in Gives(argv, o) : h <= i => h <= j

Knows(argv, named, texts, s, i) ==
  /\ \A j \in 1 .. i : Complaint(argv, j) = NoError
  /\ Faulty(argv) = {} => \A o \in Names : s.wasSet[o] = Count(named[i], o)
  /\ \A o \in InputOptions : \A j : LastGiven(argv, i, o, j) => s.value[o] = ValueGiven(argv, j)
  /\ s.positionalArgsValues = texts[i]

(* The pieces join one by one.                                             *)
LEMMA PieceFacts ==
  ASSUME NEW Words, NEW argv \in Seq(Argument(Words)), NEW named, NEW texts, Pieces(argv, named, texts),
         NEW i \in 1 .. Len(argv)
  PROVE  /\ texts[i - 1] \in Seq(Texts)
         /\ texts[i] = texts[i - 1] \o Positional(argv, i)
         /\ Faulty(argv) = {} =>
              /\ named[i - 1] \in Seq(Names)
              /\ named[i] \in Seq(Names)
              /\ named[i] = named[i - 1] \o NamedBy(argv[i])
<1>1. i \in DOMAIN argv /\ Len([j \in DOMAIN argv |-> Positional(argv, j)]) = Len(argv)
      /\ Len([j \in DOMAIN argv |-> NamedBy(argv[j])]) = Len(argv)
      /\ i - 1 \in 0 .. Len(argv) /\ i \in 0 .. Len(argv)
  OBVIOUS
<1>2. texts[i - 1] \in Seq(Texts) /\ texts[i] = texts[i - 1] \o Positional(argv, i)
  BY <1>1 DEF Pieces, Flattens
<1>3. ASSUME Faulty(argv) = {}
      PROVE  /\ named[i - 1] \in Seq(Names)
             /\ named[i] \in Seq(Names)
             /\ named[i] = named[i - 1] \o NamedBy(argv[i])
  BY <1>1, <1>3 DEF Pieces, Flattens
<1> QED BY <1>2, <1>3

(* An argument there is no complaint about.                                *)
LEMMA LongFaultless ==
  ASSUME NEW W, NEW argv \in Seq(Argument(W)), NEW i \in DOMAIN argv, argv[i].form = "long",
         Complaint(argv, i) = NoError
  PROVE  /\ argv[i].name \in Names
         /\ argv[i].value \in Texts \cup {NoValue}
         /\ argv[i].name \notin InputOptions => argv[i].value = NoValue
         /\ argv[i].name \in InputOptions /\ argv[i].value # NoValue => ~ LooksMissing(argv[i].value)
         /\ IsBare(argv[i]) => i + 1 \in DOMAIN argv /\ IsValue(argv, i + 1)
<1> DEFINE a == argv[i]
           Wrong(why) == [result |-> why, command |-> a.name]
<1>1. a \in Argument(W) /\ i \in Nat /\ DOMAIN argv = 1 .. Len(argv) /\ Len(argv) \in Nat
  OBVIOUS
<1> HIDE DEF a
<1>2. a.value \in Texts \cup {NoValue} /\ a.form = "long"
  BY <1>1, ArgumentFacts DEF a
<1>3. \A why : why # "ParseSuccessful" => Wrong(why) # NoError
  BY WrongIsAnError
<1> HIDE DEF Wrong
<1>4. /\ Wrong("InvalidOption") # NoError
      /\ Wrong("ValuePassedToOptionThatDoesNotTakeValue") # NoError
      /\ Wrong("NoValueWasPassedToOption") # NoError
  BY <1>3
<1>5. a.name \in Names
  <2> SUFFICES ASSUME a.name \notin Names PROVE FALSE
    OBVIOUS
  <2>1. Complaint(argv, i) = Wrong("InvalidOption")
    BY <1>2, NameFacts DEF Complaint, Wrong, a
  <2> QED BY <1>4, <2>1
<1>6. a.name \notin InputOptions => a.value = NoValue
  <2> SUFFICES ASSUME a.name \notin InputOptions, a.value # NoValue PROVE FALSE
    OBVIOUS
  <2>1. Complaint(argv, i) = Wrong("ValuePassedToOptionThatDoesNotTakeValue")
    BY <1>2, <1>5, NameFacts DEF Complaint, Wrong, a
  <2> QED BY <1>4, <2>1
<1>7. a.name \in InputOptions /\ a.value # NoValue => ~ LooksMissing(a.value)
  <2> SUFFICES ASSUME a.name \in InputOptions, a.value # NoValue, LooksMissing(a.value) PROVE FALSE
    OBVIOUS
  <2>1. Complaint(argv, i) = Wrong("NoValueWasPassedToOption")
    BY <1>2, <1>5, NameFacts DEF Complaint, Wrong, a
  <2> QED BY <1>4, <2>1
<1>8. ASSUME IsBare(argv[i]) PROVE i + 1 \in DOMAIN argv /\ IsValue(argv, i + 1)
  <2>1. a.name \in InputOptions /\ a.value = NoValue
    BY <1>8 DEF IsBare, a
  <2>2. ~ (i = Len(argv) \/ ~ IsValue(argv, i + 1))
    <3> SUFFICES ASSUME i = Len(argv) \/ ~ IsValue(argv, i + 1) PROVE FALSE
      OBVIOUS
    <3>1. Complaint(argv, i) = Wrong("NoValueWasPassedToOption")
      BY <1>2, <1>5, <2>1, NameFacts DEF Complaint, Wrong, a
    <3> QED BY <1>4, <3>1
  <2> QED BY <1>1, <2>2
<1> QED BY <1>2, <1>5, <1>6, <1>7, <1>8 DEF a

(* The letters of such an argument are known.                              *)
LEMMA ShortFaultless ==
  ASSUME NEW argv, NEW i, argv[i].form = "short", Complaint(argv, i) = NoError
  PROVE  \A k \in DOMAIN argv[i].letters : argv[i].letters[k] \in Letters
<1> SUFFICES ASSUME \E k \in DOMAIN argv[i].letters : argv[i].letters[k] \notin Letters PROVE FALSE
  OBVIOUS
<1> DEFINE c == argv[i].letters[Min({k \in DOMAIN argv[i].letters : argv[i].letters[k] \notin Letters})]
<1>1. Complaint(argv, i) = [result |-> "InvalidOption", command |-> c]
  BY DEF Complaint
<1> HIDE DEF c
<1> QED BY <1>1, WrongIsAnError

(* It names options that there are.                                        *)
LEMMA NamedByFacts ==
  ASSUME NEW Words, NEW argv \in Seq(Argument(Words)), NEW i \in DOMAIN argv, Complaint(argv, i) = NoError
  PROVE  NamedBy(argv[i]) \in Seq(Names)
<1> DEFINE a == argv[i]
<1>1. a \in Argument(Words)
  OBVIOUS
<1> HIDE DEF a
<1>2. /\ a.form \in {"long", "short", "plain"}
      /\ a.form = "short" => a.letters \in Seq(Words)
  BY <1>1, ArgumentFacts
<1>3. CASE a.form = "long"
  <2>1. a.name \in Names
    BY <1>3, LongFaultless DEF a
  <2>2. NamedBy(argv[i]) = <<a.name>>
    BY <1>3 DEF NamedBy, a
  <2> QED BY <2>1, <2>2
<1>4. CASE a.form = "short"
  <2>1. \A k \in DOMAIN a.letters : a.letters[k] \in Letters
    BY <1>4, ShortFaultless DEF a
  <2>2. NamedBy(argv[i]) = [k \in DOMAIN a.letters |-> FlagOfLetter[a.letters[k]]]
    BY <1>4 DEF NamedBy, a
  <2>3. \A k \in DOMAIN a.letters : FlagOfLetter[a.letters[k]] \in Names
    BY <2>1, NameFacts
  <2>4. Len(a.letters) \in Nat /\ DOMAIN a.letters = 1 .. Len(a.letters)
    BY <1>2, <1>4
  <2> QED BY <2>2, <2>3, <2>4
<1>5. CASE a.form = "plain"
  BY <1>5 DEF NamedBy, a
<1> QED BY <1>2, <1>3, <1>4, <1>5

(* What is known grows by the argument that is read,                       *)
LEMMA ReadMore ==
  ASSUME NEW Words, NEW argv, NEW named, NEW texts, Pieces(argv, named, texts),
         NEW i, NEW s, NEW t, Meets(Words, argv, i, s), HasRead(Words, argv, i, s, t),
         Complaint(argv, i) = NoError, Knows(argv, named, texts, s, i - 1)
  PROVE  Knows(argv, named, texts, t, i)
<1>1. argv \in Seq(Argument(Words)) /\ i \in 1 .. Len(argv) /\ i \in DOMAIN argv /\ i \in Nat
  BY DEF Meets
<1>2. \A j \in 1 .. i : j = i \/ j \in 1 .. i - 1
  BY <1>1
<1>3. \A j \in 1 .. i : Complaint(argv, j) = NoError
  BY <1>2 DEF Knows
<1>4. ASSUME Faulty(argv) = {}, NEW o \in Names PROVE t.wasSet[o] = Count(named[i], o)
  <2> DEFINE q == named[i - 1]
             r == NamedBy(argv[i])
  <2>1. q \in Seq(Names) /\ named[i] = q \o r
    BY <1>1, <1>4, PieceFacts
  <2>2. r \in Seq(Names)
    BY <1>1, NamedByFacts
  <2>3. t.wasSet[o] = s.wasSet[o] + Count(r, o)
    BY DEF HasRead, Counted
  <2>4. s.wasSet[o] = Count(q, o)
    BY <1>4 DEF Knows
  <2> HIDE DEF q, r
  <2>5. Count(q \o r, o) = Count(q, o) + Count(r, o)
    BY <2>1, <2>2, CountConcat
  <2> QED BY <2>1, <2>3, <2>4, <2>5
<1>5. ASSUME NEW o \in InputOptions, NEW j, LastGiven(argv, i, o, j)
      PROVE  t.value[o] = ValueGiven(argv, j)
  <2>1. Gives(argv, o) \subseteq Nat
    <3>1. DOMAIN argv \subseteq Nat
      BY <1>1
    <3> QED BY <3>1 DEF Gives
  <2>2. t.value[o] = IF i \in Gives(argv, o) THEN ValueGiven(argv, i) ELSE s.value[o]
    BY DEF HasRead, Valued
  <2>3. CASE i \in Gives(argv, o)
    <3>1. j = i
      BY <1>1, <1>5, <2>1, <2>3 DEF LastGiven
    <3> QED BY <2>2, <2>3, <3>1
  <2>4. CASE i \notin Gives(argv, o)
    <3>1. j \in Gives(argv, o) /\ j # i /\ j \in Nat /\ j <= i
      BY <1>5, <2>1, <2>4 DEF LastGiven
    <3>2. \A h \in Gives(argv, o) : h <= i - 1 => h <= j
      BY <1>1, <1>5, <2>1 DEF LastGiven
    <3>3. LastGiven(argv, i - 1, o, j)
      BY <1>1, <3>1, <3>2 DEF LastGiven
    <3>4. s.value[o] = ValueGiven(argv, j)
      BY <3>3 DEF Knows
    <3> QED BY <2>2, <2>4, <3>4
  <2> QED BY <2>3, <2>4
<1>6. t.positionalArgsValues = texts[i]
  <2>1. texts[i] = texts[i - 1] \o Positional(argv, i)
    BY <1>1, PieceFacts
  <2> QED BY <2>1 DEF HasRead, Knows
<1> QED BY <1>3, <1>4, <1>5, <1>6 DEF Knows

(* and by the value that is skipped with it, which says nothing itself.    *)
LEMMA SkipValue ==
  ASSUME NEW Words, NEW argv \in Seq(Argument(Words)), NEW named, NEW texts, Pieces(argv, named, texts),
         NEW i \in Nat, i + 1 \in 1 .. Len(argv), IsValue(argv, i + 1),
         NEW t, Knows(argv, named, texts, t, i)
  PROVE  Knows(argv, named, texts, t, i + 1)
<1>1. argv[i + 1].form = "plain" /\ (i + 1) - 1 = i /\ i + 1 \in DOMAIN argv
  BY DEF IsValue
<1>2. \A j \in 1 .. i + 1 : j = i + 1 \/ j \in 1 .. i
  OBVIOUS
<1>3. Complaint(argv, i + 1) = NoError
  BY <1>1 DEF Complaint
<1>4. NamedBy(argv[i + 1]) = <<>> /\ Positional(argv, i + 1) = <<>>
  BY <1>1 DEF NamedBy, Positional
<1> DEFINE k == i + 1
<1>0. k \in 1 .. Len(argv) /\ k - 1 = i
  OBVIOUS
<1>5. texts[i] \in Seq(Texts) /\ texts[i + 1] = texts[i] \o <<>>
  <2> HIDE DEF k
  <2>1. texts[k - 1] \in Seq(Texts) /\ texts[k] = texts[k - 1] \o Positional(argv, k)
    BY <1>0, PieceFacts
  <2> QED BY <1>0, <1>4, <2>1 DEF k
<1>6. texts[i + 1] = texts[i]
  BY <1>5
<1>7. Faulty(argv) = {} => named[i + 1] = named[i]
  <2> SUFFICES ASSUME Faulty(argv) = {} PROVE named[i + 1] = named[i]
    OBVIOUS
  <2>1. named[i] \in Seq(Names) /\ named[i + 1] = named[i] \o <<>>
    <3> HIDE DEF k
    <3>1. named[k - 1] \in Seq(Names) /\ named[k] = named[k - 1] \o NamedBy(argv[k])
      BY <1>0, PieceFacts
    <3> QED BY <1>0, <1>4, <3>1 DEF k
  <2> QED BY <2>1
<1>8. ASSUME NEW o \in InputOptions, NEW j, LastGiven(argv, i + 1, o, j)
      PROVE  LastGiven(argv, i, o, j)
  <2>1. i + 1 \notin Gives(argv, o)
    BY <1>1 DEF Gives
  <2>2. Gives(argv, o) \subseteq Nat
    <3>1. DOMAIN argv \subseteq Nat
      OBVIOUS
    <3> QED BY <3>1 DEF Gives
  <2>3. j \in Gives(argv, o) /\ j \in Nat /\ j <= i + 1 /\ j # i + 1
    BY <1>8, <2>1, <2>2 DEF LastGiven
  <2>4. \A h \in Gives(argv, o) : h <= i => h <= j
    BY <1>8, <2>2 DEF LastGiven
  <2> QED BY <2>3, <2>4 DEF LastGiven
<1>9. \A j \in 1 .. i + 1 : Complaint(argv, j) = NoError
  BY <1>2, <1>3 DEF Knows
<1> QED BY <1>6, <1>7, <1>8, <1>9 DEF Knows

-----------------------------------------------------------------------------
(* The loop.                                                               *)

(* It ended at the first argument that is wrong, or it is at an argument   *)
(* that is no value, or behind the last.                                   *)
Stuck(argv, s) ==
  \E j \in DOMAIN argv : /\ Complaint(argv, j) # NoError
                         /\ \A h \in 1 .. j - 1 : Complaint(argv, h) = NoError
                         /\ s.errorText = Complaint(argv, j)

Stands(argv, named, texts, s) ==
  /\ s.errorText = NoError
  /\ s.index \in 1 .. Len(argv) + 1
  /\ s.index <= Len(argv) => ~ IsValue(argv, s.index)
  /\ Knows(argv, named, texts, s, s.index - 1)

Between(Words, argv, named, texts) ==
  {s \in ParserState(Words) : Stuck(argv, s) \/ Stands(argv, named, texts, s)}

(* The loop starts at an argument that is no value, knowing nothing.       *)
LEMMA ResetStands ==
  ASSUME NEW Words, NEW argv \in Seq(Argument(Words)), NEW named, NEW texts, Pieces(argv, named, texts)
  PROVE  Reset \in Between(Words, argv, named, texts)
<1> DEFINE s == Reset
<1>1. /\ s \in ParserState(Words)
      /\ s.index = 1
      /\ s.errorText = NoError
      /\ \A o \in Names : s.wasSet[o] = 0
      /\ s.positionalArgsValues = <<>>
  BY ResetFacts
<1> HIDE DEF s
<1>2. Len(argv) \in Nat
  OBVIOUS
<1>3. ~ IsValue(argv, 1)
  BY DEF IsValue
<1>4. texts[0] = <<>> /\ (Faulty(argv) = {} => named[0] = <<>>)
  BY DEF Pieces, Flattens
<1>5. \A o : Count(<<>>, o) = 0
  BY CountNone
<1>6. \A o \in InputOptions : \A j : ~ LastGiven(argv, 0, o, j)
  <2>1. \A o : Gives(argv, o) \subseteq Nat \ {0}
    <3>1. DOMAIN argv \subseteq Nat \ {0}
      OBVIOUS
    <3> QED BY <3>1 DEF Gives
  <2> QED BY <2>1 DEF LastGiven
<1>7. Knows(argv, named, texts, s, 0)
  BY <1>1, <1>4, <1>5, <1>6 DEF Knows
<1>8. s.index - 1 = 0 /\ s.index \in 1 .. Len(argv) + 1
  BY <1>1, <1>2
<1>9. Stands(argv, named, texts, s)
  BY <1>1, <1>3, <1>7, <1>8 DEF Stands
<1> QED BY <1>1, <1>9 DEF Between, s

(* What is known does not depend on the index.                             *)
LEMMA KnowsSame ==
  ASSUME NEW argv, NEW named, NEW texts, NEW s, NEW t, NEW i, Knows(argv, named, texts, s, i),
         t.wasSet = s.wasSet, t.value = s.value, t.positionalArgsValues = s.positionalArgsValues
  PROVE  Knows(argv, named, texts, t, i)
BY DEF Knows

(* A round of the loop leaves it so, and further on.                       *)
FurtherOn(argv, s, t) ==
  s.errorText = NoError /\ t.errorText = NoError =>
    IF s.index <= Len(argv) THEN t.index > s.index ELSE t.index = s.index

(* A round ends stuck or at an argument that is no value, and further on.  *)
LEMMA NextStands ==
  ASSUME NEW Words, NEW argv \in Seq(Argument(Words)), NEW named, NEW texts, Pieces(argv, named, texts),
         NEW s \in Between(Words, argv, named, texts)
  PROVE  /\ ParseNext(argv, s) \in Between(Words, argv, named, texts)
         /\ FurtherOn(argv, s, ParseNext(argv, s))
<1> DEFINE i == s.index
           t == ParseArgument(argv, s)
           u == [t EXCEPT !.index = @ + 1]
           n == ParseNext(argv, s)
<1>1. s \in ParserState(Words) /\ (Stuck(argv, s) \/ Stands(argv, named, texts, s))
  BY DEF Between
<1>2. Len(argv) \in Nat /\ DOMAIN argv = 1 .. Len(argv) /\ i \in Nat
  <2>1. i \in Nat
    BY <1>1, FieldFacts
  <2> QED BY <2>1
<1>3. CASE s.errorText # NoError \/ i > Len(argv)
  <2>1. n = s
    BY <1>3 DEF ParseNext
  <2>2. FurtherOn(argv, s, s)
    BY <1>2, <1>3 DEF FurtherOn
  <2> QED BY <2>1, <2>2
<1>4. CASE ~ (s.errorText # NoError \/ i > Len(argv))
  <2>1. n = u
    BY <1>4 DEF ParseNext
  <2> HIDE DEF n
  <2>2. Stands(argv, named, texts, s)
    <3>1. ~ Stuck(argv, s)
      BY <1>4 DEF Stuck
    <3> QED BY <1>1, <3>1
  <2>3. i \in 1 .. Len(argv) /\ ~ IsValue(argv, i) /\ Knows(argv, named, texts, s, i - 1)
    BY <1>2, <1>4, <2>2 DEF Stands
  <2>4. Meets(Words, argv, i, s)
    BY <1>1, <1>4, <2>3 DEF Meets
  <2> HIDE DEF i
  <2>5. HasRead(Words, argv, i, s, t)
    BY <2>4, ArgumentRead
  <2> HIDE DEF t
  <2>6. t \in ParserState(Words) /\ t.errorText = Complaint(argv, i)
    BY <2>5 DEF HasRead
  <2>7. SameBut(Words, t, u, t.index + 1, t.wasSet, t.value, t.positionalArgsValues)
    BY <2>6, NextIndexFacts
  <2> HIDE DEF u
  <2>8. CASE Complaint(argv, i) # NoError
    <3>1. u \in ParserState(Words) /\ u.errorText = Complaint(argv, i)
      BY <2>6, <2>7 DEF SameBut
    <3>2. Stuck(argv, u)
      <4>1. \A h \in 1 .. i - 1 : Complaint(argv, h) = NoError
        BY <2>3 DEF Knows
      <4>2. i \in DOMAIN argv
        BY <1>2, <2>3
      <4> QED BY <2>8, <3>1, <4>1, <4>2 DEF Stuck
    <3>3. FurtherOn(argv, s, u)
      BY <2>8, <3>1 DEF FurtherOn
    <3> QED BY <2>1, <3>1, <3>2, <3>3 DEF Between, n
  <2>9. CASE Complaint(argv, i) = NoError
    <3>1. /\ t.index = IF IsBare(argv[i]) THEN i + 1 ELSE i
          /\ Follows(argv, i)
      BY <2>5, <2>9 DEF HasRead
    <3>2. /\ u \in ParserState(Words)
          /\ u.index = t.index + 1
          /\ u.wasSet = t.wasSet
          /\ u.value = t.value
          /\ u.positionalArgsValues = t.positionalArgsValues
          /\ u.errorText = NoError
      BY <2>6, <2>7, <2>9 DEF SameBut
    <3>3. Knows(argv, named, texts, t, i)
      BY <2>3, <2>4, <2>5, <2>9, ReadMore
    <3>4. CASE IsBare(argv[i])
      <4>1. i + 1 \in 1 .. Len(argv) /\ IsValue(argv, i + 1) /\ i \in Nat
        BY <1>2, <2>3, <3>1, <3>4 DEF Follows
      <4>2. Knows(argv, named, texts, t, i + 1)
        BY <3>3, <4>1, SkipValue
      <4>3. Knows(argv, named, texts, u, i + 1)
        BY <3>2, <4>2, KnowsSame
      <4>4. u.index = i + 2 /\ u.index - 1 = i + 1 /\ u.index \in 1 .. Len(argv) + 1 /\ u.index > i
        BY <1>2, <3>1, <3>2, <3>4, <4>1
      <4>5. ~ IsValue(argv, u.index)
        <5>1. ~ IsBare(argv[i + 1])
          BY <4>1 DEF IsValue, IsBare
        <5> QED BY <4>4, <5>1 DEF IsValue
      <4>6. Stands(argv, named, texts, u)
        BY <3>2, <4>3, <4>4, <4>5 DEF Stands
      <4>7. FurtherOn(argv, s, u)
        BY <1>2, <2>3, <4>4 DEF FurtherOn, i
      <4> QED BY <2>1, <3>2, <4>6, <4>7 DEF Between, n
    <3>5. CASE ~ IsBare(argv[i])
      <4>1. u.index = i + 1 /\ u.index - 1 = i /\ u.index \in 1 .. Len(argv) + 1 /\ u.index > i
        BY <1>2, <2>3, <3>1, <3>2, <3>5
      <4>2. Knows(argv, named, texts, u, i)
        BY <3>2, <3>3, KnowsSame
      <4>3. ~ IsValue(argv, u.index)
        BY <3>5, <4>1 DEF IsValue
      <4>4. Stands(argv, named, texts, u)
        BY <3>2, <4>1, <4>2, <4>3 DEF Stands
      <4>5. FurtherOn(argv, s, u)
        BY <1>2, <2>3, <4>1 DEF FurtherOn, i
      <4> QED BY <2>1, <3>2, <4>4, <4>5 DEF Between, n
    <3> QED BY <3>4, <3>5
  <2> QED BY <2>8, <2>9
<1> QED BY <1>3, <1>4

(* The states between the rounds.                                          *)
Rounds(f, argv, S) ==
  /\ f \in [0 .. Len(argv) -> S]
  /\ f[0] = Reset
  /\ \A k \in 1 .. Len(argv) : f[k] = ParseNext(argv, f[k - 1])
  /\ Parse(argv) = f[Len(argv)]

(* The loop goes through such states.                                      *)
LEMMA ParseDef ==
  ASSUME NEW Words, NEW argv \in Seq(Argument(Words)), NEW named, NEW texts, Pieces(argv, named, texts)
  PROVE  \E f : Rounds(f, argv, Between(Words, argv, named, texts))
<1> DEFINE n == Len(argv)
           S == Between(Words, argv, named, texts)
           Round == [u \in S |-> ParseNext(argv, u)]
           step == [k \in 1 .. n |-> Round]
           F(g) == [k \in 0 .. n |-> IF k = 0 THEN Reset ELSE ParseNext(argv, g[k - 1])]
           after == CHOOSE g : g = F(g)
<1>1. n \in Nat
  OBVIOUS
<1>2. Parse(argv) = after[n]
  BY DEF Parse
<1>3. Reset \in S /\ \A u \in S : ParseNext(argv, u) \in S
  BY ResetStands, NextStands
<1> HIDE DEF n, S
<1>4. step \in [1 .. n -> [S -> S]]
  <2>1. Round \in [S -> S]
    BY <1>3
  <2> HIDE DEF Round
  <2> QED BY <2>1
<1>5. PICK f : Iterates(f, S, n, Reset, step)
  <2> HIDE DEF step
  <2> QED BY <1>1, <1>3, <1>4, Iteration
<1>6. f \in [0 .. n -> S] /\ f[0] = Reset
  BY <1>5 DEF Iterates
<1>7. ASSUME NEW k \in 1 .. n PROVE f[k] = ParseNext(argv, f[k - 1])
  <2>1. f[k] = step[k][f[k - 1]]
    BY <1>5 DEF Iterates
  <2>2. k - 1 \in 0 .. n
    BY <1>1
  <2>3. f[k - 1] \in S
    BY <1>6, <2>2
  <2>4. f[k] = Round[f[k - 1]]
    BY <2>1
  <2> QED BY <2>3, <2>4
<1> HIDE DEF step
<1>8. f = F(f)
  <2>1. ASSUME NEW k \in 0 .. n PROVE f[k] = IF k = 0 THEN Reset ELSE ParseNext(argv, f[k - 1])
    <3>1. CASE k = 0
      BY <1>6, <3>1
    <3>2. CASE k # 0
      <4>1. k \in 1 .. n
        BY <1>1, <3>2
      <4> QED BY <1>7, <3>2, <4>1
    <3> QED BY <3>1, <3>2
  <2>2. f = [k \in 0 .. n |-> f[k]]
    BY <1>6
  <2> QED BY <2>1, <2>2
<1>9. after = F(after)
  <2> HIDE DEF F
  <2> QED BY <1>8
<1> HIDE DEF after
<1>10. after[0] = f[0]
  BY <1>1, <1>6, <1>9
<1>11. ASSUME NEW k \in 1 .. n, after[k - 1] = f[k - 1] PROVE after[k] = f[k]
  <2>1. k \in 0 .. n /\ k # 0
    BY <1>1
  <2>2. after[k] = ParseNext(argv, after[k - 1])
    BY <1>9, <2>1
  <2> QED BY <1>7, <1>11, <2>2
<1>12. after[n] = f[n]
  BY <1>1, <1>10, <1>11, Agreement
<1> QED BY <1>2, <1>6, <1>7, <1>12 DEF Rounds, n, S

(* A nonempty set of indices has a last one.                               *)
LEMMA LastOne ==
  ASSUME NEW n \in Nat, NEW G, G \subseteq 1 .. n, G # {}
  PROVE  \E x \in G : \A h \in G : h <= x
<1> DEFINE T == {m \in Nat : \A h \in G : h <= m}
<1>1. n \in T
  OBVIOUS
<1>2. PICK x \in T : \A y \in T : x <= y
  BY <1>1, Least
<1>3. x \in G
  <2> SUFFICES ASSUME x \notin G PROVE FALSE
    OBVIOUS
  <2>1. \A h \in G : h \in Nat \ {0} /\ h <= x /\ h # x
    BY <1>2
  <2>2. \A h \in G : h <= x - 1 /\ x - 1 \in Nat
    BY <1>2, <2>1
  <2>3. x - 1 \in T
    BY <2>2
  <2> QED BY <1>2, <2>3
<1> QED BY <1>2, <1>3

(* Every command line has its pieces.                                      *)
LEMMA PiecesExist ==
  ASSUME NEW Words, NEW argv \in Seq(Argument(Words))
  PROVE  \E named, texts : Pieces(argv, named, texts)
<1> DEFINE P == [i \in DOMAIN argv |-> Positional(argv, i)]
           N == [i \in DOMAIN argv |-> NamedBy(argv[i])]
<1>1. Len(argv) \in Nat /\ DOMAIN argv = 1 .. Len(argv)
  OBVIOUS
<1>2. P \in Seq(Seq(Texts))
  <2>1. \A i \in DOMAIN argv : Positional(argv, i) \in Seq(Texts)
    <3> SUFFICES ASSUME NEW i \in DOMAIN argv PROVE Positional(argv, i) \in Seq(Texts)
      OBVIOUS
    <3>1. argv[i] \in Argument(Words)
      OBVIOUS
    <3>2. argv[i].form = "plain" => argv[i].text \in Texts
      BY <3>1, ArgumentFacts
    <3> QED BY <3>2 DEF Positional
  <2> QED BY <1>1, <2>1
<1>3. Faulty(argv) = {} => N \in Seq(Seq(Names))
  <2> SUFFICES ASSUME Faulty(argv) = {} PROVE N \in Seq(Seq(Names))
    OBVIOUS
  <2>1. \A i \in DOMAIN argv : NamedBy(argv[i]) \in Seq(Names)
    BY NamedByFacts DEF Faulty
  <2> QED BY <1>1, <2>1
<1> HIDE DEF P, N
<1>4. PICK texts : Flattens(texts, Texts, P)
  BY <1>2, FlattenSeqDef
<1>5. \E named : Faulty(argv) = {} => Flattens(named, Names, N)
  <2>1. CASE Faulty(argv) = {}
    BY <1>3, <2>1, FlattenSeqDef
  <2>2. CASE Faulty(argv) # {}
    BY <2>2
  <2> QED BY <2>1, <2>2
<1> QED BY <1>4, <1>5 DEF Pieces, P, N

(* The loop ends stuck, or behind the last argument.                       *)
LEMMA ParseEnds ==
  ASSUME NEW Words, NEW argv \in Seq(Argument(Words)), NEW named, NEW texts, Pieces(argv, named, texts)
  PROVE  /\ Parse(argv) \in ParserState(Words)
         /\ \/ Stuck(argv, Parse(argv))
            \/ /\ Parse(argv).errorText = NoError
               /\ Knows(argv, named, texts, Parse(argv), Len(argv))
<1> DEFINE n == Len(argv)
           S == Between(Words, argv, named, texts)
<1>1. PICK f : Rounds(f, argv, S)
  BY ParseDef
<1>2. n \in Nat
  OBVIOUS
<1> DEFINE T == {k \in Nat : k <= n => (f[k].errorText = NoError => f[k].index > k)}
<1>3. 0 \in T
  <2>1. f[0] = Reset /\ Reset.index = 1
    BY <1>1, ResetFacts DEF Rounds
  <2> QED BY <2>1
<1>4. ASSUME NEW k \in Nat, k \in T PROVE k + 1 \in T
  <2> SUFFICES ASSUME k + 1 <= n, f[k + 1].errorText = NoError PROVE f[k + 1].index > k + 1
    OBVIOUS
  <2>1. k \in 0 .. n /\ k + 1 \in 0 .. n /\ k + 1 \in 1 .. n /\ (k + 1) - 1 = k
    BY <1>2
  <2>2. f[k] \in S /\ f[k + 1] \in S /\ f[k + 1] = ParseNext(argv, f[k])
    BY <1>1, <2>1 DEF Rounds
  <2>3. FurtherOn(argv, f[k], f[k + 1])
    BY <2>2, NextStands
  <2>4. f[k] \in ParserState(Words) /\ f[k + 1] \in ParserState(Words)
    BY <2>2 DEF Between
  <2>5. f[k].index \in Nat /\ f[k + 1].index \in Nat
    BY <2>4, FieldFacts
  <2>6. f[k].errorText = NoError
    <3> SUFFICES ASSUME f[k].errorText # NoError PROVE FALSE
      OBVIOUS
    <3>1. f[k + 1] = f[k]
      BY <2>2 DEF ParseNext
    <3> QED BY <3>1
  <2>7. f[k].index > k
    BY <1>4, <2>1, <2>6
  <2>8. CASE f[k].index <= n
    <3>1. f[k + 1].index > f[k].index
      BY <2>3, <2>6, <2>8 DEF FurtherOn
    <3> QED BY <2>5, <2>7, <3>1
  <2>9. CASE ~ (f[k].index <= n)
    <3>1. f[k + 1].index = f[k].index
      BY <2>3, <2>6, <2>9 DEF FurtherOn
    <3> QED BY <1>2, <2>5, <2>9, <3>1
  <2> QED BY <2>8, <2>9
<1>5. n \in T
  <2> HIDE DEF T
  <2>1. \A k \in Nat : k \in T
    BY <1>3, <1>4, Induction
  <2> QED BY <1>2, <2>1
<1>6. f[n] \in S /\ Parse(argv) = f[n]
  BY <1>1, <1>2 DEF Rounds
<1>7. f[n] \in ParserState(Words) /\ (Stuck(argv, f[n]) \/ Stands(argv, named, texts, f[n]))
  BY <1>6 DEF Between
<1>8. CASE Stands(argv, named, texts, f[n])
  <2>1. f[n].errorText = NoError /\ f[n].index \in 1 .. n + 1 /\ Knows(argv, named, texts, f[n], f[n].index - 1)
    BY <1>8 DEF Stands
  <2>2. f[n].index - 1 = n
    BY <1>2, <1>5, <2>1
  <2> QED BY <1>6, <1>7, <2>1, <2>2
<1> QED BY <1>6, <1>7, <1>8

(* Every command line, of whatever words, is read as it is written:        *)
(* ArgumentParser.cpp's Parse, with the index that the functions it calls  *)
(* move along.                                                             *)
THEOREM EveryLineIsReadAsWritten ==
  ASSUME NEW Words, NEW argv \in Seq(Argument(Words))
  PROVE  ReadAsWritten(argv)
<1> DEFINE s == Parse(argv)
           n == Len(argv)
<1>1. PICK named, texts : Pieces(argv, named, texts)
  BY PiecesExist
<1>2. s \in ParserState(Words) /\ (Stuck(argv, s) \/ (s.errorText = NoError /\ Knows(argv, named, texts, s, n)))
  BY <1>1, ParseEnds
<1>3. n \in Nat /\ DOMAIN argv = 1 .. n
  OBVIOUS
<1> HIDE DEF s
<1>4. CASE Stuck(argv, s)
  <2>1. PICK j \in DOMAIN argv : /\ Complaint(argv, j) # NoError
                                 /\ \A h \in 1 .. j - 1 : Complaint(argv, h) = NoError
                                 /\ s.errorText = Complaint(argv, j)
    BY <1>4 DEF Stuck
  <2>2. j \in Faulty(argv) /\ Faulty(argv) \subseteq Int
    BY <1>3, <2>1 DEF Faulty
  <2>3. ASSUME NEW k \in Faulty(argv) PROVE j <= k
    <3>1. k \in 1 .. n /\ ~ (k \in 1 .. j - 1)
      BY <1>3, <2>1 DEF Faulty
    <3> QED BY <1>3, <3>1
  <2>4. Min(Faulty(argv)) = j
    BY <2>2, <2>3, MinIs
  <2> QED BY <2>1, <2>2, <2>4 DEF ReadAsWritten, s
<1>5. CASE s.errorText = NoError /\ Knows(argv, named, texts, s, n)
  <2>1. Faulty(argv) = {}
    BY <1>3, <1>5 DEF Knows, Faulty
  <2>2. Len([i \in DOMAIN argv |-> Positional(argv, i)]) = n /\ Len([i \in DOMAIN argv |-> NamedBy(argv[i])]) = n
    OBVIOUS
  <2>3. texts[n] = Positionals(argv)
    BY <1>1, <2>2 DEF Pieces, Flattens, Positionals
  <2>4. named[n] = AllNamed(argv)
    BY <1>1, <2>1, <2>2 DEF Pieces, Flattens, AllNamed
  <2>5. \A o \in Names : s.wasSet[o] = TimesNamed(argv, o)
    BY <1>5, <2>1, <2>4 DEF Knows, TimesNamed
  <2>6. ASSUME NEW o \in InputOptions, Gives(argv, o) # {}
        PROVE  s.value[o] = ValueGiven(argv, Max(Gives(argv, o)))
    <3>1. Gives(argv, o) \subseteq 1 .. n
      BY <1>3 DEF Gives
    <3>2. PICK x \in Gives(argv, o) : \A h \in Gives(argv, o) : h <= x
      BY <1>3, <2>6, <3>1, LastOne
    <3>3. Gives(argv, o) \subseteq Int /\ x <= n
      BY <3>1
    <3>4. Max(Gives(argv, o)) = x
      BY <3>2, <3>3, MaxIs
    <3>5. LastGiven(argv, n, o, x)
      BY <3>2, <3>3 DEF LastGiven
    <3> QED BY <1>5, <3>4, <3>5 DEF Knows
  <2>7. s.positionalArgsValues = Positionals(argv)
    BY <1>5, <2>3 DEF Knows
  <2> QED BY <1>5, <2>1, <2>5, <2>6, <2>7 DEF ReadAsWritten, s
<1> QED BY <1>2, <1>4, <1>5

-----------------------------------------------------------------------------
(* Sequences put together of pieces.                                       *)

Grows(f, S, pieces, n) ==
  /\ pieces \in [1 .. n -> Seq(S)]
  /\ f \in [0 .. n -> Seq(S)]
  /\ f[0] = <<>>
  /\ \A k \in 1 .. n : f[k] = f[k - 1] \o pieces[k]

(* As many of X in the one as of Y in the other, if it is so in each piece. *)
AsMany(P, X, Q, Y, n) == \A k \in 1 .. n : HowMany(P[k], X) = HowMany(Q[k], Y)

(* The counts are the same in the whole.                                   *)
LEMMA SameCount ==
  ASSUME NEW n \in Nat, NEW S, NEW R, NEW f, NEW g, NEW P, NEW Q, NEW X, NEW Y,
         Grows(f, S, P, n), Grows(g, R, Q, n),
         AsMany(P, X, Q, Y, n)
  PROVE  HowMany(f[n], X) = HowMany(g[n], Y)
<1> DEFINE T == {k \in Nat : k <= n => HowMany(f[k], X) = HowMany(g[k], Y)}
<1>1. 0 \in T
  <2>1. f[0] = <<>> /\ g[0] = <<>>
    BY DEF Grows
  <2>2. HowMany(<<>>, X) = HowMany(<<>>, Y)
    <3>1. {k \in DOMAIN <<>> : <<>>[k] \in X} = {} /\ {k \in DOMAIN <<>> : <<>>[k] \in Y} = {}
      OBVIOUS
    <3> QED BY <3>1 DEF HowMany
  <2> QED BY <2>1, <2>2
<1>2. ASSUME NEW k \in Nat, k \in T PROVE k + 1 \in T
  <2> SUFFICES ASSUME k + 1 <= n PROVE HowMany(f[k + 1], X) = HowMany(g[k + 1], Y)
    OBVIOUS
  <2> DEFINE a == f[k]
             b == P[k + 1]
             c == g[k]
             d == Q[k + 1]
  <2>1. k \in 0 .. n /\ k + 1 \in 1 .. n /\ (k + 1) - 1 = k
    OBVIOUS
  <2>2. a \in Seq(S) /\ b \in Seq(S) /\ f[k + 1] = a \o b
    BY <2>1 DEF Grows
  <2>3. c \in Seq(R) /\ d \in Seq(R) /\ g[k + 1] = c \o d
    BY <2>1 DEF Grows
  <2>4. HowMany(a, X) = HowMany(c, Y) /\ HowMany(b, X) = HowMany(d, Y)
    BY <1>2, <2>1 DEF AsMany
  <2> HIDE DEF a, b, c, d
  <2>5. HowMany(a \o b, X) = HowMany(a, X) + HowMany(b, X)
    BY <2>2, HowManyConcat
  <2>6. HowMany(c \o d, Y) = HowMany(c, Y) + HowMany(d, Y)
    BY <2>3, HowManyConcat
  <2> QED BY <2>2, <2>3, <2>4, <2>5, <2>6
<1> HIDE DEF T
<1>3. \A k \in Nat : k \in T
  BY <1>1, <1>2, Induction
<1> QED BY <1>3 DEF T

(* A sequence is put together of its elements.                             *)
Beginnings(q) == [k \in 0 .. Len(q) |-> SubSeq(q, 1, k)]
Units(q) == [k \in 1 .. Len(q) |-> <<q[k]>>]

(* Its beginnings end in the whole sequence.                               *)
LEMMA BeginningsGrow ==
  ASSUME NEW S, NEW q \in Seq(S)
  PROVE  Grows(Beginnings(q), S, Units(q), Len(q)) /\ Beginnings(q)[Len(q)] = q
<1>1. Len(q) \in Nat /\ DOMAIN q = 1 .. Len(q)
  OBVIOUS
<1>2. Units(q) \in [1 .. Len(q) -> Seq(S)]
  BY DEF Units
<1>3. ASSUME NEW k \in 0 .. Len(q) PROVE SubSeq(q, 1, k) \in Seq(S)
  OBVIOUS
<1>4. SubSeq(q, 1, 0) = <<>>
  BY SubSeqEmpty
<1>5. ASSUME NEW k \in 1 .. Len(q)
      PROVE  SubSeq(q, 1, k) = SubSeq(q, 1, k - 1) \o <<q[k]>>
  BY <1>1, SubSeqRecursiveSecond
<1>6. \A k \in 1 .. Len(q) : k \in 0 .. Len(q) /\ k - 1 \in 0 .. Len(q)
  BY <1>1
<1>7. \A k \in 1 .. Len(q) : Beginnings(q)[k] = Beginnings(q)[k - 1] \o Units(q)[k]
  BY <1>5, <1>6 DEF Beginnings, Units
<1>8. Beginnings(q) \in [0 .. Len(q) -> Seq(S)] /\ Beginnings(q)[0] = <<>>
  BY <1>1, <1>3, <1>4 DEF Beginnings
<1>9. Beginnings(q)[Len(q)] = q
  BY <1>1, SubSeqFull DEF Beginnings
<1> QED BY <1>2, <1>7, <1>8, <1>9 DEF Grows

(* Backwards, a sequence has the same elements.                            *)
LEMMA ReverseFacts ==
  ASSUME NEW S, NEW q \in Seq(S)
  PROVE  /\ Reverse(q) \in Seq(S)
         /\ \A X : HowMany(Reverse(q), X) = HowMany(q, X)
<1> DEFINE n == Len(q)
           r == Reverse(q)
<1>1. n \in Nat /\ DOMAIN q = 1 .. n
  OBVIOUS
<1>2. r = [i \in 1 .. n |-> q[(n - i) + 1]]
  BY DEF Reverse
<1> HIDE DEF n, r
<1>3. \A i \in 1 .. n : (n - i) + 1 \in 1 .. n
  BY <1>1
<1>4. \A i \in 1 .. n : q[i] \in S
  BY <1>1
<1>5. r \in [1 .. n -> S]
  BY <1>2, <1>3, <1>4
<1>6. r \in Seq(S)
  BY <1>1, <1>5
<1>7. ASSUME NEW X PROVE HowMany(r, X) = HowMany(q, X)
  <2> DEFINE A == {k \in 1 .. n : q[k] \in X}
             B == {k \in 1 .. n : r[k] \in X}
             f == [k \in B |-> (n - k) + 1]
  <2>1. HowMany(r, X) = Cardinality(B) /\ HowMany(q, X) = Cardinality(A)
    <3>1. DOMAIN r = 1 .. n
      BY <1>5
    <3> QED BY <1>1, <3>1 DEF HowMany
  <2>2. IsFiniteSet(B)
    <3>1. IsFiniteSet(1 .. n)
      BY <1>1, FS_Interval
    <3>2. B \in SUBSET (1 .. n)
      OBVIOUS
    <3> HIDE DEF B
    <3> QED BY <3>1, <3>2, FS_Subset
  <2>3. f \in [B -> A]
    BY <1>2, <1>3
  <2>4. \A k, l \in B : f[k] = f[l] => k = l
    BY <1>1
  <2>5. \A a \in A : \E k \in B : f[k] = a
    <3> SUFFICES ASSUME NEW a \in A PROVE \E k \in B : f[k] = a
      OBVIOUS
    <3> DEFINE k == (n - a) + 1
    <3>1. k \in 1 .. n /\ (n - k) + 1 = a
      BY <1>1
    <3>2. r[k] = q[a]
      BY <1>2, <3>1
    <3>3. k \in B
      BY <3>1, <3>2
    <3> HIDE DEF k
    <3> QED BY <3>1, <3>3
  <2> HIDE DEF A, B, f
  <2>6. f \in Bijection(B, A)
    <3>1. f \in Injection(B, A)
      BY <2>3, <2>4 DEF Injection, IsInjective
    <3>2. f \in Surjection(B, A)
      BY <2>3, <2>5 DEF Surjection
    <3> QED BY <3>1, <3>2 DEF Bijection
  <2>7. ExistsBijection(B, A)
    BY <2>6 DEF ExistsBijection
  <2>8. Cardinality(A) = Cardinality(B)
    BY <2>2, <2>7, FS_Bijection
  <2> QED BY <2>1, <2>8
<1> QED BY <1>6, <1>7 DEF r

-----------------------------------------------------------------------------
(* Options spelled out.                                                    *)

Naming(W, o) == {a \in Argument(W) : a.form = "long" /\ a.name = o}

(* What is told of the options there, with the values they are given.      *)
Spellings(argv, W) ==
  {a \in Argument(W) :
     \/ a.form = "plain"
     \/ /\ a.form = "long"
        /\ a.name \in Names \ InputOptions
        /\ a.value = NoValue
     \/ /\ a.form = "long"
        /\ a.name \in InputOptions
        /\ a.value # NoValue
        /\ ~ LooksMissing(a.value)
        /\ \E j \in Gives(argv, a.name) : a.value = ValueGiven(argv, j)}

LongFacts(W, name, value) ==
  /\ Long(name, value) \in Argument(W)
  /\ Long(name, value).form = "long"
  /\ Long(name, value).name = name
  /\ Long(name, value).value = value

(* Long makes such a record.                                               *)
LEMMA LongIs ==
  ASSUME NEW W, NEW name \in W, NEW value \in Texts \cup {NoValue}
  PROVE  LongFacts(W, name, value)
BY DEF LongFacts, Long, Argument

(* The spelling of each argument, and how often it names an option.        *)
Plausible(argv) ==
  Faulty(argv) = {} /\ \A i \in DOMAIN argv : IsValue(argv, i) => ~ LooksMissing(argv[i].text)

SpelledRight(argv, W, i) ==
  /\ Spelling(argv, i) \in Seq(Spellings(argv, W))
  /\ \A o \in Names : HowMany(Spelling(argv, i), Naming(W, o)) = Count(NamedBy(argv[i]), o)

(* An argument spelled as one option, by the name it has.                  *)
LEMMA SpelledByName ==
  ASSUME NEW W, NEW argv, NEW i, NEW b \in Spellings(argv, W), b.form = "long",
         Spelling(argv, i) = <<b>>, NamedBy(argv[i]) = <<b.name>>
  PROVE  SpelledRight(argv, W, i)
<1>1. <<b>> \in Seq(Spellings(argv, W)) /\ b \in Argument(W)
  BY DEF Spellings
<1>2. \A o : HowMany(<<b>>, Naming(W, o)) = IF b \in Naming(W, o) THEN 1 ELSE 0
  BY HowManyOne
<1>3. \A o : Count(<<b.name>>, o) = IF b.name = o THEN 1 ELSE 0
  BY CountOne
<1>4. \A o : b \in Naming(W, o) <=> b.name = o
  BY <1>1 DEF Naming
<1> QED BY <1>1, <1>2, <1>3, <1>4 DEF SpelledRight

(* Every argument's spelling names what the argument names.                *)
LEMMA EverySpelling ==
  ASSUME NEW W, Names \subseteq W, NEW argv \in Seq(Argument(W)), Plausible(argv), NEW i \in DOMAIN argv
  PROVE  SpelledRight(argv, W, i)
<1> DEFINE a == argv[i]
<1>1. a \in Argument(W) /\ Complaint(argv, i) = NoError
  BY DEF Plausible, Faulty
<1> HIDE DEF a
<1>2. /\ a.form \in {"long", "short", "plain"}
      /\ a.form = "long" => a.name \in W
      /\ a.form = "short" => a.letters \in Seq(W)
  BY <1>1, ArgumentFacts
<1>3. CASE a.form = "long"
  <2>1. /\ a.name \in Names
        /\ a.value \in Texts \cup {NoValue}
        /\ a.name \notin InputOptions => a.value = NoValue
        /\ a.name \in InputOptions /\ a.value # NoValue => ~ LooksMissing(a.value)
        /\ IsBare(a) => i + 1 \in DOMAIN argv /\ IsValue(argv, i + 1)
    BY <1>1, <1>3, LongFaultless DEF a
  <2>2. NamedBy(a) = <<a.name>> /\ i \in Gives(argv, a.name)
    BY <1>3 DEF NamedBy, Gives, a
  <2>3. CASE IsBare(a)
    <3> DEFINE text == argv[i + 1].text
               b == Long(a.name, text)
    <3>1. argv[i + 1] \in Argument(W) /\ argv[i + 1].form = "plain" /\ ~ LooksMissing(text)
      BY <2>1, <2>3 DEF IsValue, Plausible
    <3>2. text \in Texts /\ text # NoValue
      BY <3>1, ArgumentFacts, NoValueAssumption
    <3>3. Spelling(argv, i) = <<b>>
      BY <2>3 DEF Spelling, IsBare, IsValue, a
    <3>4. ValueGiven(argv, i) = text /\ a.name \in InputOptions
      BY <2>3 DEF ValueGiven, IsBare, a
    <3> HIDE DEF text
    <3>5. LongFacts(W, a.name, text)
      BY <2>1, <3>2, LongIs
    <3> HIDE DEF b
    <3>6. b \in Argument(W) /\ b.form = "long" /\ b.name = a.name /\ b.value = text
      BY <3>5 DEF LongFacts, b
    <3>7. b \in Spellings(argv, W)
      BY <2>2, <3>1, <3>2, <3>4, <3>6 DEF Spellings, text
    <3> QED BY <2>2, <3>3, <3>6, <3>7, SpelledByName DEF a
  <2>4. CASE ~ IsBare(a)
    <3>1. Spelling(argv, i) = <<a>>
      BY <1>3, <2>4 DEF Spelling, IsValue, a
    <3>2. a.name \in InputOptions => a.value # NoValue /\ ValueGiven(argv, i) = a.value
      BY <1>3, <2>4 DEF IsBare, ValueGiven, a
    <3>3. a \in Spellings(argv, W)
      BY <1>1, <1>3, <2>1, <2>2, <3>2 DEF Spellings
    <3> QED BY <1>3, <2>2, <3>1, <3>3, SpelledByName DEF a
  <2> QED BY <2>3, <2>4
<1>4. CASE a.form = "short"
  <2> DEFINE q == NamedBy(a)
             r == [k \in DOMAIN q |-> Long(q[k], NoValue)]
  <2>1. q \in Seq(Names)
    BY <1>1, NamedByFacts DEF a
  <2>2. Spelling(argv, i) = r
    BY <1>4 DEF Spelling, IsBare, IsValue, a
  <2>3. DOMAIN q = 1 .. Len(q) /\ Len(q) \in Nat /\ \A k \in DOMAIN q : q[k] \in Names \ InputOptions
    <3>1. DOMAIN q = 1 .. Len(q) /\ Len(q) \in Nat
      BY <2>1
    <3>2. q = [k \in DOMAIN a.letters |-> FlagOfLetter[a.letters[k]]]
      BY <1>4 DEF NamedBy
    <3>3. \A k \in DOMAIN a.letters : a.letters[k] \in Letters
      BY <1>1, <1>4, ShortFaultless DEF a
    <3> QED BY <3>1, <3>2, <3>3, NameFacts
  <2> HIDE DEF q
  <2>4. ASSUME NEW k \in DOMAIN q
        PROVE  r[k] \in Spellings(argv, W) /\ \A o : r[k] \in Naming(W, o) <=> q[k] = o
    <3> DEFINE b == Long(q[k], NoValue)
    <3>1. q[k] \in W /\ q[k] \in Names \ InputOptions
      BY <2>3
    <3>2. LongFacts(W, q[k], NoValue)
      BY <3>1, LongIs
    <3>3. b \in Argument(W) /\ b.form = "long" /\ b.name = q[k] /\ b.value = NoValue
      BY <3>2 DEF LongFacts
    <3> HIDE DEF b
    <3>4. b \in Spellings(argv, W) /\ \A o : b \in Naming(W, o) <=> q[k] = o
      BY <3>1, <3>3 DEF Spellings, Naming
    <3> QED BY <3>4 DEF b
  <2>5. r \in Seq(Spellings(argv, W))
    <3>1. r \in [1 .. Len(q) -> Spellings(argv, W)]
      BY <2>3, <2>4
    <3> HIDE DEF r
    <3> QED BY <2>3, <3>1
  <2>6. ASSUME NEW o PROVE HowMany(r, Naming(W, o)) = Count(q, o)
    <3>1. {k \in DOMAIN r : r[k] \in Naming(W, o)} = {k \in DOMAIN q : q[k] = o}
      BY <2>4
    <3> QED BY <3>1 DEF HowMany, Count
  <2> HIDE DEF r
  <2> QED BY <2>2, <2>5, <2>6 DEF SpelledRight, q, a
<1>5. CASE a.form = "plain"
  <2>1. NamedBy(a) = <<>> /\ ~ IsBare(a)
    BY <1>5 DEF NamedBy, IsBare
  <2>2. \A o : Count(<<>>, o) = 0 /\ HowMany(<<>>, Naming(W, o)) = 0
    BY CountNone, HowManyNone
  <2>3. CASE IsValue(argv, i)
    <3>1. Spelling(argv, i) = <<>>
      BY <1>5, <2>1, <2>3 DEF Spelling, a
    <3> QED BY <2>1, <2>2, <3>1 DEF SpelledRight, a
  <2>4. CASE ~ IsValue(argv, i)
    <3>1. Spelling(argv, i) = <<a>>
      BY <1>5, <2>1, <2>4 DEF Spelling, a
    <3>2. a \in Spellings(argv, W) /\ \A o : a \notin Naming(W, o)
      BY <1>1, <1>5 DEF Spellings, Naming
    <3>3. \A o : HowMany(<<a>>, Naming(W, o)) = 0
      BY <3>2, HowManyOne
    <3>4. <<a>> \in Seq(Spellings(argv, W))
      BY <3>2
    <3> QED BY <2>1, <2>2, <3>1, <3>3, <3>4 DEF SpelledRight, a
  <2> QED BY <2>3, <2>4
<1> QED BY <1>2, <1>3, <1>4, <1>5

(* FlattenSeq, in these terms.                                             *)
LEMMA FlattensGrow ==
  ASSUME NEW S, NEW n \in Nat, NEW P \in [1 .. n -> Seq(S)]
  PROVE  \E f : Grows(f, S, P, n) /\ f[n] = FlattenSeq(P)
<1>1. P \in Seq(Seq(S)) /\ Len(P) = n
  OBVIOUS
<1>2. PICK f : Flattens(f, S, P)
  BY <1>1, FlattenSeqDef
<1> QED BY <1>1, <1>2 DEF Flattens, Grows

(* A value given to an option is an argument that names it.                *)
LEMMA GivesIsHowMany ==
  ASSUME NEW W, NEW q \in Seq(Argument(W)), NEW o
  PROVE  HowMany(q, Naming(W, o)) = Cardinality(Gives(q, o))
<1>1. \A k \in DOMAIN q : q[k] \in Naming(W, o) <=> q[k].form = "long" /\ q[k].name = o
  BY DEF Naming
<1>2. {k \in DOMAIN q : q[k] \in Naming(W, o)} = Gives(q, o)
  BY <1>1 DEF Gives
<1> QED BY <1>2 DEF HowMany

(* As often as an option is named, if not by a letter, it is by its name.  *)
LEMMA NamedByName ==
  ASSUME NEW W, NEW q \in Seq(Argument(W)), Faulty(q) = {}, NEW o \in Names,
         o \in InputOptions \/ \A i \in DOMAIN q : q[i].form # "short"
  PROVE  TimesNamed(q, o) = Cardinality(Gives(q, o))
<1> DEFINE n == Len(q)
           N == [i \in 1 .. n |-> NamedBy(q[i])]
           X == Naming(W, o)
<1>1. n \in Nat /\ DOMAIN q = 1 .. n
  OBVIOUS
<1>2. N \in [1 .. n -> Seq(Names)]
  BY <1>1, NamedByFacts DEF Faulty
<1>3. [i \in DOMAIN q |-> NamedBy(q[i])] = N
  BY <1>1
<1> HIDE DEF N
<1>4. PICK f : Grows(f, Names, N, n) /\ f[n] = FlattenSeq(N)
  BY <1>1, <1>2, FlattensGrow
<1>5. AllNamed(q) = f[n]
  BY <1>3, <1>4 DEF AllNamed
<1>6. Grows(Beginnings(q), Argument(W), Units(q), n) /\ Beginnings(q)[n] = q
  BY BeginningsGrow
<1>7. ASSUME NEW k \in 1 .. n PROVE HowMany(Units(q)[k], X) = HowMany(N[k], {o})
  <2> DEFINE a == q[k]
  <2>1. a \in Argument(W) /\ k \in DOMAIN q /\ Complaint(q, k) = NoError
    BY <1>1 DEF Faulty
  <2>2. Units(q)[k] = <<a>> /\ N[k] = NamedBy(a)
    BY DEF Units, N
  <2> HIDE DEF a, X
  <2>3. HowMany(<<a>>, X) = IF a \in X THEN 1 ELSE 0
    BY HowManyOne
  <2>4. /\ a.form \in {"long", "short", "plain"}
        /\ a.form = "short" => a.letters \in Seq(W)
    BY <2>1, ArgumentFacts
  <2>5. CASE a.form = "long"
    <3>1. NamedBy(a) = <<a.name>> /\ (a \in X <=> a.name = o)
      BY <2>1, <2>5 DEF NamedBy, X, Naming
    <3>2. HowMany(<<a.name>>, {o}) = IF a.name \in {o} THEN 1 ELSE 0
      BY HowManyOne
    <3> QED BY <2>2, <2>3, <3>1, <3>2
  <2>6. CASE a.form = "plain"
    <3>1. NamedBy(a) = <<>> /\ a \notin X
      BY <2>6 DEF NamedBy, X, Naming
    <3> QED BY <2>2, <2>3, <3>1, HowManyNone
  <2>7. CASE a.form = "short"
    <3>1. a \notin X /\ o \in InputOptions
      BY <2>1, <2>7 DEF X, Naming, a
    <3>2. \A j \in DOMAIN NamedBy(a) : NamedBy(a)[j] # o
      <4>1. NamedBy(a) = [j \in DOMAIN a.letters |-> FlagOfLetter[a.letters[j]]]
        BY <2>7 DEF NamedBy
      <4>2. \A j \in DOMAIN a.letters : a.letters[j] \in Letters
        BY <2>1, <2>7, ShortFaultless DEF a
      <4> QED BY <3>1, <4>1, <4>2, NameFacts
    <3>3. {j \in DOMAIN NamedBy(a) : NamedBy(a)[j] \in {o}} = {}
      BY <3>2
    <3>4. HowMany(NamedBy(a), {o}) = 0
      BY <3>3, FS_EmptySet DEF HowMany
    <3> QED BY <2>2, <2>3, <3>1, <3>4
  <2> QED BY <2>4, <2>5, <2>6, <2>7
<1> HIDE DEF X
<1>8. HowMany(Beginnings(q)[n], X) = HowMany(f[n], {o})
  <2> HIDE DEF n
  <2>1. AsMany(Units(q), X, N, {o}, n)
    BY <1>7 DEF AsMany
  <2> QED BY <1>1, <1>4, <1>6, <2>1, SameCount
<1>9. TimesNamed(q, o) = HowMany(f[n], {o})
  BY <1>5, CountIsHowMany DEF TimesNamed
<1> QED BY <1>6, <1>8, <1>9, GivesIsHowMany DEF X

(* The command line spelled out, in either order.                          *)
LEMMA SpelledOutFacts ==
  ASSUME NEW W, Names \subseteq W, NEW argv \in Seq(Argument(W)), Plausible(argv)
  PROVE  /\ SpelledOut(argv) \in Seq(Spellings(argv, W))
         /\ \A o \in Names : HowMany(SpelledOut(argv), Naming(W, o)) = TimesNamed(argv, o)
<1> DEFINE n == Len(argv)
           N == [i \in 1 .. n |-> NamedBy(argv[i])]
           P == [i \in 1 .. n |-> Spelling(argv, i)]
           S == Spellings(argv, W)
<1>1. n \in Nat /\ DOMAIN argv = 1 .. n
  OBVIOUS
<1>2. \A i \in 1 .. n : SpelledRight(argv, W, i)
  BY <1>1, EverySpelling
<1>3. P \in [1 .. n -> Seq(S)]
  BY <1>2 DEF SpelledRight
<1>4. N \in [1 .. n -> Seq(Names)]
  BY <1>1, NamedByFacts DEF Plausible, Faulty
<1>5. \A i \in 1 .. n : \A o \in Names : HowMany(P[i], Naming(W, o)) = HowMany(N[i], {o})
  BY <1>2, CountIsHowMany DEF SpelledRight
<1>6. SpelledOut(argv) = FlattenSeq(P) /\ AllNamed(argv) = FlattenSeq(N)
  BY <1>1 DEF SpelledOut, AllNamed
<1> HIDE DEF n, N, P, S
<1>7. PICK f : Grows(f, S, P, n) /\ f[n] = FlattenSeq(P)
  BY <1>1, <1>3, FlattensGrow
<1>8. PICK g : Grows(g, Names, N, n) /\ g[n] = FlattenSeq(N)
  BY <1>1, <1>4, FlattensGrow
<1>9. SpelledOut(argv) \in Seq(S)
  BY <1>1, <1>6, <1>7 DEF Grows
<1>10. ASSUME NEW o \in Names PROVE HowMany(SpelledOut(argv), Naming(W, o)) = TimesNamed(argv, o)
  <2>0. AsMany(P, Naming(W, o), N, {o}, n)
    BY <1>5 DEF AsMany
  <2>1. HowMany(f[n], Naming(W, o)) = HowMany(g[n], {o})
    BY <1>1, <1>7, <1>8, <2>0, SameCount
  <2> QED BY <1>6, <1>7, <1>8, <2>1, CountIsHowMany DEF TimesNamed
<1> QED BY <1>9, <1>10 DEF S

(* There is no complaint about options spelled out.                        *)
LEMMA SpellingsAreFaultless ==
  ASSUME NEW W, NEW argv, NEW q \in Seq(Spellings(argv, W))
  PROVE  /\ q \in Seq(Argument(W))
         /\ Faulty(q) = {}
         /\ \A i \in DOMAIN q : ~ IsBare(q[i]) /\ q[i].form # "short"
<1>1. \A i \in DOMAIN q : q[i] \in Spellings(argv, W)
  OBVIOUS
<1>2. q \in Seq(Argument(W))
  BY DEF Spellings
<1>3. \A i \in DOMAIN q : ~ IsBare(q[i]) /\ q[i].form # "short"
  BY <1>1 DEF Spellings, IsBare
<1>4. \A i \in DOMAIN q : Complaint(q, i) = NoError
  BY <1>1, NameFacts DEF Spellings, Complaint
<1> QED BY <1>2, <1>3, <1>4 DEF Faulty

(* What wmain asks of the options is the same.                             *)
LEMMA AsksAlike ==
  ASSUME NEW argv, NEW other,
         Parse(argv).errorText = NoError, Parse(other).errorText = NoError,
         \A o \in Names : Parse(other).wasSet[o] = Parse(argv).wasSet[o],
         \A o \in InputOptions :
           (\A p \in AskedOnce : ~ (Parse(argv).wasSet[p] > 1)) =>
             (IsJson(Parse(other), o) <=> IsJson(Parse(argv), o))
  PROVE  Asks(argv) = Asks(other)
<1>1. AskedOnce \subseteq Names
  BY DEF AskedOnce
<1>2. (\E o \in AskedOnce : Parse(other).wasSet[o] > 1) <=> (\E o \in AskedOnce : Parse(argv).wasSet[o] > 1)
  BY <1>1
<1>3. "help" \in Names /\ "version" \in Names /\ "register" \in Names /\ "listen" \in Names
  BY DEF Names, Letters, FlagOfLetter
<1>4. "register_input" \in InputOptions /\ "register_output" \in InputOptions /\ "listen_input" \in InputOptions
  BY DEF InputOptions
<1>5. CASE \E o \in AskedOnce : Parse(argv).wasSet[o] > 1
  BY <1>2, <1>5 DEF Asks
<1>6. CASE \A o \in AskedOnce : ~ (Parse(argv).wasSet[o] > 1)
  <2>1. /\ IsJson(Parse(other), "register_input") = IsJson(Parse(argv), "register_input")
        /\ IsJson(Parse(other), "register_output") = IsJson(Parse(argv), "register_output")
        /\ IsJson(Parse(other), "listen_input") = IsJson(Parse(argv), "listen_input")
    BY <1>4, <1>6 DEF IsJson
  <2>2. /\ Parse(other).wasSet["help"] = Parse(argv).wasSet["help"]
        /\ Parse(other).wasSet["version"] = Parse(argv).wasSet["version"]
        /\ Parse(other).wasSet["register"] = Parse(argv).wasSet["register"]
        /\ Parse(other).wasSet["listen"] = Parse(argv).wasSet["listen"]
    BY <1>3
  <2> QED BY <1>2, <1>6, <2>1, <2>2 DEF Asks
<1> QED BY <1>5, <1>6

(* Every faultless command line asks for the same with its options spelled *)
(* out and in the other order: what wmain does with them depends on        *)
(* neither.                                                                *)
THEOREM EveryLineIsAskedAnotherWay ==
  ASSUME NEW Words, NEW argv \in Seq(Argument(Words))
  PROVE  AskedAnotherWay(argv)
<1> SUFFICES ASSUME Plausible(argv) PROVE Asks(argv) = Asks(Reverse(SpelledOut(argv)))
  BY DEF AskedAnotherWay, Plausible
<1> DEFINE W == Words \cup Names
           q == SpelledOut(argv)
           r == Reverse(q)
           s == Parse(argv)
           t == Parse(r)
<1>1. argv \in Seq(Argument(W)) /\ Names \subseteq W
  <2>1. Argument(Words) \subseteq Argument(W)
    BY DEF Argument
  <2> HIDE DEF W
  <2>2. argv \in Seq(Argument(W))
    BY <2>1
  <2> QED BY <2>2 DEF W
<1> HIDE DEF W
<1>2. /\ q \in Seq(Spellings(argv, W))
      /\ \A o \in Names : HowMany(q, Naming(W, o)) = TimesNamed(argv, o)
  BY <1>1, SpelledOutFacts
<1> HIDE DEF q
<1>3. r \in Seq(Spellings(argv, W)) /\ \A X : HowMany(r, X) = HowMany(q, X)
  BY <1>2, ReverseFacts
<1> HIDE DEF r
<1>4. /\ r \in Seq(Argument(W))
      /\ Faulty(r) = {}
      /\ \A i \in DOMAIN r : ~ IsBare(r[i]) /\ r[i].form # "short"
  BY <1>3, SpellingsAreFaultless
<1>5. ReadAsWritten(argv) /\ ReadAsWritten(r)
  BY <1>1, <1>4, EveryLineIsReadAsWritten
<1>6. Faulty(argv) = {}
  BY DEF Plausible
<1>7. /\ s.errorText = NoError
      /\ \A o \in Names : s.wasSet[o] = TimesNamed(argv, o)
      /\ \A o \in InputOptions :
           Gives(argv, o) # {} => s.value[o] = ValueGiven(argv, Max(Gives(argv, o)))
  BY <1>5, <1>6 DEF ReadAsWritten
<1>8. /\ t.errorText = NoError
      /\ \A o \in Names : t.wasSet[o] = TimesNamed(r, o)
      /\ \A o \in InputOptions :
           Gives(r, o) # {} => t.value[o] = ValueGiven(r, Max(Gives(r, o)))
  BY <1>4, <1>5 DEF ReadAsWritten
<1> HIDE DEF s, t
<1>9. ASSUME NEW o \in Names PROVE t.wasSet[o] = s.wasSet[o]
  <2>1. TimesNamed(r, o) = Cardinality(Gives(r, o))
    BY <1>4, NamedByName
  <2>2. Cardinality(Gives(r, o)) = HowMany(r, Naming(W, o))
    BY <1>4, GivesIsHowMany
  <2> QED BY <1>2, <1>3, <1>7, <1>8, <2>1, <2>2
<1>10. ASSUME NEW o \in InputOptions, \A p \in AskedOnce : ~ (s.wasSet[p] > 1)
       PROVE  IsJson(t, o) <=> IsJson(s, o)
  <2> DEFINE G == Gives(argv, o)
             H == Gives(r, o)
  <2>1. o \in Names /\ o \in AskedOnce
    BY NameFacts DEF AskedOnce, InputOptions
  <2>2. s.wasSet[o] = Cardinality(G)
    BY <1>1, <1>6, <1>7, <2>1, NamedByName
  <2>3. t.wasSet[o] = Cardinality(H) /\ t.wasSet[o] = s.wasSet[o]
    BY <1>4, <1>8, <1>9, <2>1, NamedByName
  <2>4. G \subseteq 1 .. Len(argv) /\ H \subseteq 1 .. Len(r) /\ Len(argv) \in Nat /\ Len(r) \in Nat
    BY <1>1, <1>4 DEF Gives
  <2>5. IsFiniteSet(G) /\ IsFiniteSet(H)
    <3>1. IsFiniteSet(1 .. Len(argv)) /\ IsFiniteSet(1 .. Len(r))
      BY <2>4, FS_Interval
    <3> HIDE DEF G, H
    <3> QED BY <2>4, <3>1, FS_Subset
  <2>6. Cardinality(G) \in Nat
    BY <2>5, FS_CardinalityType
  <2>7. CASE Cardinality(G) = 0
    BY <2>2, <2>3, <2>7 DEF IsJson
  <2>8. CASE Cardinality(G) # 0
    <3>1. Cardinality(G) = 1 /\ Cardinality(H) = 1
      BY <1>10, <2>1, <2>2, <2>3, <2>6, <2>8
    <3> HIDE DEF G, H
    <3>2. PICK i : G = {i}
      BY <2>5, <3>1, FS_Singleton
    <3>3. PICK k : H = {k}
      BY <2>5, <3>1, FS_Singleton
    <3>4. Max(G) = i /\ Max(H) = k
      <4>1. i \in Int /\ k \in Int
        BY <2>4, <3>2, <3>3
      <4>2. Max({i}) = i /\ Max({k}) = k
        BY <4>1, MaxOfOne
      <4> QED BY <3>2, <3>3, <4>2
    <3>5. k \in DOMAIN r /\ r[k] \in Spellings(argv, W) /\ r[k].form = "long" /\ r[k].name = o
      <4>1. k \in H
        BY <3>3
      <4>2. k \in DOMAIN r /\ r[k].form = "long" /\ r[k].name = o
        BY <4>1 DEF H, Gives
      <4> QED BY <1>3, <4>2
    <3>6. PICK j \in G : r[k].value = ValueGiven(argv, j)
      BY <3>5, NameFacts DEF Spellings, G
    <3>7. j = i
      BY <3>2
    <3>8. ValueGiven(r, k) = r[k].value
      BY <1>4, <3>5 DEF ValueGiven
    <3>9. s.value[o] = ValueGiven(argv, i) /\ t.value[o] = ValueGiven(r, k)
      BY <1>7, <1>8, <3>2, <3>3, <3>4 DEF G, H
    <3>10. s.value[o] = t.value[o]
      BY <3>6, <3>7, <3>8, <3>9
    <3> QED BY <2>3, <3>10 DEF IsJson
  <2> QED BY <2>7, <2>8
<1>11. Asks(argv) = Asks(r)
  BY <1>7, <1>8, <1>9, <1>10, AsksAlike DEF s, t
<1> QED BY <1>11 DEF r, q

-----------------------------------------------------------------------------
(* The runs.                                                               *)

(* Asks gives nothing but Askings, whatever the argument list. *)
LEMMA AsksOneOfThem ==
  ASSUME NEW argv
  PROVE  Asks(argv) \in Askings
<1> DEFINE s == Parse(argv)
<1>1. \A o : IsJson(s, o) \in BOOLEAN
  BY DEF IsJson
<1> HIDE DEF s
<1> QED BY <1>1 DEF Asks, Askings, s

(* The command lines of the model are some of those.                       *)
ReadWords == Names \cup {"unknown", "?", "!"} \cup Letters

(* They are, and so the theorems are about them.                           *)
LEMMA ListsAreLines == \A argv \in ArgumentLists : argv \in Seq(Argument(ReadWords))
<1>1. \A c \in {"r", "l", "v", "?", "!"} : c \in ReadWords
  BY DEF ReadWords, Letters, FlagOfLetter
<1>2. \A o \in {"register", "listen", "help", "unknown"} \cup InputOptions : o \in ReadWords
  BY DEF ReadWords, Names, Letters, FlagOfLetter
<1>3. {"register_input", "register_output", "listen_input"} \subseteq InputOptions
  BY DEF InputOptions
<1>4. \A letters \in {<<"r">>, <<"l">>, <<"l", "r">>, <<"v", "?", "!">>} : letters \in Seq(ReadWords)
  <2> DEFINE W == ReadWords
  <2>1. "r" \in W /\ "l" \in W /\ "v" \in W /\ "?" \in W /\ "!" \in W
    BY <1>1
  <2> HIDE DEF W
  <2>2. <<"r">> \in Seq(W) /\ <<"l">> \in Seq(W) /\ <<"l", "r">> \in Seq(W) /\ <<"v", "?", "!">> \in Seq(W)
    BY <2>1
  <2> QED BY <2>2 DEF W
<1> DEFINE W == ReadWords
<1> HIDE DEF W
<1>5. \A a \in Arguments : a \in Argument(W)
  <2>1. \A name \in W : \A value \in Texts \cup {NoValue} : Long(name, value) \in Argument(W)
    BY DEF Long, Argument
  <2>2. \A letters \in Seq(W) : Short(letters) \in Argument(W)
    BY DEF Short, Argument
  <2>3. \A text \in Texts : Plain(text) \in Argument(W)
    BY DEF Plain, Argument
  <2> DEFINE Bare == {"register", "listen", "help", "unknown"} \cup InputOptions
             WithText == {"listen", "register_input", "register_output", "listen_input"}
             Grouped == {<<"r">>, <<"l">>, <<"l", "r">>, <<"v", "?", "!">>}
  <2>4. Bare \subseteq W
    BY <1>2 DEF W
  <2>5. WithText \subseteq W
    BY <2>4, <1>3
  <2>6. Grouped \subseteq Seq(W)
    BY <1>4 DEF W
  <2>7. Arguments = {Long(name, NoValue) : name \in Bare}
                      \cup {Long(name, text) : name \in WithText, text \in Texts}
                      \cup {Short(letters) : letters \in Grouped}
                      \cup {Plain(text) : text \in Texts}
    BY DEF Arguments
  <2> HIDE DEF Bare, WithText, Grouped
  <2> QED BY <2>1, <2>2, <2>3, <2>4, <2>5, <2>6, <2>7
<1>6. ASSUME NEW argv \in ArgumentLists PROVE argv \in Seq(Argument(W))
  <2>1. PICK n \in 0 .. 3 : argv \in [1 .. n -> Arguments]
    BY DEF ArgumentLists
  <2>2. argv \in [1 .. n -> Argument(W)]
    BY <1>5, <2>1
  <2> QED BY <2>1, <2>2
<1> QED BY <1>6 DEF W

(* So the runs read theirs as they are written.                            *)
THEOREM Reading == Spec => []ParseReadsAsWritten
<1>1. ParseReadsAsWritten
  BY ListsAreLines, EveryLineIsReadAsWritten DEF ParseReadsAsWritten
<1> QED BY <1>1, PTL

(* And neither the order nor the spelling of their options matters.        *)
THEOREM AnotherWay == Spec => []SpellingAndOrderDoNotMatter
<1>1. SpellingAndOrderDoNotMatter
  BY ListsAreLines, EveryLineIsAskedAnotherWay DEF SpellingAndOrderDoNotMatter
<1> QED BY <1>1, PTL

-----------------------------------------------------------------------------
(* A command line for everything a run may be asked for.                   *)

(* What wmain finds after a faultless one without letters.                 *)
Found(argv, s) ==
  /\ s.errorText = NoError
  /\ \A o \in Names : s.wasSet[o] = Cardinality(Gives(argv, o))
  /\ \A o \in InputOptions : \A i : Gives(argv, o) = {i} => s.value[o] = ValueGiven(argv, i)

(* Each option counts the arguments that name it, and has the value of the *)
(* only one.                                                               *)
LEMMA FoundByName ==
  ASSUME NEW W, NEW argv \in Seq(Argument(W)), Faulty(argv) = {},
         \A i \in DOMAIN argv : argv[i].form # "short"
  PROVE  Found(argv, Parse(argv))
<1> DEFINE s == Parse(argv)
<1>1. ReadAsWritten(argv)
  BY EveryLineIsReadAsWritten
<1>2. /\ s.errorText = NoError
      /\ \A o \in Names : s.wasSet[o] = TimesNamed(argv, o)
      /\ \A o \in InputOptions :
           Gives(argv, o) # {} => s.value[o] = ValueGiven(argv, Max(Gives(argv, o)))
  BY <1>1 DEF ReadAsWritten
<1> HIDE DEF s
<1>3. \A o \in Names : s.wasSet[o] = Cardinality(Gives(argv, o))
  BY <1>2, NamedByName
<1>4. ASSUME NEW o \in InputOptions, NEW i, Gives(argv, o) = {i}
      PROVE  s.value[o] = ValueGiven(argv, i)
  <2>1. i \in Int
    <3>1. i \in DOMAIN argv /\ DOMAIN argv \subseteq Int
      BY <1>4 DEF Gives
    <3> QED BY <3>1
  <2>2. Max({i}) = i
    BY <2>1, MaxOfOne
  <2> QED BY <1>2, <1>4, <2>2
<1> QED BY <1>2, <1>3, <1>4 DEF Found, s

(* The options by name, and how often each is asked for.                   *)
LEMMA NamesAre ==
  /\ Names = {"register_input", "register_output", "listen_input", "log_folder",
              "register", "listen", "help", "version"}
  /\ AskedOnce = Names \ {"help", "version"}
<1>1. Letters = {"r", "l", "h", "v"}
  BY DEF Letters, FlagOfLetter
<1>2. {FlagOfLetter[c] : c \in Letters} = {"register", "listen", "help", "version"}
  BY <1>1 DEF FlagOfLetter
<1> QED BY <1>2 DEF Names, InputOptions, AskedOnce

TextFor(json) == IF json THEN "x.json" ELSE "x"

(* Both texts are values an option can be given.                           *)
LEMMA TextForFacts ==
  ASSUME NEW json \in BOOLEAN
  PROVE  /\ TextFor(json) \in Texts
         /\ TextFor(json) # NoValue
         /\ ~ LooksMissing(TextFor(json))
         /\ TextFor(json) = "x.json" <=> json
BY NoValueAssumption DEF TextFor, Texts, LooksMissing

(* Flags and options that are given a value are no mistake.                *)
LEMMA PlainlySaid ==
  ASSUME NEW argv, NEW i, argv[i].form = "long",
         \/ argv[i].name \in Names \ InputOptions /\ argv[i].value = NoValue
         \/ argv[i].name \in InputOptions /\ argv[i].value # NoValue /\ ~ LooksMissing(argv[i].value)
  PROVE  Complaint(argv, i) = NoError
BY NameFacts DEF Complaint

(* The fields of a long command.                                           *)
LEMMA LongArgument ==
  ASSUME NEW name, NEW value
  PROVE  /\ Long(name, value).form = "long"
         /\ Long(name, value).name = name
         /\ Long(name, value).value = value
BY DEF Long

(* --register with its input and output files, ".json" files or not.       *)
LEMMA RegisterLine ==
  ASSUME NEW input \in BOOLEAN, NEW output \in BOOLEAN
  PROVE  \E argv \in ArgumentLists :
           Asks(argv) = [asks |-> "register", input |-> input, output |-> output]
<1> DEFINE a == Long("register", NoValue)
           b == Long("register_input", TextFor(input))
           c == Long("register_output", TextFor(output))
           argv == <<a, b, c>>
           s == Parse(argv)
<1>1. /\ a.form = "long" /\ a.name = "register" /\ a.value = NoValue
      /\ b.form = "long" /\ b.name = "register_input" /\ b.value = TextFor(input)
      /\ c.form = "long" /\ c.name = "register_output" /\ c.value = TextFor(output)
  BY LongArgument
<1>2. a \in Arguments /\ b \in Arguments /\ c \in Arguments
  BY TextForFacts DEF Arguments
<1> HIDE DEF a, b, c
<1>3. DOMAIN argv = 1 .. 3 /\ argv[1] = a /\ argv[2] = b /\ argv[3] = c
  OBVIOUS
<1>4. argv \in [1 .. 3 -> Arguments]
  BY <1>2
<1> HIDE DEF argv
<1>5. argv \in ArgumentLists
  BY <1>4 DEF ArgumentLists
<1>6. argv \in Seq(Argument(ReadWords))
  BY <1>5, ListsAreLines
<1>7. \A i \in DOMAIN argv : i = 1 \/ i = 2 \/ i = 3
  BY <1>3
<1>8. Faulty(argv) = {}
  <2>1. "register" \in Names \ InputOptions /\ "register_input" \in InputOptions /\ "register_output" \in InputOptions
    BY NamesAre DEF InputOptions
  <2>2. Complaint(argv, 1) = NoError /\ Complaint(argv, 2) = NoError /\ Complaint(argv, 3) = NoError
    BY <1>1, <1>3, <2>1, TextForFacts, PlainlySaid
  <2> QED BY <1>7, <2>2 DEF Faulty
<1>9. Found(argv, s)
  <2>1. \A i \in DOMAIN argv : argv[i].form # "short"
    BY <1>1, <1>3, <1>7
  <2> QED BY <1>6, <1>8, <2>1, FoundByName
<1>10. /\ Gives(argv, "register") = {1}
       /\ Gives(argv, "register_input") = {2}
       /\ Gives(argv, "register_output") = {3}
       /\ \A o : o \notin {"register", "register_input", "register_output"} => Gives(argv, o) = {}
  BY <1>1, <1>3, <1>7 DEF Gives
<1> HIDE DEF s
<1>11. s.wasSet["register"] = 1 /\ s.wasSet["register_input"] = 1 /\ s.wasSet["register_output"] = 1
  <2>1. Cardinality({1}) = 1 /\ Cardinality({2}) = 1 /\ Cardinality({3}) = 1
    BY FS_Singleton
  <2>2. "register" \in Names /\ "register_input" \in Names /\ "register_output" \in Names
    BY NamesAre
  <2> QED BY <1>9, <1>10, <2>1, <2>2 DEF Found
<1>12. \A o \in Names \ {"register", "register_input", "register_output"} : s.wasSet[o] = 0
  BY <1>9, <1>10, FS_EmptySet DEF Found
<1>13. \A o \in AskedOnce : ~ (s.wasSet[o] > 1)
  <2>1. \A o \in AskedOnce : s.wasSet[o] = 1 \/ s.wasSet[o] = 0
    BY <1>11, <1>12, NamesAre
  <2> QED BY <2>1
<1>14. s.value["register_input"] = TextFor(input) /\ s.value["register_output"] = TextFor(output)
  <2>1. ValueGiven(argv, 2) = TextFor(input) /\ ValueGiven(argv, 3) = TextFor(output)
    BY <1>1, <1>3, TextForFacts DEF ValueGiven, IsBare
  <2>2. "register_input" \in InputOptions /\ "register_output" \in InputOptions
    BY DEF InputOptions
  <2> QED BY <1>9, <1>10, <2>1, <2>2 DEF Found
<1>15. IsJson(s, "register_input") = input /\ IsJson(s, "register_output") = output
  BY <1>11, <1>14, TextForFacts DEF IsJson
<1>16. s.errorText = NoError /\ s.wasSet["help"] = 0 /\ s.wasSet["version"] = 0
  BY <1>9, <1>12, NamesAre DEF Found
<1>17. Asks(argv) = [asks |-> "register", input |-> IsJson(s, "register_input"), output |-> IsJson(s, "register_output")]
  BY <1>11, <1>13, <1>16 DEF Asks, s
<1> QED BY <1>5, <1>15, <1>17

(* --listen with its input file.                                           *)
LEMMA ListenLine ==
  ASSUME NEW input \in BOOLEAN
  PROVE  \E argv \in ArgumentLists :
           Asks(argv) = [asks |-> "listen", input |-> input, output |-> TRUE]
<1> DEFINE a == Long("listen", NoValue)
           b == Long("listen_input", TextFor(input))
           argv == <<a, b>>
           s == Parse(argv)
<1>1. /\ a.form = "long" /\ a.name = "listen" /\ a.value = NoValue
      /\ b.form = "long" /\ b.name = "listen_input" /\ b.value = TextFor(input)
  BY LongArgument
<1>2. a \in Arguments /\ b \in Arguments
  BY TextForFacts DEF Arguments
<1> HIDE DEF a, b
<1>3. DOMAIN argv = 1 .. 2 /\ argv[1] = a /\ argv[2] = b
  OBVIOUS
<1>4. argv \in [1 .. 2 -> Arguments]
  BY <1>2
<1> HIDE DEF argv
<1>5. argv \in ArgumentLists
  BY <1>4 DEF ArgumentLists
<1>6. argv \in Seq(Argument(ReadWords))
  BY <1>5, ListsAreLines
<1>7. \A i \in DOMAIN argv : i = 1 \/ i = 2
  BY <1>3
<1>8. Faulty(argv) = {}
  <2>1. "listen" \in Names \ InputOptions /\ "listen_input" \in InputOptions
    BY NamesAre DEF InputOptions
  <2>2. Complaint(argv, 1) = NoError /\ Complaint(argv, 2) = NoError
    BY <1>1, <1>3, <2>1, TextForFacts, PlainlySaid
  <2> QED BY <1>7, <2>2 DEF Faulty
<1>9. Found(argv, s)
  <2>1. \A i \in DOMAIN argv : argv[i].form # "short"
    BY <1>1, <1>3, <1>7
  <2> QED BY <1>6, <1>8, <2>1, FoundByName
<1>10. /\ Gives(argv, "listen") = {1}
       /\ Gives(argv, "listen_input") = {2}
       /\ \A o : o \notin {"listen", "listen_input"} => Gives(argv, o) = {}
  BY <1>1, <1>3, <1>7 DEF Gives
<1> HIDE DEF s
<1>11. s.wasSet["listen"] = 1 /\ s.wasSet["listen_input"] = 1
  <2>1. Cardinality({1}) = 1 /\ Cardinality({2}) = 1
    BY FS_Singleton
  <2>2. "listen" \in Names /\ "listen_input" \in Names
    BY NamesAre
  <2> QED BY <1>9, <1>10, <2>1, <2>2 DEF Found
<1>12. \A o \in Names \ {"listen", "listen_input"} : s.wasSet[o] = 0
  BY <1>9, <1>10, FS_EmptySet DEF Found
<1>13. \A o \in AskedOnce : ~ (s.wasSet[o] > 1)
  <2>1. \A o \in AskedOnce : s.wasSet[o] = 1 \/ s.wasSet[o] = 0
    BY <1>11, <1>12, NamesAre
  <2> QED BY <2>1
<1>14. s.value["listen_input"] = TextFor(input)
  <2>1. ValueGiven(argv, 2) = TextFor(input)
    BY <1>1, <1>3, TextForFacts DEF ValueGiven, IsBare
  <2>2. "listen_input" \in InputOptions
    BY DEF InputOptions
  <2> QED BY <1>9, <1>10, <2>1, <2>2 DEF Found
<1>15. IsJson(s, "listen_input") = input
  BY <1>11, <1>14, TextForFacts DEF IsJson
<1>16. s.errorText = NoError /\ s.wasSet["help"] = 0 /\ s.wasSet["version"] = 0 /\ s.wasSet["register"] = 0
  BY <1>9, <1>12, NamesAre DEF Found
<1>17. Asks(argv) = [asks |-> "listen", input |-> IsJson(s, "listen_input"), output |-> TRUE]
  BY <1>11, <1>13, <1>16 DEF Asks, s
<1> QED BY <1>5, <1>15, <1>17

(* An unknown option, an option twice, and none.                           *)
LEMMA OtherLines ==
  \A what \in {"PARSE_ERROR", "ARGUMENT_ERROR", "SUCCESS"} :
    \E argv \in ArgumentLists : Asks(argv) = [asks |-> what, input |-> TRUE, output |-> TRUE]
<1>1. \E argv \in ArgumentLists : Asks(argv) = [asks |-> "PARSE_ERROR", input |-> TRUE, output |-> TRUE]
  <2> DEFINE a == Long("unknown", NoValue)
             argv == <<a>>
  <2>1. a.form = "long" /\ a.name = "unknown" /\ a \in Arguments
    BY LongArgument DEF Arguments
  <2> HIDE DEF a
  <2>2. DOMAIN argv = {1} /\ argv[1] = a /\ argv \in [1 .. 1 -> Arguments]
    BY <2>1
  <2> HIDE DEF argv
  <2>3. argv \in ArgumentLists
    BY <2>2 DEF ArgumentLists
  <2>4. argv \in Seq(Argument(ReadWords))
    BY <2>3, ListsAreLines
  <2>5. Complaint(argv, 1) # NoError
    <3>1. a.name \notin Names
      BY <2>1, NamesAre
    <3>2. 1 \in DOMAIN argv
      BY <2>2
    <3> QED BY <2>1, <2>2, <2>4, <3>1, <3>2, LongFaultless
  <2>6. Faulty(argv) = {1}
    BY <2>2, <2>5 DEF Faulty
  <2>7. Min({1}) = 1
    BY MinIs
  <2>8. Parse(argv).errorText = Complaint(argv, 1)
    BY <2>4, <2>6, <2>7, EveryLineIsReadAsWritten DEF ReadAsWritten
  <2>9. Asks(argv) = [asks |-> "PARSE_ERROR", input |-> TRUE, output |-> TRUE]
    BY <2>5, <2>8 DEF Asks
  <2> QED BY <2>3, <2>9
<1>2. \E argv \in ArgumentLists : Asks(argv) = [asks |-> "ARGUMENT_ERROR", input |-> TRUE, output |-> TRUE]
  <2> DEFINE a == Long("listen", NoValue)
             argv == <<a, a>>
             s == Parse(argv)
  <2>1. a.form = "long" /\ a.name = "listen" /\ a.value = NoValue /\ a \in Arguments
    BY LongArgument DEF Arguments
  <2> HIDE DEF a
  <2>2. DOMAIN argv = 1 .. 2 /\ argv[1] = a /\ argv[2] = a /\ argv \in [1 .. 2 -> Arguments]
    BY <2>1
  <2> HIDE DEF argv
  <2>3. argv \in ArgumentLists
    BY <2>2 DEF ArgumentLists
  <2>4. argv \in Seq(Argument(ReadWords))
    BY <2>3, ListsAreLines
  <2>5. \A i \in DOMAIN argv : argv[i] = a
    BY <2>2
  <2>6. "listen" \in Names \ InputOptions
    BY NamesAre DEF InputOptions
  <2>7. Faulty(argv) = {}
    BY <2>1, <2>5, <2>6, PlainlySaid DEF Faulty
  <2>8. Found(argv, s)
    BY <2>1, <2>4, <2>5, <2>7, FoundByName
  <2>9. Gives(argv, "listen") = 1 .. 2
    BY <2>1, <2>2, <2>5 DEF Gives
  <2>10. Cardinality(1 .. 2) = 2
    <3> DEFINE m == 1
               n == 2
    <3>1. m \in Int /\ n \in Int /\ ~ (m > n) /\ n - m + 1 = 2
      OBVIOUS
    <3> HIDE DEF m, n
    <3>2. Cardinality(m .. n) = 2
      BY <3>1, FS_Interval
    <3> QED BY <3>2 DEF m, n
  <2> HIDE DEF s
  <2>11. s.wasSet["listen"] > 1 /\ s.errorText = NoError
    BY <2>6, <2>8, <2>9, <2>10 DEF Found
  <2>12. "listen" \in AskedOnce
    BY <2>6 DEF AskedOnce
  <2>13. Asks(argv) = [asks |-> "ARGUMENT_ERROR", input |-> TRUE, output |-> TRUE]
    BY <2>11, <2>12 DEF Asks, s
  <2> QED BY <2>3, <2>13
<1>3. \E argv \in ArgumentLists : Asks(argv) = [asks |-> "SUCCESS", input |-> TRUE, output |-> TRUE]
  <2> DEFINE argv == <<>>
             s == Parse(argv)
  <2>1. DOMAIN argv = {} /\ argv \in [1 .. 0 -> Arguments]
    OBVIOUS
  <2> HIDE DEF argv
  <2>2. argv \in ArgumentLists
    BY <2>1 DEF ArgumentLists
  <2>3. argv \in Seq(Argument(ReadWords))
    BY <2>2, ListsAreLines
  <2>4. Faulty(argv) = {} /\ \A o : Gives(argv, o) = {}
    BY <2>1 DEF Faulty, Gives
  <2>5. Found(argv, s)
    BY <2>1, <2>3, <2>4, FoundByName
  <2> HIDE DEF s
  <2>6. s.errorText = NoError /\ \A o \in Names : s.wasSet[o] = 0
    BY <2>4, <2>5, FS_EmptySet DEF Found
  <2>7. AskedOnce \subseteq Names /\ "help" \in Names /\ "version" \in Names /\ "register" \in Names /\ "listen" \in Names
    BY NamesAre
  <2>8. \A o \in AskedOnce : ~ (s.wasSet[o] > 1)
    BY <2>6, <2>7
  <2>9. s.wasSet["help"] = 0 /\ s.wasSet["version"] = 0 /\ s.wasSet["register"] = 0 /\ s.wasSet["listen"] = 0
    BY <2>6, <2>7
  <2>10. Asks(argv) = [asks |-> "SUCCESS", input |-> TRUE, output |-> TRUE]
    BY <2>6, <2>8, <2>9 DEF Asks, s
  <2> QED BY <2>2, <2>10
<1> QED BY <1>1, <1>2, <1>3

(* The runs are asked for just what the command lines ask for: each of     *)
(* these is asked for by one of them, and nothing else by any.             *)
THEOREM AskingsExact == Spec => []AskingsAreThoseOfLines
<1>1. ASSUME NEW a \in Askings PROVE \E argv \in ArgumentLists : Asks(argv) = a
  <2>1. CASE a \in [asks : {"register"}, input : BOOLEAN, output : BOOLEAN]
    <3>1. a = [asks |-> "register", input |-> a.input, output |-> a.output] /\ a.input \in BOOLEAN /\ a.output \in BOOLEAN
      BY <2>1
    <3> QED BY <3>1, RegisterLine
  <2>2. CASE a \in [asks : {"listen"}, input : BOOLEAN, output : {TRUE}]
    <3>1. a = [asks |-> "listen", input |-> a.input, output |-> TRUE] /\ a.input \in BOOLEAN
      BY <2>2
    <3> QED BY <3>1, ListenLine
  <2>3. CASE a \in [asks : {"PARSE_ERROR", "ARGUMENT_ERROR", "SUCCESS"}, input : {TRUE}, output : {TRUE}]
    <3>1. a = [asks |-> a.asks, input |-> TRUE, output |-> TRUE] /\ a.asks \in {"PARSE_ERROR", "ARGUMENT_ERROR", "SUCCESS"}
      BY <2>3
    <3> QED BY <3>1, OtherLines
  <2> QED BY <2>1, <2>2, <2>3 DEF Askings
<1>2. AskingsAreThoseOfLines
  BY <1>1, AsksOneOfThem DEF AskingsAreThoseOfLines
<1> QED BY <1>2, PTL
=============================================================================
