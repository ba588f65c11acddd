----------------------------- MODULE MCProgram ------------------------------
(***************************************************************************)
(* Three runs: two that register and one that listens, or any other three. *)
(* Runs are interchangeable.  What they are asked to do is anything wmain  *)
(* may make of a command line; those read here have up to three arguments. *)
(***************************************************************************)
EXTENDS Program, CommandLine, TLC

RunSymmetry == Permutations(Runs)

Arguments ==
  {Long(name, NoValue) : name \in {"register", "listen", "help", "unknown"} \cup InputOptions}
    \cup {Long(name, text) : name \in {"listen", "register_input", "register_output", "listen_input"}, text \in Texts}
    \cup {Short(letters) : letters \in {<<"r">>, <<"l">>, <<"l", "r">>, <<"v", "?", "!">>}}
    \cup {Plain(text) : text \in Texts}

ArgumentLists == UNION {[1 .. n -> Arguments] : n \in 0 .. 3}

(* Every command line is read as it is written, whatever its options, the  *)
(* values between them and the mistakes in it.  (Asked once, before a run  *)
(* has read its own.)                                                      *)
ParseReadsAsWritten ==
  at = [r \in Runs |-> "wmain"] => \A argv \in ArgumentLists : ReadAsWritten(argv)

(* What a run does depends neither on the order of its options nor on how  *)
(* they are spelled: letters or names, a value after the option or behind  *)
(* an "=".                                                                 *)
SpellingAndOrderDoNotMatter ==
  at = [r \in Runs |-> "wmain"] => \A argv \in ArgumentLists : AskedAnotherWay(argv)

(* What the runs are asked to do is what these command lines ask for:      *)
(* neither less than they can ask, nor anything that none of them asks.    *)
AskingsAreThoseOfLines ==
  at = [r \in Runs |-> "wmain"] => Askings = {Asks(argv) : argv \in ArgumentLists}
=============================================================================
