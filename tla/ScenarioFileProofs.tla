------------------------- MODULE ScenarioFileProofs -------------------------
(***************************************************************************)
(* What the linter's gate promises of a scenario file, for files of every  *)
(* length and every set of tokens: three tables written by hand in three   *)
(* places (the linter's lists and keys, the loader's parsers, the          *)
(* dispatch of the runners) agree.                                         *)
(***************************************************************************)
EXTENDS ScenarioFile, TLAPS

\* The runner's names are among those the linter has seen, whatever it said of them.
NamesInv ==
    /\ given \subseteq tokenSeen
    /\ clean => ~clash

-----------------------------------------------------------------------------
(* The tables, step by step *)

\* What scalar() makes of a key that holds a name.
LEMMA ScalarName ==
    ASSUME NEW s, NEW key, NEW fallback, Scalar(s, key, fallback) # "empty"
    PROVE  \/ /\ key \in DOMAIN s.args /\ s.args[key] \notin {"empty", "map"}
              /\ Scalar(s, key, fallback) = s.args[key]
           \/ Scalar(s, key, fallback) = fallback
BY DEF Scalar

\* The actions whose arguments hold the name of something new are those for which the
\* linter has keys (parse_args() in scenario_loader.cpp, check_step_token() in
\* scenario_lint.cpp).
LEMMA ParsedFrom ==
    ASSUME NEW action
    PROVE  /\ ParsedAs(action) \in {"place", "mass_quote"} => action \in {"place", "mass_quote"}
           /\ ParsedAs(action) = "replace" => action = "replace"
           /\ ParsedAs(action) = "fix_place" => action \in {"place", "fix_place"}
           /\ ParsedAs(action) = "fix_replace" => action \in {"replace", "fix_replace"}
BY DEF ParsedAs

\* Whatever keys the author of a step used, the name its order gets is one that the
\* linter looked at: the fallback from cl_ord_id to token and new_token included.
LEMMA NameIsLinted ==
    ASSUME NEW s, NewName(s) # "empty"
    PROVE  \E k \in Names(s) : NewName(s) = s.args[k] /\ k # "token_ref"
<1> DEFINE parsed == ParsedAs(s.action)
<1>1. ASSUME NEW key, NEW fallback, key \in ProducerKeys(s.action), key # "token_ref",
             NewName(s) = Scalar(s, key, fallback)
      PROVE  \/ \E k \in Names(s) : NewName(s) = s.args[k] /\ k # "token_ref"
             \/ NewName(s) = fallback
  BY <1>1, ScalarName DEF Names
<1>2. CASE parsed \in {"place", "mass_quote"}
  <2>1. NewName(s) = Scalar(s, "token", "empty")
    BY <1>2 DEF NewName
  <2>2. "token" \in ProducerKeys(s.action)
    BY <1>2, ParsedFrom DEF ProducerKeys
  <2> QED
    BY <1>1, <2>1, <2>2
<1>3. CASE parsed = "replace"
  <2>1. NewName(s) = Scalar(s, "new_token", "empty")
    BY <1>3 DEF NewName
  <2>2. "new_token" \in ProducerKeys(s.action)
    BY <1>3, ParsedFrom DEF ProducerKeys
  <2> QED
    BY <1>1, <2>1, <2>2
<1>4. CASE parsed = "fix_place"
  <2>1. NewName(s) = Scalar(s, "cl_ord_id", Scalar(s, "token", "empty"))
    BY <1>4 DEF NewName
  <2>2. "token" \in ProducerKeys(s.action) /\ "cl_ord_id" \in ProducerKeys(s.action)
    BY <1>4, ParsedFrom DEF ProducerKeys
  <2> QED
    BY <1>1, <2>1, <2>2
<1>5. CASE parsed = "fix_replace"
  <2>1. NewName(s) = Scalar(s, "cl_ord_id", Scalar(s, "new_token", "empty"))
    BY <1>5 DEF NewName
  <2>2. "new_token" \in ProducerKeys(s.action) /\ "cl_ord_id" \in ProducerKeys(s.action)
    BY <1>5, ParsedFrom DEF ProducerKeys
  <2> QED
    BY <1>1, <2>1, <2>2
<1>6. CASE parsed \notin {"place", "mass_quote", "replace", "fix_place", "fix_replace"}
  BY <1>6 DEF NewName
<1> QED
  BY <1>2, <1>3, <1>4, <1>5, <1>6

\* For every action and protocol the runner that is chosen takes what the loader made
\* (run() of the two runners, parse_args()).
LEMMA HandlerTakesParsed ==
    ASSUME NEW action
    PROVE  Handler(action) \in {"any", "unsupported", ParsedAs(action)}
<1>1. CASE FixRuns
  <2>1. IsFix
    BY <1>1 DEF FixRuns, IsFix
  <2>2. FixHandler(action) \in {"any", "unsupported", ParsedAs(action)}
    BY <2>1 DEF FixHandler, ParsedAs
  <2> QED
    BY <1>1, <2>2 DEF Handler
<1>2. CASE ~FixRuns
  <2>1. ~IsFix
    BY <1>2 DEF FixRuns, IsFix
  <2>2. OuchHandler(action) \in {"any", "unsupported", ParsedAs(action)}
    BY <2>1 DEF OuchHandler, ParsedAs
  <2> QED
    BY <1>2, <2>2 DEF Handler
<1> QED
  BY <1>1, <1>2

-----------------------------------------------------------------------------
(* A step of a file, whatever it holds *)

\* A step keeps the runner's names among the linter's, and a name that clashes is an
\* issue (check_step_token(), run_place(), run_replace()).
LEMMA NamesStep == ASSUME NamesInv, NEW s, ReadStep(s) PROVE NamesInv'
<1> DEFINE name == NewName(s)
           makes == Handler(s.action) # "unsupported" /\ name # "empty"
<1>0. /\ given \subseteq tokenSeen /\ ~clash
      /\ tokenSeen' = tokenSeen \cup {s.args[k] : k \in Names(s)}
      /\ given' = IF makes THEN given \cup {name} ELSE given
      /\ clash' = (clash \/ (makes /\ ~ExpectsReject(s) /\ (name = "long" \/ name \in given)))
      /\ clean' => LengthPasses(s) /\ NamesPass(s)
  BY DEF NamesInv, ReadStep, Lint, Run
<1>1. ASSUME makes
      PROVE  \E k \in Names(s) : name = s.args[k] /\ k # "token_ref"
  BY <1>1, NameIsLinted
<1>2. given' \subseteq tokenSeen'
  <2>1. CASE makes
    BY <1>0, <1>1, <2>1
  <2>2. CASE ~makes
    BY <1>0, <2>2
  <2> QED
    BY <2>1, <2>2
<1>3. ASSUME clean', makes, ~ExpectsReject(s)
      PROVE  name # "long" /\ name \notin given
  <2>1. PICK k \in Names(s) : name = s.args[k] /\ k # "token_ref"
    BY <1>1, <1>3
  <2>2. s.args[k] # "long"
    BY <1>0, <1>3, <2>1 DEF LengthPasses, Names
  <2>3. s.args[k] \notin tokenSeen
    BY <1>0, <1>3, <2>1 DEF NamesPass
  <2> QED
    BY <1>0, <2>1, <2>2, <2>3
<1>4. clean' => ~clash'
  BY <1>0, <1>3
<1> QED
  BY <1>2, <1>4 DEF NamesInv

\* Every step of the specification reads one step of the file.
LEMMA NextReads == Next => \E s : ReadStep(s)
BY DEF Next, ReadId, ReadAction, ReadTokens, ReadFields

-----------------------------------------------------------------------------
\* In a file that passes the linter, every new order and quote has a name that fits
\* the wire and that no order before it has, unless a reject is expected: for files of
\* every length, over every set of tokens.
THEOREM PassedNamesHold == Spec => []PassedNamesAreFresh
<1>1. Init => NamesInv
  BY DEF Init, NamesInv
<1>2. NamesInv /\ [Next]_vars => NamesInv'
  <2>1. ASSUME NamesInv, UNCHANGED vars PROVE NamesInv'
    BY <2>1 DEF NamesInv, vars
  <2> QED
    BY <2>1, NextReads, NamesStep
<1>3. NamesInv => PassedNamesAreFresh
  BY DEF NamesInv, PassedNamesAreFresh
<1> QED
  BY <1>1, <1>2, <1>3, PTL DEF Spec

\* No handler of a runner finds arguments of another type than the one it takes,
\* whatever the protocol and the action.
THEOREM ArgumentsHold == Spec => []ArgumentsReachHandler
<1>1. Init => ArgumentsReachHandler
  BY DEF Init, ArgumentsReachHandler
<1>2. ArgumentsReachHandler /\ [Next]_vars => ArgumentsReachHandler'
  <2>1. ASSUME ArgumentsReachHandler, NEW s, ReadStep(s) PROVE ArgumentsReachHandler'
    BY <2>1, HandlerTakesParsed DEF ReadStep, Run, ArgumentsReachHandler
  <2>2. ASSUME ArgumentsReachHandler, UNCHANGED vars PROVE ArgumentsReachHandler'
    BY <2>2 DEF ArgumentsReachHandler, vars
  <2> QED
    BY <2>1, <2>2, NextReads
<1> QED
  BY <1>1, <1>2, PTL DEF Spec
=============================================================================
