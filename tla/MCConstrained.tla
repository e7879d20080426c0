---------------------------- MODULE MCConstrained -----------------------------
(***************************************************************************)
(* Instances for TLC of what constrains an answer: GrammarMatcher with the  *)
(* grammars of the repository's tests (test0.py to test6.py) and some with *)
(* other recursions, TokenHealing, and TokenConstraint.  A behaviour keeps *)
(* the one of Modes it starts with, and with TokenHealing or               *)
(* TokenConstraint its settings.                                           *)
(***************************************************************************)
EXTENDS GrammarMatcher

CONSTANT Modes

P(nt, gen) == [nt |-> nt, gen |-> gen]

Test0 == <<P("S'", <<"S">>), P("S", <<"A">>), P("A", <<"a", "A">>), P("A", <<"a">>)>>
Test1 == <<P("S'", <<"S">>), P("S", <<"A">>), P("A", <<"a", "C", "A">>), P("A", <<"a">>),
           P("C", <<"c">>)>>
Test2 == <<P("S'", <<"S">>), P("S", <<"A">>), P("A", <<"a", "a", "A">>), P("A", <<"a">>),
           P("A", <<"c", "a", "A">>)>>
Test3 == <<P("S'", <<"S">>), P("S", <<"A", "B">>), P("A", <<"a", "A">>), P("A", <<"a">>),
           P("B", <<"b", "B">>), P("B", <<"b">>)>>
Test4 == <<P("S'", <<"S">>), P("S", <<"A", "B">>), P("A", <<"a", "a", "A">>), P("A", <<"a">>),
           P("B", <<"b", "b", "B">>), P("B", <<"b">>)>>
Test5 == <<P("S'", <<"E">>), P("E", <<"M">>), P("M", <<"M", "c", "F">>), P("M", <<"F">>),
           P("F", <<"l", "E", "r">>), P("F", <<"1">>)>>
Test6 == <<P("S'", <<"E">>), P("E", <<"l", "E", "r">>), P("E", <<"1">>)>>
Left  == <<P("S'", <<"S">>), P("S", <<"S", "a">>), P("S", <<"b">>)>>
Pairs == <<P("S'", <<"S">>), P("S", <<"a", "S", "b">>), P("S", <<"a", "b">>)>>
Else  == <<P("S'", <<"S">>), P("S", <<"i", "S", "e", "S">>), P("S", <<"i", "S">>),
           P("S", <<"o">>)>>

MCGrammars   == <<Test0, Test1, Test2, Test3, Test4, Test5, Test6, Left, Pairs>>
ElseGrammars == <<Else>>

VARIABLES
  mode,
  prompt, max_new_tokens, at, prefix_str, visible, output_str, text, told,
  constraint, min_new_tokens, ignore_eos, fsm_current_state, finish_status,
  outputs

healingVars == <<prompt, max_new_tokens, at, prefix_str, visible, output_str, text, told>>
choiceVars  == <<constraint, min_new_tokens, ignore_eos, fsm_current_state, finish_status>>
allVars     == <<mode, vars, healingVars, choiceVars, outputs>>

\* Text that can be cut in many ways, and an end.
a == <<"a">>
b == <<"b">>
end == <<"e">>
HealingVocab   == {a, b, a \o b, b \o a, a \o b \o b, end}
HealingPrompts == {<<b, a>>, <<a, b, a \o b \o b>>, <<b, b \o a, b>>, <<a, b \o a, a \o b>>}

Healing == INSTANCE TokenHealing WITH
  Vocab <- HealingVocab, Eos <- {end}, Lead <- {}, Prompts <- HealingPrompts,
  MaxNews <- {1, 2}, StopSequences <- {}, AddedMaxNew <- 6, DecayLength <- 9

\* A request with an exponential length penalty: an end may come after one output.
Lifted == INSTANCE TokenHealing WITH
  Vocab <- HealingVocab, Eos <- {end}, Lead <- {}, Prompts <- HealingPrompts,
  MaxNews <- {1}, StopSequences <- {}, AddedMaxNew <- 6, DecayLength <- 1

\* A request that stops at "b".
Stop == INSTANCE TokenHealing WITH
  Vocab <- HealingVocab, Eos <- {end}, Lead <- {}, Prompts <- HealingPrompts,
  MaxNews <- {1}, StopSequences <- {<<b>>}, AddedMaxNew <- 6, DecayLength <- 9

\* A vocabulary of bytes: "a" begins a character.
Bytes == INSTANCE TokenHealing WITH
  Vocab <- HealingVocab, Eos <- {end}, Lead <- {"a"}, Prompts <- HealingPrompts,
  MaxNews <- {1}, StopSequences <- {}, AddedMaxNew <- 6, DecayLength <- 9

\* The expression (ab|abb)*c?, with a token for "ab"; lists with and without an end.
Edges       == {<<0, "a", 1>>, <<0, "ab", 2>>, <<1, "b", 2>>, <<2, "b", 3>>, <<2, "a", 1>>,
                <<2, "ab", 2>>, <<2, "c", 4>>, <<3, "a", 1>>, <<3, "ab", 2>>, <<3, "c", 4>>,
                <<0, "c", 4>>}
Constraints == {[regular |-> TRUE, allowed_token_ids |-> {}],
                [regular |-> FALSE, allowed_token_ids |-> {"a", "b"}],
                [regular |-> FALSE, allowed_token_ids |-> {"c", "eos2"}]}

\* decay: the outputs after which a masked end comes back; minimum: min_new_tokens
Choice(minimum, decay) == INSTANCE TokenConstraint WITH
  Vocab <- {"a", "b", "ab", "c", "eos1", "eos2"}, EosIds <- {"eos1", "eos2"},
  EosToken <- "eos1", Finals <- {0, 2, 3, 4}, MinNews <- {minimum}, MaxNew <- 7,
  DecayLength <- decay, IgnoreEos <- BOOLEAN

\* What is not looked at keeps one initial value.
MCInit ==
  /\ mode \in Modes
  /\ Init /\ (mode # "grammar" => grammar = 1)
  /\ outputs = <<>>
  /\ Healing!Init
  /\ (mode \notin {"healing", "lifted", "stop", "bytes"} => prompt = <<b, a>>)
  /\ (mode # "healing" => max_new_tokens = 1)
  /\ IF mode = "minimum" THEN Choice(3, 7)!Init ELSE Choice(1, 7)!Init
  /\ (mode \notin {"choice", "minimum", "decay"} => constraint.regular /\ ignore_eos)

MCNext ==
  /\ \/ mode = "grammar" /\ Next /\ UNCHANGED <<healingVars, choiceVars, outputs>>
     \/ mode = "healing" /\ Healing!Next /\ UNCHANGED <<vars, choiceVars>>
     \/ mode = "lifted" /\ Lifted!Next /\ UNCHANGED <<vars, choiceVars>>
     \/ mode = "choice" /\ Choice(1, 7)!Next /\ UNCHANGED <<vars, healingVars>>
  /\ UNCHANGED mode

MCSpec == MCInit /\ [][MCNext]_allVars

\* The settings for which the code does not do what is said of it.
OtherNext ==
  /\ \/ mode = "lifted" /\ Lifted!Next /\ UNCHANGED <<vars, choiceVars>>
     \/ mode = "stop" /\ Stop!Next /\ UNCHANGED <<vars, choiceVars>>
     \/ mode = "bytes" /\ Bytes!Next /\ UNCHANGED <<vars, choiceVars>>
     \/ mode = "minimum" /\ Choice(3, 7)!Next /\ UNCHANGED <<vars, healingVars>>
     \/ mode = "decay" /\ Choice(1, 2)!Next /\ UNCHANGED <<vars, healingVars>>
  /\ UNCHANGED mode

OtherSpec == MCInit /\ [][OtherNext]_allVars

-----------------------------------------------------------------------------
\* The automaton of a grammar accepts its words and no others (LanguageExact), takes
\* each step in one way (Deterministic), and refuses a text at the first terminal that
\* no word goes on with (RefusedInTime).
WordsExact == mode = "grammar" => LanguageExact /\ Deterministic /\ RefusedInTime

\* What --token_healing_mode promises: the client reads the prompt continued
\* (TextContinues), the masks always leave a token and only a lifted end gets past them
\* (NoDeadEnd), and the scheduler has counted the tokens that repeat the prompt's end
\* (EstimateCovers).
HealedAsPromised ==
  /\ mode = "healing" => /\ Healing!TextContinues /\ Healing!EstimateCovers
                         /\ Healing!NoDeadEnd /\ Healing!NoErrorState
  /\ mode = "lifted"  => /\ Lifted!TextContinues /\ Lifted!EstimateCovers
                         /\ Lifted!NoDeadEnd

\* An answer keeps to its regular expression, which its end completes, or to its list of
\* tokens (ConstraintHolds), and ends where the match does (EndsAtMatch).
AnswerIsConstrained == mode = "choice" => Choice(1, 7)!ConstraintHolds /\ Choice(1, 7)!EndsAtMatch

\* "Regular expressions constrain the output" with every setting of the request.
AlwaysConstrained ==
  /\ mode = "minimum" => Choice(3, 7)!ConstraintHolds
  /\ mode = "decay" => Choice(1, 2)!ConstraintHolds

\* A token that leaves the mask is never sampled, whatever the length penalty is
\* (NoErrorState).
MaskKept == mode = "lifted" => Lifted!NoErrorState

\* The client of an answer that has ended is told so (EveryAnswerEnds).
StopIsTold == mode = "stop" => Stop!EveryAnswerEnds

\* The client reads the prompt continued with a vocabulary of bytes (TextContinues).
BytesContinue == mode = "bytes" => Bytes!TextContinues

\* What check_lr1 lets pass is LR(1) (ConflictsFound).
GrammarsAreLR1 == mode = "grammar" => ConflictsFound
=============================================================================
