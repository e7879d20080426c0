---------------------------- MODULE GrammarMatcher ----------------------------
(***************************************************************************)
(* DPDA.accept: a text is read one terminal at a time by the automaton of  *)
(* Dpda, which decides whether the grammar generates it.                   *)
(***************************************************************************)
EXTENDS Dpda

CONSTANTS
  Grammars,     (* sequence of grammars, each with the start symbol "S'"      *)
  MaxWord       (* bound: terminals of a text                                 *)

ASSUME GrammarMatcherAssumption ==
  /\ MaxWord \in Nat
  /\ \A k \in DOMAIN Grammars : \A p \in DOMAIN Grammars[k] :
       Grammars[k][p].gen \in Seq(STRING) \ {<<>>}

GraphOf == [k \in DOMAIN Grammars |-> Graph(Grammars[k], "S'")]
AutomatonOf == [k \in DOMAIN Grammars |-> Automaton(Grammars[k], GraphOf[k])]
Terminals(k) == {s \in UNION {ToSet(p.gen) : p \in ToSet(Grammars[k])} : IsT(Grammars[k], s)}

VARIABLES
  grammar,      \* the place of the grammar in Grammars
  word,         \* what was read
  stack,        \* the nodes, the top last
  node,         \* current_node_id
  failed        \* accept raised "not accept", or its assertion

vars == <<grammar, word, stack, node, failed>>

\* The automaton could be built: check_lr1 and the assertion of handle_circles pass,
\* and every direct jump ends in a shift that fits.
Built(k) == /\ CheckLR1(Grammars[k], GraphOf[k]) /\ CirclesDistinct(GraphOf[k])
            /\ Buildable(AutomatonOf[k])

Init ==
  /\ grammar \in {k \in DOMAIN Grammars : Built(k)}
  /\ word = <<>> /\ stack = <<1>> /\ node = 1 /\ failed = FALSE

\* _stack_match
StackMatch(pop) ==
  /\ Len(pop) <= Len(stack)
  /\ \A i \in 1..Len(pop) : pop[i] = stack[Len(stack) + 1 - i]

\* Shifts come first, reductions only if there is none.
Candidates(t) ==
  LET a == AutomatonOf[grammar]
      Of(edges) == {e \in edges : e.source = node /\ e.la = t}
  IN  IF Of(a.oneStep) # {} THEN Of(a.oneStep) ELSE Of(a.direct)

Matching(t) == {e \in Candidates(t) : StackMatch(e.pop)}

Read(t) ==
  /\ ~failed /\ Len(word) < MaxWord
  /\ word' = Append(word, t)
  /\ IF Matching(t) = {}
     THEN failed' = TRUE /\ UNCHANGED <<stack, node>>
     ELSE /\ \E e \in Matching(t) :
               /\ stack' = SubSeq(stack, 1, Len(stack) - Len(e.pop)) \o e.push
               /\ node' = e.dest
          /\ UNCHANGED failed
  /\ UNCHANGED grammar

Next == \E t \in Terminals(grammar) : Read(t)

Spec == Init /\ [][Next]_vars

Accepted == ~failed /\ CanFinish(Grammars[grammar], GraphOf[grammar].nodes[node])

-----------------------------------------------------------------------------
(***************************************************************************)
(* Reference: the words of a grammar up to a length, by its productions.   *)
(***************************************************************************)
Joined(A, B, n) == {x \o y : <<x, y>> \in {p \in A \X B : Len(p[1]) + Len(p[2]) <= n}}

RECURSIVE WordsFrom(_, _, _)
WordsFrom(g, lang, n) ==
  LET Of(s)   == IF IsT(g, s) THEN {<<s>>} ELSE lang[s]
      Gives(k) == FoldLeft(LAMBDA acc, s : Joined(acc, Of(s), n), {<<>>}, g[k].gen)
      next == [x \in DOMAIN lang |-> UNION {Gives(k) : k \in {j \in DOMAIN g : g[j].nt = x}}]
  IN  IF next = lang THEN lang ELSE WordsFrom(g, next, n)

Language ==
  [k \in DOMAIN Grammars |->
     WordsFrom(Grammars[k], [x \in {p.nt : p \in ToSet(Grammars[k])} |-> {}], MaxWord)["S'"]]

-----------------------------------------------------------------------------
(***************************************************************************)
(* Properties                                                              *)
(***************************************************************************)
TypeOK ==
  LET ids == DOMAIN GraphOf[grammar].nodes
  IN  node \in ids /\ stack \in Seq(ids) /\ (~failed => Last(stack) = node)

\* The automaton accepts exactly the words of the grammar: reductions chained into
\* one edge, circles cut short and the grammar's recursion left, right and in the
\* middle come to the same.
LanguageExact == Accepted <=> word \in Language[grammar]

\* A text is refused at the first terminal that no word of the grammar continues
\* with: for generation under the grammar a prefix that passes is never given up.
RefusedInTime ==
  failed => \A w \in Language[grammar] : ~IsPrefix(word, w)

\* At most one edge fits the top of the stack: accept takes the first it finds and
\* asserts that there is one (find_count == 1).
Deterministic == ~failed => \A t \in Terminals(grammar) : Cardinality(Matching(t)) <= 1

\* "必须是 LR(1) 文法": a grammar that check_lr1 lets pass is LR(1).
ConflictsFound == NoConflict(Grammars[grammar], GraphOf[grammar])
=============================================================================
