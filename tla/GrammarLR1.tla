------------------------------ MODULE GrammarLR1 ------------------------------
(***************************************************************************)
(* The LR(1) automaton of a grammar, as format_out/grammer/core.py builds  *)
(* it, and its check for conflicts.                                        *)
(*                                                                         *)
(* A grammar is a sequence of productions [nt, gen], gen a nonempty        *)
(* sequence of symbols; the nonterminals are the symbols on a left side.   *)
(* An item is [gen, loc]: a production's number and the place of the dot.  *)
(* A node (ItemSet) is [items, la]: its items in the order of the dict,    *)
(* and the lookahead set of each.  "" is the end of the text.              *)
(***************************************************************************)
EXTENDS Integers, SequencesExt

IsT(g, s)      == \A k \in DOMAIN g : g[k].nt # s
Gen(g, i)      == g[i.gen].gen
Finished(g, i) == i.loc = Len(Gen(g, i))
NextMark(g, i) == Gen(g, i)[i.loc + 1]

\* The inputs a node has edges for.
InputSet(g, node) ==
  {NextMark(g, i) : i \in {j \in ToSet(node.items) : ~Finished(g, j)}}

-----------------------------------------------------------------------------
\* compute_first: no production is empty, so the first symbol decides.
RECURSIVE FirstFrom(_, _)
FirstFrom(g, first) ==
  LET Starts(k) == LET s == g[k].gen[1] IN IF IsT(g, s) THEN {s} ELSE first[s]
      next == [n \in DOMAIN first |->
                 first[n] \cup UNION {Starts(k) : k \in {j \in DOMAIN g : g[j].nt = n}}]
  IN  IF next = first THEN first ELSE FirstFrom(g, next)

FirstMap(g) == FirstFrom(g, [n \in {g[k].nt : k \in DOMAIN g} |-> {}])

\* Mutant: the lookahead is always the item's own.
NextFirstOwn(g, first, i, la) == la

\* get_next_first
NextFirst(g, first, i, la) ==
  IF i.loc + 1 = Len(Gen(g, i)) THEN la
  ELSE LET s == Gen(g, i)[i.loc + 2] IN IF IsT(g, s) THEN {s} ELSE first[s]

\* One item of gen_closure's queue: the items of the productions of the symbol
\* after the dot are added, or get more lookahead; those that changed are queued.
Expand(g, first, node, i) ==
  LET new     == NextFirst(g, first, i, node.la[i])
      starts  == IF Finished(g, i) THEN <<>>
                 ELSE SelectSeq([k \in DOMAIN g |-> [gen |-> k, loc |-> 0]],
                                LAMBDA s : g[s.gen].nt = NextMark(g, i))
      isNew(s)   == s \notin DOMAIN node.la
      changes(s) == IF isNew(s) THEN TRUE ELSE ~(new \subseteq node.la[s])
  IN  [node  |-> [items |-> node.items \o SelectSeq(starts, isNew),
                  la |-> [s \in DOMAIN node.la \cup ToSet(starts) |->
                            IF isNew(s) THEN new
                            ELSE IF s \in ToSet(starts) THEN node.la[s] \cup new
                            ELSE node.la[s]]],
       queue |-> SelectSeq(starts, changes)]

\* gen_closure
RECURSIVE Closure(_, _, _, _)
Closure(g, first, node, queue) ==
  IF queue = <<>> THEN node
  ELSE LET e == Expand(g, first, node, Head(queue))
       IN  Closure(g, first, e.node, Tail(queue) \o e.queue)

FirstNode(g, first, start) ==
  LET items == SelectSeq([k \in DOMAIN g |-> [gen |-> k, loc |-> 0]],
                         LAMBDA i : g[i.gen].nt = start)
  IN  Closure(g, first, [items |-> items, la |-> [i \in ToSet(items) |-> {""}]], items)

\* get_next_graph: the items that accept s, moved on, and their closure.
Goto(g, first, node, s) ==
  LET from  == SelectSeq(node.items, LAMBDA i : ~Finished(g, i) /\ NextMark(g, i) = s)
      items == [k \in DOMAIN from |-> [from[k] EXCEPT !.loc = @ + 1]]
  IN  Closure(g, first,
              [items |-> items,
               la |-> [i \in ToSet(items) |-> node.la[[i EXCEPT !.loc = @ - 1]]]],
              items)

\* compute_graph: nodes are equal if their items and lookaheads are, in whatever
\* order.  The order of a node's inputs is that of a Python set: any.  Targets of
\* different inputs differ, as the symbol before the dot does.
RECURSIVE GraphFrom(_, _, _, _, _)
GraphFrom(g, first, nodes, edges, at) ==
  IF at > Len(nodes) THEN [nodes |-> nodes, edges |-> edges]
  ELSE
    LET inputs  == SetToSeq(InputSet(g, nodes[at]))
        targets == [k \in DOMAIN inputs |-> Goto(g, first, nodes[at], inputs[k])]
        known   == {n.la : n \in ToSet(nodes)}
        fresh   == SelectSeq(targets, LAMBDA n : n.la \notin known)
        all     == nodes \o fresh
        IdOf(n) == CHOOSE k \in DOMAIN all : all[k].la = n.la
    IN  GraphFrom(g, first, all,
          edges \cup {[source |-> at, input |-> inputs[k], dest |-> IdOf(targets[k])] :
                        k \in DOMAIN inputs},
          at + 1)

Graph(g, start) ==
  LET first == FirstMap(g) IN GraphFrom(g, first, <<FirstNode(g, first, start)>>, {}, 1)

-----------------------------------------------------------------------------
CanAcceptInput(g, node, i, t) ==
  IF Finished(g, i) THEN t \in node.la[i] ELSE NextMark(g, i) = t

\* check_lr1: each finished item against the items after it.
NodePasses(g, node) ==
  \A i, j \in DOMAIN node.items :
    i < j /\ Finished(g, node.items[i]) =>
      \A t \in node.la[node.items[i]] : ~CanAcceptInput(g, node, node.items[j], t)

CheckLR1(g, graph) == \A n \in ToSet(graph.nodes) : NodePasses(g, n)

\* LR(1): no finished item shares an input with any other item.
NoConflict(g, graph) ==
  \A n \in ToSet(graph.nodes) : \A i, j \in ToSet(n.items) :
    i # j /\ Finished(g, i) => \A t \in n.la[i] : ~CanAcceptInput(g, n, j, t)
=============================================================================
