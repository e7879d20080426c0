---------------------------- MODULE AnswerStream ----------------------------
(***************************************************************************)
(* What a client of the serving system may rely on, whatever processes its *)
(* request runs through: each answer arrives token by token, none missing, *)
(* doubled or out of order, and the connection is closed as complete only  *)
(* when all answers have arrived to their end.  Only a client that left    *)
(* may be given up.                                                        *)
(***************************************************************************)
EXTENDS Naturals

CONSTANTS Group, Sub, GroupOf   (* requests, their answers, and which is whose *)

VARIABLES
  generated,  (* tokens generated for each answer   *)
  ended,      (* answers with their last token      *)
  received,   (* tokens that reached the client     *)
  phase       (* of each request                    *)

vars == <<generated, ended, received, phase>>

Init ==
  /\ generated = [s \in Sub |-> 0] /\ ended = {}
  /\ received = [s \in Sub |-> 0]
  /\ phase = [g \in Group |-> "open"]

\* Tokens are generated for several answers at once, up to the end of each.
Generate ==
  /\ \A s \in Sub : generated'[s] \in {generated[s], generated[s] + 1}
  /\ \A s \in ended : generated'[s] = generated[s]
  /\ ended \subseteq ended'
  /\ UNCHANGED <<received, phase>>

\* A client receives one token of each of some answers, or several in a row.
Receive ==
  /\ \A s \in Sub : received'[s] \in received[s]..generated[s]
  /\ \A g \in Group : phase'[g] # phase[g] =>
        /\ phase[g] = "open" /\ phase'[g] = "complete"
        /\ \A s \in Sub : GroupOf[s] = g => s \in ended /\ received'[s] = generated[s]
  /\ UNCHANGED <<generated, ended>>

GiveUp(g) ==
  /\ phase[g] # "complete"
  /\ phase' = [phase EXCEPT ![g] = "given up"]
  /\ UNCHANGED <<generated, ended, received>>

Next == Generate \/ Receive \/ \E g \in Group : GiveUp(g)

Spec == Init /\ [][Next]_vars
=============================================================================
