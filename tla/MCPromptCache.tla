--------------------------- MODULE MCPromptCache ---------------------------
(* Instances of PromptCache for TLC.                                       *)
EXTENDS PromptCache

FirstTwo == [r \in Req |-> IF r = 2 THEN 1 ELSE r]

\* A group of two (best_of = 2, diverse mode), a request whose text ends inside the
\* group's and whose lookup splits the edge above the node the group holds, one that
\* parts from the group after its second token, so that the edge is split where it was
\* not used for long, and one that starts differently: the pool takes two or three.
PromptsMixed == 1 :> <<1, 2, 1>> @@ 2 :> <<1, 2, 1>> @@ 3 :> <<1, 2>>
                @@ 4 :> <<2, 1, 2, 2>> @@ 5 :> <<1, 2, 2, 2>>
NewMixed     == 1 :> 2 @@ 2 :> 2 @@ 3 :> 1 @@ 4 :> 1 @@ 5 :> 1
=============================================================================
