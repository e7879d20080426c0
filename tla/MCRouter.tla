------------------------------ MODULE MCRouter ------------------------------
(***************************************************************************)
(* Instances of Router for TLC.                                            *)
(***************************************************************************)
EXTENDS Router

\* Three requests of at most 8 tokens compete for 17: any two fit together to
\* the end, the three fit for their first tokens only.
ThreeReq    == 1..3
ThreeInput  == <<4, 3, 5>>
ThreeMaxNew == <<3, 4, 3>>

\* Three requests for two places: two long answers, estimated at one more token
\* each, are admitted together and outgrow 21 tokens; a third would fit too if
\* there were a place for it.
LongInput  == <<8, 8, 1>>
LongMaxNew == <<4, 4, 2>>
=============================================================================
