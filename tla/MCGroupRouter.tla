--------------------------- MODULE MCGroupRouter ---------------------------
(***************************************************************************)
(* Instances of GroupRouter for TLC.                                       *)
(***************************************************************************)
EXTENDS GroupRouter

\* Two groups of two and a single request; one group and the single request fit
\* the pool to the end, the second group only when the first has run a while.
ThreeGroups   == 1..3
ThreeBestOf   == <<2, 2, 1>>
ThreeInput    == <<1, 1, 3>>
ThreeMaxNew   == <<5, 5, 2>>

\* A beam group of two next to a single request.
PairGroups    == 1..2
PairBestOf    == <<2, 1>>
PairInput     == <<2, 1>>
PairMaxNew    == <<3, 2>>

\* The settings a behaviour starts with and keeps: those of the configuration file,
\* or a pair of groups in beam mode.
VARIABLE mode

Beam == INSTANCE GroupRouter WITH
  Group <- PairGroups, BestOf <- PairBestOf, InputLen <- PairInput, MaxNew <- PairMaxNew,
  MayAbort <- {}, MaxTotal <- 16, MaxReqTotal <- 5, BatchMaxTokens <- 5, BeamMode <- TRUE

ModesInit == \/ mode = "diverse" /\ Init
             \/ mode = "beam" /\ Beam!Init

ModesNext == /\ \/ mode = "diverse" /\ Next
                \/ mode = "beam" /\ Beam!Next
             /\ UNCHANGED mode

ModesSpec == /\ ModesInit /\ [][ModesNext]_<<vars, mode>>
             /\ WF_<<vars, mode>>(mode = "beam" /\ Beam!Fwd /\ UNCHANGED mode)

\* The settings of the configuration file alone.
AloneSpec == mode = "diverse" /\ Init /\ [][Next /\ UNCHANGED mode]_<<vars, mode>>

\* A token of the pool is free exactly when no row of a running request holds it,
\* and its references count the rows: nothing is freed under a reader or kept for
\* nobody (SharedTokens), whichever mode copies rows and references.
TokensShared == IF mode = "diverse" THEN SharedTokens ELSE Beam!SharedTokens

\* What the group queue promises in diverse mode: it hands every sub-request out once
\* (TakenOnce), its sorted loop computes the largest load of any later moment, and a
\* decode always fits the pool.
QueueHolds == mode = "diverse" => TakenOnce /\ NeedIsPeak /\ DecodeFits

\* In beam mode, every group is answered (EveryGroupServed).
BeamGroupsServed == mode = "beam" => Beam!EveryGroupServed
=============================================================================
