----------------------------- MODULE MCPipeline -----------------------------
(***************************************************************************)
(* Instances of Pipeline for TLC.  Behaviours start with the settings of   *)
(* the configuration file (text, two tokens an answer) or with those of a  *)
(* multimodal service (one token an answer), and keep them.                *)
(***************************************************************************)
EXTENDS Pipeline, TLC
TwoAnswers == 1 :> 2 @@ 2 :> 1
OneAnswer  == [g \in Group |-> 1]
OneToken   == [g \in Group |-> 1]
TwoTokens  == [g \in Group |-> 2]

VARIABLE mode

Images == INSTANCE Pipeline WITH
  MaxNew <- OneToken, Multimodal <- TRUE, InferBatch <- 2

MCInit == mode \in {"text", "images"} /\ Init

MCNext == /\ \/ mode = "text" /\ Next
             \/ mode = "images" /\ Images!Next
          /\ UNCHANGED mode

\* The fairness of FairSpec, for the multimodal service.
Served(A) == mode = "images" /\ A /\ UNCHANGED mode
MCVars    == <<vars, mode>>
MCSpec ==
  /\ MCInit /\ [][MCNext]_MCVars
  /\ \A g \in Group : WF_MCVars(Served(Images!Http(g))) /\ WF_MCVars(Served(Read(g)))
  /\ WF_MCVars(Served(RecvBatch)) /\ WF_MCVars(Served(Deliver))
  /\ WF_MCVars(Served(VisualRecv)) /\ WF_MCVars(Served(Images!VisualTake))
  /\ WF_MCVars(Served(VisualSend))
  /\ WF_MCVars(Served(RouterRecv)) /\ WF_MCVars(Served(DetokRecv))
  /\ \A g \in Group : WF_MCVars(Served(Images!RouterServes(g)))
  /\ WF_MCVars(Served(RouterMerge))

\* The settings of the configuration file alone.
AloneSpec == mode = "text" /\ Init /\ [][Next /\ UNCHANGED mode]_MCVars

\* When all messages have been received nobody keeps state for what is over
\* (NothingLeft); no image is encoded for a request whose abort came first
\* (AbortedNotEncoded), and without a visual server a request whose abort came is
\* not started later and its answers are not decoded any more (AbortSilences).
AbortLeavesNothing ==
  NothingLeft /\ AbortedNotEncoded /\ (mode = "text" => AbortSilences)

\* Every client of the multimodal service that stays gets its answers to the end
\* (EveryAnswerDelivered).
ImagesAnswered == mode = "images" => EveryAnswerDelivered
=============================================================================
