----------------------------- MODULE MCSplitFuse -----------------------------
(***************************************************************************)
(* Instances of SplitFuse for TLC.  Behaviours have the settings of the    *)
(* configuration file, always busy, or those of a router that estimates    *)
(* answers short.                                                          *)
(***************************************************************************)
EXTENDS SplitFuse

\* Three requests for a pool that takes two of them to the end; their prompts
\* are three blocks, less than a block, and two and a half.
ThreeReq    == 1..3
ThreeInput  == <<6, 1, 5>>
ThreeMaxNew == <<4, 6, 4>>

\* One request of the greatest length allowed, in blocks of one token.
OneReq    == {1}
OneInput  == <<10>>
OneMaxNew == <<1>>

VARIABLE mode

\* The router is never busy: answers are estimated at two tokens, or a tenth more
\* than they have, and outgrow the pool.
Lazy == INSTANCE SplitFuse WITH BusyFrom <- 100

MCInit == mode \in {"busy", "lazy"} /\ Init

MCNext == /\ \/ mode = "busy" /\ Next
             \/ mode = "lazy" /\ Lazy!Next
          /\ UNCHANGED mode

MCSpec == /\ MCInit /\ [][MCNext]_<<vars, mode>>
          /\ WF_<<vars, mode>>(mode = "busy" /\ Fwd /\ UNCHANGED mode)

\* With the default estimate no request is ever paused (NeverPauses), and every
\* request of the queue is served or was aborted (EveryRequestServed).
BusyServes == mode = "busy" => []NeverPauses /\ EveryRequestServed
=============================================================================
