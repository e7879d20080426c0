------------------------------ MODULE Pipeline ------------------------------
(***************************************************************************)
(* The path of a request through the processes of the serving system: HTTP *)
(* server, visual server, router, detokenization and back (lightllm/server: *)
(* httpserver, visualserver, detokenization).  Processes exchange messages *)
(* over ZMQ PUSH/PULL sockets: one FIFO for each pair of sender and        *)
(* receiver, nothing lost, no order between two senders.                   *)
(*                                                                         *)
(* The HTTP server is one event loop: a coroutine `generate' for each      *)
(* request and the task handle_loop.  A coroutine gives the control away   *)
(* at event.wait and, when its client reads a stream, at each yield, which *)
(* it does under the lock of its request.                                  *)
(*                                                                         *)
(* The router is reduced to what it tells the others (Router models it):   *)
(* queued requests are taken into a new batch, which is the running batch  *)
(* if there is none and else joins it after its prefill; running ones get  *)
(* a token per step until they end; an abort is dropped while its request  *)
(* is in a new batch that has not joined.                                  *)
(***************************************************************************)
EXTENDS Integers, FiniteSets, Sequences, SequencesExt

CONSTANTS
  Group,       (* requests of clients                                         *)
  BestOf,      (* answers of each                                             *)
  MaxNew,      (* max_new_tokens                                              *)
  Multimodal,  (* requests go through the visual server                       *)
  Streaming,   (* the requests whose clients read a stream                    *)
  InferBatch   (* infer_batch_size of the visual server, one image a request  *)

ASSUME PipelineAssumption ==
  /\ IsFiniteSet(Group) /\ Multimodal \in BOOLEAN /\ Streaming \subseteq Group
  /\ BestOf \in [Group -> Nat \ {0}] /\ MaxNew \in [Group -> Nat \ {0}]
  /\ InferBatch \in Nat \ {0} /\ \A g \in Streaming : BestOf[g] = 1

VARIABLES
  client,          (* "here" or "gone"                                        *)
  received,        (* what the client got of each answer                      *)
  \* HTTP server
  generate,        (* where the coroutine of a request is                     *)
  req_id_to_out_inf,  (* the requests it has an entry for                     *)
  out_token_info_list, event, unfinished_count,
  delivering,      (* what handle_loop has left of the batch it works on      *)
  \* visual server
  waiting_reqs, reqs_need_infer,
  \* router
  known,           (* what it does with a request                             *)
  generated, ended,
  \* detokenization
  req_id_to_out,   (* the answers it has a state for                          *)
  \* messages under way
  http_to_router, http_to_visual, visual_to_router, router_to_detok, detok_to_http

clientVars == <<client, received>>
httpVars   == <<generate, req_id_to_out_inf, out_token_info_list, event,
                unfinished_count, delivering>>
visualVars == <<waiting_reqs, reqs_need_infer>>
routerVars == <<known, generated, ended>>
channels   == <<http_to_router, http_to_visual, visual_to_router,
                router_to_detok, detok_to_http>>
vars == <<clientVars, httpVars, visualVars, routerVars, req_id_to_out, channels>>

SubsOf(g) == {g} \X (1..BestOf[g])
Sub == UNION {SubsOf(g) : g \in Group}

\* Messages to the router and the visual server.
Req(g)   == [kind |-> "req", group |-> g]
Abort(g) == [kind |-> "abort", group |-> g]

Init ==
  /\ client = [g \in Group |-> "here"] /\ received = [s \in Sub |-> <<>>]
  /\ generate = [g \in Group |-> "new"] /\ req_id_to_out_inf = {}
  /\ out_token_info_list = [g \in Group |-> <<>>]
  /\ event = [g \in Group |-> FALSE]
  /\ unfinished_count = BestOf /\ delivering = <<>>
  /\ waiting_reqs = <<>> /\ reqs_need_infer = <<>>
  /\ known = [g \in Group |-> "no"]
  /\ generated = [s \in Sub |-> 0] /\ ended = {}
  /\ req_id_to_out = {}
  /\ http_to_router = <<>> /\ http_to_visual = <<>> /\ visual_to_router = <<>>
  /\ router_to_detok = <<>> /\ detok_to_http = <<>>

-----------------------------------------------------------------------------
(* Clients and the coroutines of the HTTP server *)

Leave(g) ==
  /\ client[g] = "here" /\ generate[g] \in {"wait", "yield"}
  /\ client' = [client EXCEPT ![g] = "gone"]
  /\ UNCHANGED <<received, httpVars, visualVars, routerVars, req_id_to_out, channels>>

\* A request is entered and sent on.
Start(g) ==
  /\ generate[g] = "new"
  /\ generate' = [generate EXCEPT ![g] = "wait"]
  /\ req_id_to_out_inf' = req_id_to_out_inf \cup {g}
  /\ IF Multimodal
     THEN http_to_visual' = Append(http_to_visual, Req(g)) /\ UNCHANGED http_to_router
     ELSE http_to_router' = Append(http_to_router, Req(g)) /\ UNCHANGED http_to_visual
  /\ UNCHANGED <<clientVars, out_token_info_list, event, unfinished_count, delivering,
                 visualVars, routerVars, req_id_to_out, visual_to_router,
                 router_to_detok, detok_to_http>>

\* Mutant: the entry stays.
SendAbortKeep(g) ==
  /\ http_to_router' = Append(http_to_router, Abort(g))
  /\ http_to_visual' = IF Multimodal THEN Append(http_to_visual, Abort(g)) ELSE http_to_visual
  /\ UNCHANGED req_id_to_out_inf

\* abort: both receivers are told, since the request may be at either.
SendAbort(g) ==
  /\ http_to_router' = Append(http_to_router, Abort(g))
  /\ http_to_visual' = IF Multimodal THEN Append(http_to_visual, Abort(g)) ELSE http_to_visual
  /\ req_id_to_out_inf' = req_id_to_out_inf \ {g}

\* generate finds, when it wakes or its wait times out, that its client is gone.
FindGone(g) ==
  /\ generate[g] = "wait" /\ client[g] = "gone"
  /\ SendAbort(g)
  /\ generate' = [generate EXCEPT ![g] = "failed"]
  /\ UNCHANGED <<clientVars, out_token_info_list, event, unfinished_count, delivering,
                 visualVars, routerVars, req_id_to_out, visual_to_router,
                 router_to_detok, detok_to_http>>

\* The elements of seq that are in S, in their order.
Among(seq, S) ==
  LET f[n \in 0..Len(seq)] == IF n = 0 THEN <<>>
                              ELSE IF seq[n] \in S THEN Append(f[n-1], seq[n]) ELSE f[n-1]
  IN f[Len(seq)]

Give(items) ==
  received' = [s \in Sub |->
    received[s] \o LET mine == Among(items, {i \in ToSet(items) : i.sub = s})
                   IN [k \in 1..Len(mine) |-> mine[k].count]]

\* Mutant: the first answer that ends, ends the request.
HandFirst(g, items) ==
  /\ Give(items)
  /\ unfinished_count' = [unfinished_count EXCEPT
       ![g] = IF \E i \in ToSet(items) : i.finish # "no" THEN 0 ELSE @]
  /\ req_id_to_out_inf' = IF unfinished_count'[g] = 0 THEN req_id_to_out_inf \ {g}
                          ELSE req_id_to_out_inf

\* Mutant: one answer is counted for the whole list.
HandOnce(g, items) ==
  /\ Give(items)
  /\ unfinished_count' = [unfinished_count EXCEPT
       ![g] = IF \E i \in ToSet(items) : i.finish # "no" THEN @ - 1 ELSE @]
  /\ req_id_to_out_inf' = IF unfinished_count'[g] = 0 THEN req_id_to_out_inf \ {g}
                          ELSE req_id_to_out_inf

\* The tokens of the list go to the client: all at once if the caller only
\* collects them, else the coroutine is suspended at its first yield.
Hand(g, items) ==
  /\ Give(items)
  /\ unfinished_count' = [unfinished_count EXCEPT
       ![g] = @ - Len(Among(items, {i \in ToSet(items) : i.finish # "no"}))]
  /\ req_id_to_out_inf' = IF unfinished_count'[g] = 0 THEN req_id_to_out_inf \ {g}
                          ELSE req_id_to_out_inf

\* Mutant: only the first token of the list is taken.
WakeForOne(g) ==
  /\ generate[g] = "wait" /\ event[g] /\ client[g] = "here"
  /\ event' = [event EXCEPT ![g] = FALSE]
  /\ Hand(g, SubSeq(out_token_info_list[g], 1, 1))
  /\ out_token_info_list' = [out_token_info_list EXCEPT ![g] = SubSeq(@, 2, Len(@))]
  /\ generate' = [generate EXCEPT ![g] = IF unfinished_count'[g] = 0 THEN "done" ELSE "wait"]
  /\ UNCHANGED <<client, delivering, visualVars, routerVars, req_id_to_out, channels>>

\* generate wakes with its client there, takes the lock and clears the event.
Wake(g) ==
  /\ generate[g] = "wait" /\ event[g] /\ client[g] = "here"
  /\ event' = [event EXCEPT ![g] = FALSE]
  /\ IF g \in Streaming /\ out_token_info_list[g] # <<>>
     THEN /\ generate' = [generate EXCEPT ![g] = "yield"]
          /\ UNCHANGED <<received, req_id_to_out_inf, unfinished_count, out_token_info_list>>
     ELSE /\ Hand(g, out_token_info_list[g])
          /\ out_token_info_list' = [out_token_info_list EXCEPT ![g] = <<>>]
          /\ generate' = [generate EXCEPT
                            ![g] = IF unfinished_count'[g] = 0 THEN "done" ELSE "wait"]
  /\ UNCHANGED <<client, delivering, visualVars, routerVars, req_id_to_out, channels>>

\* A streaming client takes the token that is yielded; after the last one of the
\* list the lock is given back, after the last of the request the stream ends.
Read(g) ==
  /\ generate[g] = "yield" /\ client[g] = "here"
  /\ LET items == out_token_info_list[g] IN
     /\ Hand(g, <<items[1]>>)
     /\ out_token_info_list' = [out_token_info_list EXCEPT ![g] = Tail(items)]
     /\ generate' = [generate EXCEPT ![g] = IF unfinished_count'[g] = 0 THEN "ending"
                                            ELSE IF Len(items) = 1 THEN "wait" ELSE "yield"]
  /\ UNCHANGED <<client, event, delivering, visualVars, routerVars, req_id_to_out, channels>>

\* The streaming response of a client that left is cancelled wherever it is.
Cancel(g) ==
  /\ g \in Streaming /\ generate[g] \in {"wait", "yield"} /\ client[g] = "gone"
  /\ generate' = [generate EXCEPT ![g] = "cancelled"]
  /\ UNCHANGED <<clientVars, req_id_to_out_inf, out_token_info_list, event,
                 unfinished_count, delivering, visualVars, routerVars, req_id_to_out,
                 channels>>

\* The background task of a streaming response, after its end too.
BackgroundAbort(g) ==
  /\ generate[g] \in {"ending", "cancelled"}
  /\ SendAbort(g)
  /\ generate' = [generate EXCEPT ![g] = IF generate[g] = "ending" THEN "done" ELSE "failed"]
  /\ UNCHANGED <<clientVars, out_token_info_list, event, unfinished_count, delivering,
                 visualVars, routerVars, req_id_to_out, visual_to_router,
                 router_to_detok, detok_to_http>>

\* handle_loop takes the next batch, and puts each of its tokens into the list of
\* its request, under the request's lock; an abort notice removes the entry.
RecvBatch ==
  /\ delivering = <<>> /\ detok_to_http # <<>>
  /\ delivering' = detok_to_http[1] /\ detok_to_http' = Tail(detok_to_http)
  /\ UNCHANGED <<clientVars, generate, req_id_to_out_inf, out_token_info_list, event,
                 unfinished_count, visualVars, routerVars, req_id_to_out,
                 http_to_router, http_to_visual, visual_to_router, router_to_detok>>

Without(batch, s) == [t \in DOMAIN batch \ {s} |-> batch[t]]

\* generate does not hold the lock of the request.
HasLock(g) == generate[g] # "yield"

Deliver ==
  \E s \in DOMAIN delivering :
    LET g == s[1]
        item == [sub |-> s, count |-> delivering[s].count, finish |-> delivering[s].finish]
    IN
    /\ IF item.finish = "aborted"
       THEN /\ req_id_to_out_inf' = req_id_to_out_inf \ {g}
            /\ UNCHANGED <<out_token_info_list, event>>
       ELSE /\ UNCHANGED req_id_to_out_inf
            /\ IF g \in req_id_to_out_inf
               THEN /\ HasLock(g)
                    /\ out_token_info_list' = [out_token_info_list EXCEPT ![g] = Append(@, item)]
                    /\ event' = [event EXCEPT ![g] = TRUE]
               ELSE UNCHANGED <<out_token_info_list, event>>
    /\ delivering' = Without(delivering, s)
    /\ UNCHANGED <<clientVars, generate, unfinished_count, visualVars, routerVars,
                   req_id_to_out, channels>>

-----------------------------------------------------------------------------
(* Visual server *)

\* loop_for_netio_req: an abort is sent on, and filters the waiting requests.
VisualRecv ==
  /\ http_to_visual # <<>>
  /\ http_to_visual' = Tail(http_to_visual)
  /\ LET m == http_to_visual[1] IN
     IF m.kind = "req"
     THEN /\ waiting_reqs' = Append(waiting_reqs, m.group)
          /\ UNCHANGED visual_to_router
     ELSE /\ visual_to_router' = Append(visual_to_router, m)
          /\ waiting_reqs' = Among(waiting_reqs, Group \ {m.group})
  /\ UNCHANGED <<clientVars, httpVars, reqs_need_infer, routerVars, req_id_to_out,
                 http_to_router, router_to_detok, detok_to_http>>

\* loop_for_fwd takes requests until it has InferBatch images to encode.  Those
\* met before the first such image are sent on at once; the others after the
\* encoding, which the loop awaits.
VisualTake ==
  /\ reqs_need_infer = <<>> /\ waiting_reqs # <<>>
  /\ \E cached \in SUBSET Group, n \in 1..Len(waiting_reqs) :
     LET new  == {i \in 1..n : waiting_reqs[i] \notin cached}
         sent == {i \in 1..n : \A j \in new : i < j}
     IN
     /\ Cardinality(new) <= InferBatch
     /\ Cardinality(new) < InferBatch => n = Len(waiting_reqs)
     /\ Cardinality(new) = InferBatch => n \in new
     /\ visual_to_router' = visual_to_router \o
                              [i \in 1..Cardinality(sent) |-> Req(waiting_reqs[i])]
     /\ reqs_need_infer' = SubSeq(waiting_reqs, Cardinality(sent) + 1, n)
     /\ waiting_reqs' = SubSeq(waiting_reqs, n + 1, Len(waiting_reqs))
  /\ UNCHANGED <<clientVars, httpVars, routerVars, req_id_to_out, http_to_router,
                 http_to_visual, router_to_detok, detok_to_http>>

VisualSend ==
  /\ reqs_need_infer # <<>>
  /\ visual_to_router' = visual_to_router \o
                           [i \in 1..Len(reqs_need_infer) |-> Req(reqs_need_infer[i])]
  /\ reqs_need_infer' = <<>>
  /\ UNCHANGED <<clientVars, httpVars, waiting_reqs, routerVars, req_id_to_out,
                 http_to_router, http_to_visual, router_to_detok, detok_to_http>>

-----------------------------------------------------------------------------
(* Router *)

\* Mutant: an abort finds only what runs.
HandleRunning(m) ==
  /\ known' = [known EXCEPT ![m.group] =
       CASE m.kind = "req" -> "queued"
         [] m.kind = "abort" /\ @ = "running" -> "aborted"
         [] OTHER -> @]
  /\ router_to_detok' = Append(router_to_detok, m)
  /\ UNCHANGED <<clientVars, httpVars, visualVars, generated, ended, req_id_to_out,
                 http_to_visual, detok_to_http>>

\* A request and an abort are sent on to detokenization.  The abort finds a request
\* that is queued or in the running batch; it does not look into the new batch
\* that is about to join the running one.
Handle(m) ==
  /\ known' = [known EXCEPT ![m.group] =
       CASE m.kind = "req" -> "queued"
         [] m.kind = "abort" /\ @ = "running" -> "aborted"
         [] m.kind = "abort" /\ @ = "queued"  -> "over"
         [] OTHER -> @]
  /\ router_to_detok' = Append(router_to_detok, m)
  /\ UNCHANGED <<clientVars, httpVars, visualVars, generated, ended, req_id_to_out,
                 http_to_visual, detok_to_http>>

RouterRecv ==
  \/ /\ http_to_router # <<>>
     /\ http_to_router' = Tail(http_to_router)
     /\ Handle(http_to_router[1]) /\ UNCHANGED visual_to_router
  \/ /\ visual_to_router # <<>>
     /\ visual_to_router' = Tail(visual_to_router)
     /\ Handle(visual_to_router[1]) /\ UNCHANGED http_to_router

Joining == {g \in Group : known[g] = "joining"}
Running == {g \in Group : known[g] \in {"running", "aborted"}}

\* A new batch is taken from the queue.
RouterTake(batch) ==
  /\ Joining = {} /\ batch # {}
  /\ known' = [g \in Group |-> IF g \notin batch THEN known[g]
                               ELSE IF Running = {} THEN "running" ELSE "joining"]
  /\ UNCHANGED <<clientVars, httpVars, visualVars, generated, ended, req_id_to_out, channels>>

\* A forward for some requests: a token for each answer that has not ended.
Unended(batch) == {s \in Sub : s[1] \in batch /\ s \notin ended}
Outcomes(batch, last) ==
  [s \in Unended(batch) |->
     [count  |-> generated[s] + 1,
      finish |-> IF s \notin last THEN "no"
                 ELSE IF known[s[1]] = "aborted" THEN "aborted" ELSE "finished"]]

Forward(batch, last) ==
  /\ Unended(batch) # {}
  /\ \A s \in Unended(batch) :
       known[s[1]] = "aborted" \/ generated[s] + 1 >= MaxNew[s[1]] => s \in last
  /\ generated' = [s \in Sub |-> IF s \in Unended(batch) THEN generated[s] + 1
                                 ELSE generated[s]]
  /\ ended' = ended \cup last
  /\ known' = [g \in Group |->
       IF g \in batch /\ SubsOf(g) \subseteq ended' THEN "over" ELSE known[g]]
  /\ router_to_detok' = Append(router_to_detok,
                               [kind |-> "tokens", batch |-> Outcomes(batch, last)])
  /\ UNCHANGED <<clientVars, httpVars, visualVars, req_id_to_out, http_to_router,
                 http_to_visual, visual_to_router, detok_to_http>>

\* The prefill of a new batch that is to join, or a step of the running batch, of
\* which a split-fuse step may leave requests out.
RouterForward ==
  \E batch \in SUBSET Group :
    /\ \/ batch = Joining /\ \A s \in Sub : s[1] \in batch => generated[s] = 0
       \/ Joining = {} /\ batch \subseteq Running
    /\ \E last \in SUBSET Unended(batch) : Forward(batch, last)

\* The new batch joins the running batch, in split-fuse mode before any forward.
RouterMerge ==
  /\ Joining # {}
  /\ known' = [g \in Group |-> IF g \in Joining THEN "running" ELSE known[g]]
  /\ UNCHANGED <<clientVars, httpVars, visualVars, generated, ended, req_id_to_out, channels>>

RouterStep ==
  \/ \E batch \in SUBSET {g \in Group : known[g] = "queued"} : RouterTake(batch)
  \/ RouterForward
  \/ RouterMerge

-----------------------------------------------------------------------------
(* Detokenization *)

\* Mutant: the state of an answer is kept until its request ends.
ForgetLate(batch) == {s \in DOMAIN batch : \A t \in SubsOf(s[1]) : t \in DOMAIN batch
                                              /\ batch[t].finish # "no"}
Forget(batch) == {s \in DOMAIN batch : batch[s].finish # "no"}

\* A request gets a state for each answer, an abort takes them away; tokens of
\* answers with a state are decoded and sent, the state goes with the last one.
\* (A batch that comes out empty is sent as well; the HTTP server ignores it.)
DetokRecv ==
  /\ router_to_detok # <<>>
  /\ router_to_detok' = Tail(router_to_detok)
  /\ LET m == router_to_detok[1] IN
     IF m.kind # "tokens"
     THEN /\ req_id_to_out' = IF m.kind = "req" THEN req_id_to_out \cup SubsOf(m.group)
                              ELSE req_id_to_out \ SubsOf(m.group)
          /\ UNCHANGED detok_to_http
     ELSE LET out == [s \in DOMAIN m.batch \cap req_id_to_out |-> m.batch[s]] IN
          /\ req_id_to_out' = req_id_to_out \ Forget(out)
          /\ detok_to_http' = IF DOMAIN out = {} THEN detok_to_http
                              ELSE Append(detok_to_http, out)
  /\ UNCHANGED <<clientVars, httpVars, visualVars, routerVars, http_to_router,
                 http_to_visual, visual_to_router>>

-----------------------------------------------------------------------------
Http(g) == Start(g) \/ FindGone(g) \/ Wake(g) \/ Cancel(g) \/ BackgroundAbort(g)
Visual  == VisualRecv \/ VisualTake \/ VisualSend

\* The router takes g from its queue, or has a token generated for it.
RouterServes(g) ==
  \/ known[g] = "queued" /\ RouterStep /\ known'[g] # known[g]
  \/ RouterForward /\ \E s \in SubsOf(g) : generated'[s] # generated[s]

Next ==
  \/ \E g \in Group : Leave(g) \/ Read(g) \/ Http(g)
  \/ RecvBatch \/ Deliver
  \/ Visual
  \/ RouterRecv \/ RouterStep
  \/ DetokRecv

Spec == Init /\ [][Next]_vars

\* Every process goes on: event loops resume what can run, the router serves
\* every request it knows: new batches are taken, join and are stepped.  A client
\* reads its stream or leaves.
FairSpec ==
  /\ Spec
  /\ \A g \in Group : WF_vars(Http(g)) /\ WF_vars(Read(g))
  /\ WF_vars(RecvBatch) /\ WF_vars(Deliver)
  /\ WF_vars(VisualRecv) /\ WF_vars(VisualTake) /\ WF_vars(VisualSend)
  /\ WF_vars(RouterRecv) /\ WF_vars(DetokRecv)
  /\ \A g \in Group : WF_vars(RouterServes(g))
  /\ WF_vars(RouterMerge)

-----------------------------------------------------------------------------
(* Properties *)

Places == {"new", "wait", "yield", "ending", "cancelled", "done", "failed"}
TypeOK ==
  /\ generate \in [Group -> Places] /\ client \in [Group -> {"here", "gone"}]
  /\ req_id_to_out_inf \subseteq Group /\ req_id_to_out \subseteq Sub
  /\ unfinished_count \in [Group -> Nat]
  /\ DOMAIN delivering \subseteq Sub
  /\ \A g \in Group : generate[g] = "yield" => out_token_info_list[g] # <<>>

\* The HTTP server has an entry for a request exactly while its coroutine waits for
\* tokens: a coroutine whose entry was removed would wait for ever, an entry that
\* is left behind is never removed.
EntriesMatch ==
  req_id_to_out_inf = {g \in Group : generate[g] \in {"wait", "yield", "cancelled"}}

\* A coroutine that waits while its list has tokens will be woken: event.clear and
\* event.set happen under the lock that also guards the list.
NoLostWakeup ==
  \A g \in Group :
    generate[g] = "wait" /\ out_token_info_list[g] # <<>> /\ client[g] = "here" => event[g]

\* The request is somewhere before the router, or the router still works for it.
OnItsWay(g) ==
  \/ \E ch \in {http_to_router, http_to_visual, visual_to_router} : Req(g) \in ToSet(ch)
  \/ g \in ToSet(waiting_reqs) \cup ToSet(reqs_need_infer)
AbortOnItsWay(g) ==
  \E ch \in {http_to_router, http_to_visual, visual_to_router} : Abort(g) \in ToSet(ch)

\* Once a client has left, its request was aborted and the abort has been handled
\* by everyone, nobody works for the request any more ("Abort the request if the
\* client disconnects", api_server.py).  The code does not do that.
DisconnectStops ==
  \A g \in Group :
    generate[g] = "failed" /\ ~AbortOnItsWay(g) =>
       ~OnItsWay(g) /\ known[g] \notin {"queued", "joining", "running"}

\* What an abort does achieve without a visual server, even one that the router
\* drops: once the router has seen it the request is not on its way, nor queued to
\* be started later, and once detokenization has seen it nothing of its answers is
\* decoded or sent, though the router may go on to generate them.
AbortSilences ==
  \A g \in Group :
    generate[g] = "failed" /\ ~AbortOnItsWay(g) =>
       /\ ~OnItsWay(g) /\ known[g] # "queued"
       /\ Abort(g) \notin ToSet(router_to_detok) => SubsOf(g) \cap req_id_to_out = {}

\* The visual server encodes no image for a request whose abort it has seen,
\* unless it had taken it before.
AbortedNotEncoded ==
  \A g \in Group :
    generate[g] = "failed" /\ Abort(g) \notin ToSet(http_to_visual) =>
       g \notin ToSet(waiting_reqs) /\ Req(g) \notin ToSet(http_to_visual)

\* No message is under way.
Quiet == /\ \A ch \in {http_to_router, http_to_visual, visual_to_router, router_to_detok,
                       detok_to_http} : ch = <<>>
         /\ delivering = <<>>
\* When all messages have been received, detokenization keeps state only for
\* answers that the router still works for.
NothingLeft ==
  Quiet => \A s \in req_id_to_out :
             known[s[1]] \in {"queued", "joining", "running"} /\ s \notin ended

\* A client that stays gets its answers to the end.
EveryAnswerDelivered ==
  \A g \in Group : []<>(generate[g] = "done" \/ client[g] = "gone")

\* Through all these processes, lists and locks, answers arrive complete and in order.
Stream == INSTANCE AnswerStream WITH
  GroupOf  <- [s \in Sub |-> s[1]],
  received <- [s \in Sub |-> IF received[s] = [i \in 1..Len(received[s]) |-> i]
                             THEN Len(received[s]) ELSE -1],
  phase    <- [g \in Group |->
                 IF generate[g] \in {"ending", "done"} THEN "complete"
                 ELSE IF generate[g] \in {"cancelled", "failed"} THEN "given up" ELSE "open"]
AnswersInOrder == Stream!Spec
=============================================================================
