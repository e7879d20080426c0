---------------------------- MODULE MCImageCache ----------------------------
(***************************************************************************)
(* Instances of ImageCache for TLC.  A behaviour starts with the settings  *)
(* of the configuration file (clients leave) or with those of another      *)
(* service, and keeps them.                                                *)
(***************************************************************************)
EXTENDS ImageCache, TLC

Only(f) == [r \in Request |-> f[r]]
Shared == Only(1 :> <<"a", "b">> @@ 2 :> <<"b">> @@ 3 :> <<"c", "a">> @@ 4 :> <<"a", "c">>)
Single == Only(1 :> <<"a">> @@ 2 :> <<"b">> @@ 3 :> <<"c">> @@ 4 :> <<"a">>)
Pairs  == Only(1 :> <<"a", "b">> @@ 2 :> <<"c", "d">> @@ 3 :> <<"e">>)

VARIABLE service

\* Clients stay and share images.
Stay == INSTANCE ImageCache WITH MayLeave <- {}, TooLong <- {}
\* Clients stay, one image a request.
Live == INSTANCE ImageCache WITH MayLeave <- {}, TooLong <- {}, ImagesOf <- Single
\* A prompt is too long, records expire, a client leaves.
Old  == INSTANCE ImageCache WITH
  Request <- {1, 2, 3}, ImagesOf <- [r \in {1, 2, 3} |-> Shared[r]],
  MayLeave <- {1}, Streaming <- {1}, TooLong <- {2}, MayExpire <- TRUE

MCInit == \/ service \in {"leave", "stay", "live"} /\ Init
          \/ service = "old" /\ Old!Init

MCNext == /\ \/ service = "leave" /\ Next
             \/ service = "stay" /\ Stay!Next
             \/ service = "live" /\ Live!Next
             \/ service = "old" /\ Old!Next
          /\ UNCHANGED service

\* The fairness of FairSpec, where every client stays and sends one image.
Served(A) == service = "live" /\ A /\ UNCHANGED service
MCVars    == <<vars, service>>
MCSpec ==
  /\ MCInit /\ [][MCNext]_MCVars
  /\ \A r \in Request :
       /\ WF_MCVars(Served(Live!Http(r)))
       /\ WF_MCVars(Served(Live!Visual(r))) /\ WF_MCVars(Served(Live!Prefill(r)))

\* The settings of the configuration file alone.
AloneSpec ==
  /\ service = "leave" /\ Init /\ [][Next /\ UNCHANGED service]_MCVars
  /\ \A r \in Request :
       /\ WF_MCVars(Http(r) /\ UNCHANGED service)
       /\ WF_MCVars(Visual(r) /\ UNCHANGED service) /\ WF_MCVars(Prefill(r) /\ UNCHANGED service)

\* While no record expires, reference counts are those of the current requests and
\* of the requests that ended before they were sent on, and no record is cleared
\* under a current one, whoever leaves and whenever (RefsAccounted, HeldKept); if all
\* stay there is nothing but the current requests, and a record's shared memory goes
\* with it (RefsAreHolders, ShmAccounted).
ReferencesHold ==
  /\ service # "old" => RefsAccounted /\ HeldKept
  /\ service \in {"stay", "live"} => RefsAreHolders /\ ShmAccounted

\* As long as clients stay, the loops of visual server and router find every
\* record and segment they look for (LoopsRun).
LoopsRunForStayers == service \in {"stay", "live"} => LoopsRun

\* One image a request: each waits for a free record as long as it must and is
\* served (EveryRequestServed).
StayersServed == \A r \in Request : <>(service = "live" => place[r] = "over")
=============================================================================
