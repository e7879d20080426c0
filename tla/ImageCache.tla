----------------------------- MODULE ImageCache -----------------------------
(***************************************************************************)
(* The cache of images of multimodal requests: the Cache Manager Server    *)
(* (lightllm/server/embed_cache) keeps a record with a reference count for *)
(* each image, the image and its encoding lie in shared memory.  The HTTP  *)
(* server takes a reference for every image of a request and gives it back *)
(* at the end or at an abort; the visual server encodes images, prefill    *)
(* reads the encodings.  Both work with the record's id that the request   *)
(* carries and check nothing.                                              *)
(*                                                                         *)
(* Between the processes this module keeps what matters here: where each   *)
(* request is, and which abort notices are still under way.  The visual    *)
(* server has one request at a time in work.                               *)
(***************************************************************************)
EXTENDS Integers, FiniteSets, Sequences, SequencesExt

CONSTANTS
  Request, Image,
  ImagesOf,    (* the images of each request, a sequence                      *)
  Capacity,    (* --cache_capacity                                            *)
  Reserved,    (* records to keep when unused ones are cleared                *)
  MayLeave,    (* requests whose client may disconnect                        *)
  Streaming,   (* requests that are cancelled wherever they wait if it does   *)
  TooLong,     (* requests whose prompt turns out to be too long              *)
  MayExpire    (* an hour may pass without a visit of a record                *)

ASSUME ImageCacheAssumption ==
  /\ IsFiniteSet(Request) /\ IsFiniteSet(Image)
  /\ ImagesOf \in [Request -> Seq(Image)]
  /\ Capacity \in Nat \ {0} /\ Reserved \in 0..(Capacity - 1)
  /\ \A r \in Request : Len(ImagesOf[r]) <= Capacity   (* "too many images!" *)
  /\ MayLeave \cup Streaming \subseteq Request /\ TooLong \subseteq Request /\ MayExpire \in BOOLEAN

VARIABLES
  records,    (* the records: a function from their ids                       *)
  next_id,    (* ids are never used twice                                     *)
  now,        (* moments of visits                                            *)
  shm,        (* names of shared memory segments                              *)
  place,      (* how far each request is                                      *)
  uuids,      (* the ids that it carries, one for each image so far           *)
  holds,      (* requests the HTTP server has to give references back for     *)
  turn,       (* the request that occupies the HTTP server's event loop       *)
  notices,    (* aborts under way: <<request, receiver>>                      *)
  todo,       (* ids that are being encoded, and the part that comes next     *)
  failed      (* loops that were ended by an exception                        *)

cacheVars == <<records, next_id, now, shm>>
vars == <<cacheVars, place, uuids, holds, turn, notices, todo, failed>>

Data(id)  == <<id, "data">>
Embed(id) == <<id, "embed">>

Init ==
  /\ records = <<>> /\ next_id = 1 /\ now = 0 /\ shm = {}
  /\ place = [r \in Request |-> "new"] /\ uuids = [r \in Request |-> <<>>]
  /\ holds = {} /\ turn = {} /\ notices = {}
  /\ todo = <<>> /\ failed = {}

-----------------------------------------------------------------------------
(* Records *)

Free(recs, id) == recs[id].ref <= 0 \/ recs[id].old

\* _clear: what is not referenced or has expired, the longest unvisited first.
Cleared ==
  LET free == {id \in DOMAIN records : Free(records, id)}
      most == Max({1, Cardinality(DOMAIN records) - Reserved})
  IN {id \in free : Cardinality({x \in free : records[x].visit < records[id].visit}) < most}

\* Mutant: a record is looked up, but not referenced again.
HitUnreferenced(id) == [records EXCEPT ![id].visit = now, ![id].old = FALSE]
Hit(id) == [records EXCEPT ![id].visit = now, ![id].ref = @ + 1, ![id].old = FALSE]

Unlinked(ids) ==
  {Data(id) : id \in {i \in ids : records[i].data}}
    \cup {Embed(id) : id \in {i \in ids : records[i].embed}}

IdsOf(image) == {id \in DOMAIN records : records[id].md5sum = image}
IsFull == Cardinality(DOMAIN records) >= Capacity

\* alloc, and the HTTP server's writing of the image, for a request's next image;
\* a full cache gives no record.
CanAlloc(image) == IdsOf(image) # {} \/ ~IsFull \/ Cleared # {}

Alloc(image, id) ==
  LET gone == IF IdsOf(image) = {} /\ IsFull THEN Cleared ELSE {}
      new  == [md5sum |-> image, ref |-> 1, data |-> TRUE, embed |-> FALSE,
               visit |-> now, old |-> FALSE]
  IN
  /\ now' = now + 1
  /\ IF IdsOf(image) # {}
     THEN id \in IdsOf(image) /\ records' = Hit(id) /\ UNCHANGED <<next_id, shm>>
     ELSE /\ id = next_id /\ next_id' = next_id + 1
          /\ records' = [i \in (DOMAIN records \ gone) \cup {id} |->
                           IF i = id THEN new ELSE records[i]]
          /\ shm' = (shm \ Unlinked(gone)) \cup {Data(id)}

\* release, for each image of a request, up to the first whose record is gone: its
\* KeyError ends the loop.
Released(r) ==
  LET before == {i \in DOMAIN uuids[r] : \A j \in 1..i : uuids[r][j] \in DOMAIN records} IN
  [id \in DOMAIN records |->
     [records[id] EXCEPT !.ref = @ - Cardinality({i \in before : uuids[r][i] = id})]]

\* The oldest records have not been visited for an hour.
Expire ==
  /\ MayExpire
  /\ \E id \in DOMAIN records :
       /\ ~records[id].old
       /\ \A x \in DOMAIN records : records[x].visit < records[id].visit => records[x].old
       /\ records' = [records EXCEPT ![id].old = TRUE]
  /\ UNCHANGED <<next_id, now, shm, place, uuids, holds, turn, notices, todo, failed>>

-----------------------------------------------------------------------------
(* HTTP server *)

Idle(r) == turn \subseteq {r}

\* The images of a request are taken one by one; the event loop is kept until the
\* last, unless the cache is full: then the request sleeps and tries again.
TakeImage(r) ==
  /\ place[r] \in {"new", "sleeping"} /\ Idle(r)
  /\ LET image == ImagesOf[r][Len(uuids[r]) + 1] IN
     /\ Len(uuids[r]) < Len(ImagesOf[r]) /\ CanAlloc(image)
     /\ \E id \in DOMAIN records \cup {next_id} :
          Alloc(image, id) /\ uuids' = [uuids EXCEPT ![r] = Append(@, id)]
  /\ turn' = {r}
  /\ UNCHANGED <<place, holds, notices, todo, failed>>

Sleep(r) ==
  /\ turn = {r} \/ (place[r] = "new" /\ Idle(r))
  /\ Len(uuids[r]) < Len(ImagesOf[r])
  /\ ~CanAlloc(ImagesOf[r][Len(uuids[r]) + 1])
  /\ place' = [place EXCEPT ![r] = "sleeping"] /\ turn' = {}
  /\ UNCHANGED <<cacheVars, uuids, holds, notices, todo, failed>>

\* Mutant: the references of a request that is sent are not remembered.
SendForget(r) ==
  /\ place[r] \in {"new", "sleeping"} /\ Idle(r) /\ Len(uuids[r]) = Len(ImagesOf[r])
  /\ place' = [place EXCEPT ![r] = IF r \in TooLong THEN "rejected" ELSE "sent"]
  /\ turn' = {}
  /\ UNCHANGED <<cacheVars, uuids, holds, notices, todo, failed>>

\* With all its images, a prompt is found too long or sent to the visual server.
Send(r) ==
  /\ place[r] \in {"new", "sleeping"} /\ Idle(r) /\ Len(uuids[r]) = Len(ImagesOf[r])
  /\ IF r \in TooLong
     THEN place' = [place EXCEPT ![r] = "rejected"] /\ UNCHANGED holds
     ELSE place' = [place EXCEPT ![r] = "sent"] /\ holds' = holds \cup {r}
  /\ turn' = {}
  /\ UNCHANGED <<cacheVars, uuids, notices, todo, failed>>

\* Mutant: an abort gives nothing back.
LeaveHolding(r) ==
  /\ r \in MayLeave /\ turn = {}
  /\ \/ /\ r \in holds
        /\ holds' = holds \ {r} /\ UNCHANGED place
     \/ /\ r \in Streaming /\ place[r] = "sleeping"
        /\ place' = [place EXCEPT ![r] = "cancelled"] /\ UNCHANGED holds
  /\ notices' = notices \cup {<<r, "visual">>, <<r, "router">>}
  /\ UNCHANGED <<cacheVars, uuids, turn, todo, failed>>

\* The client has gone: abort.  It finds the references of a request that was sent
\* on; a request that is cancelled while it sleeps has no entry yet, and nobody gives
\* back what it has taken.
Leave(r) ==
  /\ r \in MayLeave /\ turn = {}
  /\ \/ /\ r \in holds
        /\ records' = Released(r) /\ holds' = holds \ {r} /\ UNCHANGED place
     \/ /\ r \in Streaming /\ place[r] = "sleeping"
        /\ place' = [place EXCEPT ![r] = "cancelled"] /\ UNCHANGED <<records, holds>>
  /\ notices' = notices \cup {<<r, "visual">>, <<r, "router">>}
  /\ UNCHANGED <<next_id, now, shm, uuids, turn, todo, failed>>

\* The last token arrives.
End(r) ==
  /\ place[r] = "running" /\ turn = {}
  /\ place' = [place EXCEPT ![r] = "over"]
  /\ records' = IF r \in holds THEN Released(r) ELSE records
  /\ holds' = holds \ {r}
  /\ UNCHANGED <<next_id, now, shm, uuids, turn, notices, todo, failed>>

-----------------------------------------------------------------------------
(* Visual server *)

Up(loop) == loop \notin failed
Ids(r) == {uuids[r][i] : i \in DOMAIN uuids[r]}

ToRouter(r) ==
  /\ place' = [place EXCEPT ![r] = "router"]
  /\ notices' = notices \ {<<r, "forwarded">>}  (* it arrives before the request *)

\* loop_for_fwd takes a request: get_item_embed for its images.
VisualTake(r) ==
  /\ place[r] = "sent" /\ Up("visual") /\ todo = <<>>
  /\ IF ~(Ids(r) \subseteq DOMAIN records)
     THEN failed' = failed \cup {"visual"} /\ UNCHANGED <<place, notices, todo>>
     ELSE LET missing == {id \in Ids(r) : ~records[id].embed} IN
          /\ UNCHANGED failed
          /\ IF missing = {}
             THEN ToRouter(r) /\ UNCHANGED todo
             ELSE /\ place' = [place EXCEPT ![r] = "encoding"]
                  /\ todo' = SetToSeq(missing) /\ UNCHANGED notices
  /\ UNCHANGED <<cacheVars, uuids, holds, turn>>

\* The encoder reads the images ...
EncodeRead(r) ==
  /\ place[r] = "encoding" /\ Up("visual")
  /\ IF \A i \in DOMAIN todo : Data(todo[i]) \in shm
     THEN place' = [place EXCEPT ![r] = "storing"] /\ UNCHANGED failed
     ELSE failed' = failed \cup {"visual"} /\ UNCHANGED place
  /\ UNCHANGED <<cacheVars, uuids, holds, turn, notices, todo>>

\* ... and stores one encoding after the other: the segment, then the record's flag.
EncodeStore(r) ==
  /\ place[r] = "storing" /\ Up("visual") /\ todo # <<>>
  /\ LET id == todo[1] IN
     IF Embed(id) \notin shm /\ id \in DOMAIN records
     THEN shm' = shm \cup {Embed(id)} /\ UNCHANGED <<records, todo, failed>>
     ELSE IF id \in DOMAIN records
     THEN records' = [records EXCEPT ![id].embed = TRUE] /\ todo' = Tail(todo)
          /\ UNCHANGED <<shm, failed>>
     ELSE failed' = failed \cup {"visual"} /\ UNCHANGED <<shm, records, todo>>
  /\ UNCHANGED <<next_id, now, place, uuids, holds, turn, notices>>

VisualSend(r) ==
  /\ place[r] = "storing" /\ todo = <<>>
  /\ ToRouter(r)
  /\ UNCHANGED <<cacheVars, uuids, holds, turn, todo, failed>>

\* Its other loop handles aborts: a waiting request is dropped.
VisualAbort(r) ==
  /\ <<r, "visual">> \in notices
  /\ notices' = (notices \ {<<r, "visual">>}) \cup {<<r, "forwarded">>}
  /\ place' = IF place[r] = "sent" THEN [place EXCEPT ![r] = "over"] ELSE place
  /\ UNCHANGED <<cacheVars, uuids, holds, turn, todo, failed>>

-----------------------------------------------------------------------------
(* Router *)

\* An abort, from the HTTP or the visual server, ends a request that it finds: not
\* one in a new batch that is about to join the running one.
RouterAbort(r) ==
  \E from \in {"router", "forwarded"} :
    /\ <<r, from>> \in notices
    /\ notices' = notices \ {<<r, from>>}
    /\ \/ UNCHANGED place
       \/ place[r] \in {"router", "running"} /\ place' = [place EXCEPT ![r] = "over"]
    /\ UNCHANGED <<cacheVars, uuids, holds, turn, todo, failed>>

\* Prefill reads the encodings.
Prefill(r) ==
  /\ place[r] = "router" /\ Up("router")
  /\ IF \A id \in Ids(r) : Embed(id) \in shm
     THEN place' = [place EXCEPT ![r] = "running"] /\ UNCHANGED failed
     ELSE failed' = failed \cup {"router"} /\ UNCHANGED place
  /\ UNCHANGED <<cacheVars, uuids, holds, turn, notices, todo>>

-----------------------------------------------------------------------------
Visual(r) == VisualTake(r) \/ EncodeRead(r) \/ EncodeStore(r) \/ VisualSend(r)
Http(r)   == TakeImage(r) \/ Sleep(r) \/ Send(r) \/ End(r)

Next ==
  \/ \E r \in Request : Http(r) \/ Leave(r) \/ Visual(r) \/ VisualAbort(r)
                          \/ RouterAbort(r) \/ Prefill(r)
  \/ Expire

Spec == Init /\ [][Next]_vars

\* Every loop that is up goes on with every request it has.
FairSpec ==
  /\ Spec
  /\ \A r \in Request : WF_vars(Http(r)) /\ WF_vars(Visual(r)) /\ WF_vars(Prefill(r))
                            /\ WF_vars(VisualAbort(r)) /\ WF_vars(RouterAbort(r))

-----------------------------------------------------------------------------
(* Properties *)

TypeOK ==
  /\ \A id \in DOMAIN records : records[id].md5sum \in Image /\ records[id].ref \in Int
  /\ Cardinality(DOMAIN records) <= Capacity
  /\ \A image \in Image : Cardinality(IdsOf(image)) <= 1
  /\ DOMAIN place = Request /\ holds \subseteq Request /\ failed \subseteq {"visual", "router"}

\* Requests whose references are still to be given back: the HTTP server takes
\* images for them or waits for their answer.
Using == holds \cup {r \in Request : place[r] \in {"new", "sleeping"}}
\* Those that ended before they were sent on, with what they had taken.
Dropped == {r \in Request : place[r] \in {"cancelled", "rejected"}}

References(id, requests) ==
  {u \in UNION {{r} \X DOMAIN uuids[r] : r \in requests} : uuids[u[1]][u[2]] = id}

\* A record's reference count is the number of images of current requests that it
\* stands for: no reference is lost, doubled or kept after its request.
RefsAreHolders ==
  \A id \in DOMAIN records : records[id].ref = Cardinality(References(id, Using))

\* The count is exact but for requests that end before they are sent on, whose
\* references stay for good: whoever else ends or leaves, and whenever, gives back
\* each reference it took, once.
RefsAccounted ==
  \A id \in DOMAIN records :
    records[id].ref = Cardinality(References(id, Using \cup Dropped))

\* What a current request refers to is there: only unused records are cleared.
HeldKept ==
  \A r \in Using : \A id \in Ids(r) : id \in DOMAIN records /\ Data(id) \in shm

\* The shared memory in use is that of the records, and of the encoding that is
\* being stored: at most two segments a record.
ShmAccounted ==
  shm \subseteq {Data(id) : id \in DOMAIN records}
               \cup {Embed(id) : id \in {i \in DOMAIN records :
                                      records[i].embed \/ (todo # <<>> /\ i = todo[1])}}

\* No loop of a server ends by looking for a record or a segment that is gone.
LoopsRun == failed = {}

\* A request whose client stays and whose prompt fits gets its images and its answer.
EveryRequestServed ==
  \A r \in Request \ (MayLeave \cup TooLong) : <>(place[r] = "over")
=============================================================================
