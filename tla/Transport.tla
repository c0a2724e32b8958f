------------------------------- MODULE Transport -------------------------------
(* The request handlers for queues, messages and claims: the WSGI resources of *)
(* API v1.0, v1.1 and v2 (transport/wsgi/v*/) and the websocket endpoints      *)
(* (api/v2/endpoints.py), for one queue, over the pipeline of the storage      *)
(* driver (storage/pipeline.py, common/pipeline.py) and the controllers of     *)
(* MongoDB.  Every call of a controller is a step; clients reach different     *)
(* API processes, each with its own cache.  What a controller does between     *)
(* two queries of its own is modelled in MongoClaims and MongoFifo.            *)
EXTENDS Validation

CONSTANTS
    Clients,      \* clients with a request at a time, each at its own process
    Msgs,         \* message ids
    New, Gone,    \* a message not posted yet, a message removed
    DefaultTtl,   \* default_message_ttl
    PopLimit      \* the pop_limit of a purge: 100 in the code

\* A stored message has a ttl and the claim that took it last, which may have
\* expired.
Message == [ttl : 0..(MaxTtl + 1), claim : Clients \cup {None}, live : BOOLEAN]

ASSUME TransportAssumption ==
    /\ DefaultTtl \in MinTtl..MaxTtl
    /\ PopLimit \in Nat \ {0}
    /\ None \notin Clients \cup Meta
    /\ New # Gone /\ {New, Gone} \cap Message = {}

VARIABLES
    queue,    \* the metadata of the queue's document, or None
    seen,     \* whether the process of a client caches that the queue exists
    box,      \* a message: not posted yet, stored with a ttl and a claim, or gone
    call,     \* the request of each client
    lost      \* whether a lazy POST was told that the queue does not exist

vars == <<queue, seen, box, call, lost>>

Batch == UNION {[S -> 0..(MaxTtl + 1)] : S \in SUBSET Msgs}
NoBatch == [m \in {} |-> 0]

\* A request: whose handler runs, what it does next, the batch it posts, the
\* metadata it writes, the messages it must purge and, of a POST that creates
\* the queue, whether no queue was deleted since it began.
Call == [op : {"idle", "http", "ws"},
         pc : {"idle", "exists", "create", "meta", "lazy", "check", "count", "insert",
               "set", "pop", "subs", "drop", "first"},
         batch : Batch, meta : Meta, doomed : SUBSET Msgs, calm : BOOLEAN]
Idle == [op |-> "idle", pc |-> "idle", batch |-> NoBatch, meta |-> Blank,
         doomed |-> {}, calm |-> FALSE]

TypeOK ==
    /\ queue \in Meta \cup {None}
    /\ seen \in [Clients -> BOOLEAN]
    /\ box \in [Msgs -> Message \cup {New, Gone}]
    /\ call \in [Clients -> Call]
    /\ lost \in BOOLEAN

Init ==
    /\ queue = None
    /\ seen = [c \in Clients |-> FALSE]
    /\ box = [m \in Msgs |-> New]
    /\ call = [c \in Clients |-> Idle]
    /\ lost = FALSE

Stored == {m \in Msgs : box[m] \notin {New, Gone}}
Free == {m \in Stored : ~box[m].live}
Held(c) == {m \in Stored : box[m].claim = c /\ box[m].live}

Go(c, pc) == call' = [call EXCEPT ![c].pc = pc]

\* The reply, with its status, ends the request.  Of the replies the state keeps
\* only what LazyPosts is about.
Reply(c, status) ==
    /\ call' = [call EXCEPT ![c] = Idle]
    /\ lost' = (lost \/ (status = 404 /\ call[c].calm))

\* A request of an idle client that a handler answers in one step.
Answer(c, status) == call[c] = Idle /\ Reply(c, status)
Nothing == UNCHANGED <<queue, seen, box>>

\* What a handler answers when the storage raises: the WSGI resources send 503,
\* the websocket endpoints 500 (on_exception_sends_500).
Failure(op) == IF op = "ws" THEN 500 ELSE 503
--------------------------------------------------------------------------------
(* The storage controllers.                                                     *)

\* queue_controller.create: an insert that leaves an existing document alone.
_create(meta) == queue' = IF queue = None THEN meta ELSE queue

\* queue_controller.exists, cached by the process when TRUE.
_exists(c) == seen[c] \/ queue # None
Remember(c) == seen' = [seen EXCEPT ![c] = _exists(c)]

Removed(S) == box' = [m \in Msgs |-> IF m \in S THEN Gone ELSE box[m]]

\* message_controller.delete: without a claim the message must not be claimed;
\* with one, the message must carry it, expired or not.
DeleteStatus(m, claim) ==
    IF m \notin Stored THEN 204
    ELSE IF claim = None THEN (IF box[m].live THEN 403 ELSE 204)
    ELSE IF box[m].claim = claim THEN 204
    ELSE IF box[m].live THEN 403
    ELSE 400

\* message_controller.post: the queue must exist, its counter is advanced,
\* which needs the document itself, and the messages are inserted.
PostCheck(c) ==
    /\ call[c].pc = "check"
    /\ Remember(c)
    /\ IF _exists(c) THEN Go(c, "count") /\ UNCHANGED lost ELSE Reply(c, 404)
    /\ UNCHANGED <<queue, box>>

\* The counter is in the queue's document: it cannot be read or advanced without.
_get_counter == queue # None
_inc_counter == queue # None

PostCount(c) ==
    /\ call[c].pc = "count"
    /\ IF _get_counter /\ _inc_counter THEN Go(c, "insert") /\ UNCHANGED lost ELSE Reply(c, 404)
    /\ Nothing

PostInsert(c) ==
    /\ call[c].pc = "insert"
    /\ box' = [m \in Msgs |-> IF m \in DOMAIN call[c].batch
                              THEN [ttl |-> call[c].batch[m], claim |-> None, live |-> FALSE]
                              ELSE box[m]]
    /\ Reply(c, 201)
    /\ UNCHANGED <<queue, seen>>
--------------------------------------------------------------------------------
(* Posting messages.                                                            *)

\* The ids that no message has and no request is about to use.
Fresh == {m \in Msgs : box[m] = New /\ \A c \in Clients : m \notin DOMAIN call[c].batch}

\* The batches a client may send, each message with a ttl or without one.
Requests == UNION {[S -> 0..(MaxTtl + 1) \cup {None}] : S \in SUBSET Fresh}
\* The length of a request, in messages.
Length(batch) == Cardinality(DOMAIN batch)

\* The body of the request passes the size limit, the specification with its
\* default ttl and the limits on the messages, and the handler goes on to pc;
\* or it is refused, as the empty batch always is.
Validated(c, op, size, default, pc, calm) ==
    \/ \E batch \in {sanitize(given, default) : given \in Requests} :
        /\ message_posting(batch)
        /\ message_length(Length(batch), size)
        /\ call' = [call EXCEPT ![c] = [Idle EXCEPT !.op = op, !.pc = pc, !.batch = batch,
                                                   !.calm = calm]]
        /\ UNCHANGED lost
    \/ Reply(c, 400)

\* v1.0: the ttl is required, the queue is never created.
PostV10(c) == call[c] = Idle /\ Validated(c, "http", 0, None, "check", FALSE) /\ Nothing

\* v1.1: validated first, then the queue is created if it does not exist.
PostV11(c) == call[c] = Idle /\ Validated(c, "http", 0, DefaultTtl, "exists", FALSE) /\ Nothing

PostV11Exists(c) ==
    /\ call[c].pc = "exists"
    /\ Remember(c)
    /\ Go(c, IF _exists(c) THEN "check" ELSE "create")
    /\ UNCHANGED <<queue, box, lost>>

PostV11Create(c) ==
    /\ call[c].pc = "create"
    /\ _create(Blank)
    /\ Go(c, "check")
    /\ UNCHANGED <<seen, box, lost>>

\* v2 and websocket: the queue's metadata is read first and a missing queue is
\* created, then the request is validated against the metadata.
PostV2(c) ==
    /\ call[c] = Idle
    /\ call' = [call EXCEPT ![c] = [Idle EXCEPT !.op = "http", !.pc = "meta", !.calm = TRUE]]
    /\ UNCHANGED lost /\ Nothing

message_post(c) ==
    /\ call[c] = Idle
    /\ \/ /\ call' = [call EXCEPT ![c] = [Idle EXCEPT !.op = "ws", !.pc = "meta", !.calm = TRUE]]
          /\ UNCHANGED lost
       \/ Reply(c, 400)
    /\ Nothing

DefaultOf(meta) == IF meta.ttl # 0 THEN meta.ttl ELSE DefaultTtl

PostMetaCached(c) ==
    /\ call[c].pc = "meta"
    /\ IF ~_exists(c) THEN Go(c, "lazy") /\ UNCHANGED lost
       ELSE Validated(c, call[c].op, 0, DefaultTtl, "check", call[c].calm)
    /\ Nothing

PostMeta(c) ==
    /\ call[c].pc = "meta"
    /\ IF queue = None THEN Go(c, "lazy") /\ UNCHANGED lost
       ELSE Validated(c, call[c].op, queue.size, DefaultOf(queue), "check", call[c].calm)
    /\ Nothing

PostLazy(c) ==
    /\ call[c].pc = "lazy"
    /\ _create(Blank)
    /\ Validated(c, call[c].op, 0, DefaultTtl, "check", call[c].calm)
    /\ UNCHANGED <<seen, box>>

\* A controller raises while a posting request is under way; of the handlers
\* only v2's lets an error of get_metadata and create through (500).
PostFails(c) ==
    /\ call[c].pc \in {"exists", "create", "meta", "lazy", "check", "count", "insert"}
    /\ Reply(c, IF call[c].op = "http" /\ call[c].pc \in {"meta", "lazy"} THEN 500
                ELSE Failure(call[c].op))
    /\ Nothing
--------------------------------------------------------------------------------
(* Queues.                                                                      *)

Put(c, meta) ==
    /\ Answer(c, IF queue = None THEN 201 ELSE 204)
    /\ _create(meta)
    /\ UNCHANGED <<seen, box>>

\* The metadata of the request, if it has a body, is validated before the queue
\* is created.
Accepted == {IF length \in {0, None} THEN Blank ELSE meta :
                length \in {n \in 0..(MaxMetadata + 1) \cup {None} : queue_metadata_length(n)},
                meta \in {x \in Meta : queue_metadata_putting(x)}}

PutValidated(c) ==
    \/ \E meta \in Accepted : Put(c, meta)
    \/ Answer(c, 400) /\ Nothing

PutQueueV10(c) == Put(c, Blank)
PutQueueV11(c) == PutValidated(c)
PutQueueV2(c) == PutValidated(c)
queue_create(c) == PutValidated(c)

HeadQueueV10(c) ==
    /\ Answer(c, IF _exists(c) THEN 204 ELSE 404)
    /\ Remember(c)
    /\ UNCHANGED <<queue, box>>

\* Mongo's _get answers {} for a queue that does not exist.
GetQueueV11(c) == Answer(c, 200) /\ Nothing
GetQueueV2(c) == Answer(c, 200) /\ Nothing
queue_get(c) == Answer(c, 200) /\ Nothing
GetMetadataV10(c) == Answer(c, IF queue = None THEN 404 ELSE 200) /\ Nothing

\* The listing of the project's queues, here of one queue at most.
ListQueues(c, empty, failure) ==
    /\ \E status \in {failure} \cup
            {IF ~queue_listing(limit) THEN 400 ELSE IF queue = None THEN empty ELSE 200 :
                limit \in 0..(MaxPage + 1) \cup {None}} :
        Answer(c, status)
    /\ Nothing

ListQueuesV10(c) == ListQueues(c, 204, 503)
ListQueuesV11(c) == ListQueues(c, 200, 503)
ListQueuesV2(c) == ListQueues(c, 200, 503)
queue_list(c) == ListQueues(c, 200, 500)

\* DELETE walks the pipeline: the message stage purges the queue's messages,
\* then the controller removes the document and the cache entry.
_purge_queue == Removed(Stored)

Delete(c, op) ==
    /\ call[c] = Idle
    /\ _purge_queue
    /\ call' = [call EXCEPT ![c] = [Idle EXCEPT !.op = op, !.pc = "drop"]]
    /\ UNCHANGED <<queue, seen, lost>>

DeleteQueueV10(c) == Delete(c, "http")
DeleteQueueV11(c) == Delete(c, "http")
DeleteQueueV2(c) == Delete(c, "http")
queue_delete(c) == Delete(c, "ws")

Drop(c) ==
    /\ call[c].pc = "drop"
    /\ queue' = None
    /\ seen' = [seen EXCEPT ![c] = FALSE]
    /\ call' = [d \in Clients |-> IF d = c THEN Idle ELSE [call[d] EXCEPT !.calm = FALSE]]
    /\ UNCHANGED <<box, lost>>

\* v1.0's PUT metadata refuses reserved attributes and replaces all there were.
PutMetadataV10(c) ==
    /\ \/ /\ Answer(c, IF queue = None THEN 404 ELSE 204)
          /\ queue' = IF queue = None THEN None ELSE Blank
       \/ Answer(c, 400) /\ UNCHANGED queue
    /\ UNCHANGED <<seen, box>>

\* The operations of a JSON patch on the metadata; the reserved attributes can
\* be replaced and removed when they are absent, the user's cannot (409).
_do_replace(meta, change) ==
    IF change.path = "user" THEN meta ELSE [meta EXCEPT ![change.path] = change.value]
_do_add(meta, change) ==
    IF change.path = "user" THEN meta ELSE [meta EXCEPT ![change.path] = change.value]
_do_remove(meta, change) ==
    IF change.path = "user" THEN meta ELSE [meta EXCEPT ![change.path] = 0]
MayConflict(change) == change.op # "add" /\ change.path = "user"

Patched(meta, change) ==
    CASE change.op = "replace" -> _do_replace(meta, change)
      [] change.op = "add" -> _do_add(meta, change)
      [] change.op = "remove" -> _do_remove(meta, change)

\* The changes that pass validation.
Washed == {change \in Changes : queue_patching({change})}

\* PATCH reads the metadata, applies the change to what it read and validates
\* the result; the write is a later step.
PatchQueueV2Unchecked(c) ==
    /\ queue # None /\ call[c] = Idle
    /\ \E meta \in {Patched(queue, change) : change \in Washed} :
            call' = [call EXCEPT ![c] = [Idle EXCEPT !.op = "http", !.pc = "set", !.meta = meta]]
    /\ UNCHANGED lost
    /\ Nothing

PatchQueueV2(c) ==
    /\ \/ \E status \in {400, 415} : Answer(c, status)
       \/ queue = None /\ Answer(c, 404)
       \/ /\ queue # None /\ call[c] = Idle
          /\ \E meta \in {Patched(queue, change) : change \in Washed} :
                /\ queue_metadata_putting(meta)
                /\ call' = [call EXCEPT ![c] = [Idle EXCEPT !.op = "http", !.pc = "set", !.meta = meta]]
          /\ UNCHANGED lost
       \/ queue # None /\ {change \in Washed : MayConflict(change)} # {} /\ Answer(c, 409)
    /\ Nothing

\* set_metadata updates the document if there is one.
set_metadata(c) ==
    /\ call[c].pc = "set"
    /\ queue' = IF queue = None THEN None ELSE call[c].meta
    /\ Reply(c, IF queue = None THEN 404 ELSE 200)
    /\ UNCHANGED <<seen, box>>

\* The statistics first ask, through the cache, whether the queue exists, count
\* the messages and then read the oldest and the newest.  The WSGI resources
\* need both when the count was not 0 (KeyError otherwise).
Stats(c, op, missing) ==
    /\ call[c] = Idle
    /\ Remember(c)
    /\ IF ~_exists(c) THEN Reply(c, missing)
       ELSE IF Stored = {} THEN Reply(c, 200)
       ELSE call' = [call EXCEPT ![c] = [Idle EXCEPT !.op = op, !.pc = "first"]] /\ UNCHANGED lost
    /\ UNCHANGED <<queue, box>>

StatsV10(c) == Stats(c, "http", 404)
StatsV11(c) == Stats(c, "http", 200)
StatsV2(c) == Stats(c, "http", 200)
queue_get_stats(c) == Stats(c, "ws", 404)

StatsFirst(c) ==
    /\ call[c].pc = "first"
    /\ Reply(c, IF Stored = {} /\ call[c].op # "ws" THEN 503 ELSE 200)
    /\ Nothing

\* A purge pops messages until a pop returns none, then removes subscriptions.
Purge(c, op, types) ==
    /\ call[c] = Idle
    /\ call' = [call EXCEPT ![c] =
                  IF "messages" \in types
                  THEN [Idle EXCEPT !.op = op, !.pc = "pop", !.doomed = Free]
                  ELSE [Idle EXCEPT !.op = op, !.pc = "subs"]]
    /\ UNCHANGED lost

PurgeQueueV2(c) ==
    \E types \in SUBSET {"messages", "subscriptions", "other"} \cup {None} :
        /\ IF queue_purging(types) THEN Purge(c, "http", types) ELSE Answer(c, 400)
        /\ Nothing

queue_purge(c) ==
    \E types \in SUBSET {"messages", "subscriptions"} :
        Purge(c, "ws", types) /\ Nothing

\* message_controller.pop removes up to limit messages that no claim holds.
Popped(limit) == {S \in SUBSET Free : \/ Cardinality(S) = limit
                                      \/ S = Free /\ Cardinality(S) < limit}

PurgePopOnce(c) ==
    /\ call[c].pc = "pop"
    /\ \E S \in Popped(PopLimit) : Removed(S) /\ Go(c, "subs")
    /\ UNCHANGED <<queue, seen, lost>>

PurgePop(c) ==
    /\ call[c].pc = "pop"
    /\ \E S \in Popped(PopLimit) :
        /\ Removed(S)
        /\ Go(c, IF S = {} THEN "subs" ELSE "pop")
    /\ UNCHANGED <<queue, seen, lost>>

PurgeEnds(c) == call[c].pc = "subs" /\ Reply(c, 204) /\ Nothing

\* The first controller call of a request raises.
StorageFails(c) == \E status \in {500, 503} : Answer(c, status) /\ Nothing

\* A later one raises.
QueueFails(c) ==
    /\ call[c].pc \in {"drop", "set", "pop", "subs", "first"}
    /\ Reply(c, Failure(call[c].op))
    /\ Nothing
--------------------------------------------------------------------------------
(* Messages.                                                                    *)

\* Reading messages changes nothing; which ones a listing shows depends on its
\* marker, limit, echo and include_claimed.
List(c, empty, failure) ==
    /\ \E status \in {failure} \cup
            {IF ~message_listing(limit) THEN 400 ELSE IF shown = {} THEN empty ELSE 200 :
                limit \in 0..(MaxPage + 1) \cup {None}, shown \in SUBSET Stored} :
        Answer(c, status)
    /\ Nothing

_getV10(c) == List(c, 204, 503)
_getV11(c) == List(c, 200, 503)
_getV2(c) == List(c, 200, 503)
message_list(c) == List(c, 200, 500)

GetByIds(c, none, failure) ==
    /\ \E status \in {failure} \cup
            {IF ~message_listing(Cardinality(ids)) THEN 400
             ELSE IF ids \cap Stored = {} THEN none ELSE 200 : ids \in SUBSET Msgs} :
        Answer(c, status)
    /\ Nothing

_get_by_idV10(c) == GetByIds(c, 204, 503)
_get_by_idV11(c) == GetByIds(c, 404, 503)
_get_by_idV2(c) == GetByIds(c, 404, 503)
message_get_many(c) == GetByIds(c, 200, 500)

GetItem(c, failure) ==
    /\ \E status \in {failure} \cup {IF m \in Stored THEN 200 ELSE 404 : m \in Msgs} :
        Answer(c, status)
    /\ Nothing

GetItemV10(c) == GetItem(c, 503)
GetItemV11(c) == GetItem(c, 503)
GetItemV2(c) == GetItem(c, 503)
message_get(c) == GetItem(c, 500)

DeleteItem(c, failure) ==
    /\ \/ \E m \in Msgs, claim \in Clients \cup {None} :
            /\ Answer(c, DeleteStatus(m, claim))
            /\ Removed(IF DeleteStatus(m, claim) = 204 THEN {m} \cap Stored ELSE {})
       \/ Answer(c, failure) /\ UNCHANGED box
    /\ UNCHANGED <<queue, seen>>

DeleteItemV10(c) == DeleteItem(c, 503)
DeleteItemV11(c) == DeleteItem(c, 503)
DeleteItemV2(c) == DeleteItem(c, 503)
message_delete(c) == DeleteItem(c, 500)

\* bulk_delete removes messages whether they are claimed or not.
_delete_messages_by_id(c, ids, failure) ==
    \/ Answer(c, 204) /\ Removed(ids \cap Stored)
    \/ Answer(c, failure) /\ UNCHANGED box

_pop_messages(c, limit, failure) ==
    \/ \E S \in Popped(limit) : Answer(c, 200) /\ Removed(S)
    \/ Answer(c, failure) /\ UNCHANGED box

DeleteMany(c, failure) ==
    /\ \/ \E ids \in {x \in SUBSET Msgs : message_deletion(x, None)} :
            _delete_messages_by_id(c, ids, failure)
       \/ \E pop \in {n \in 0..(MaxClaim + 1) : message_deletion(None, n)} :
            _pop_messages(c, pop, failure)
       \/ Answer(c, 400) /\ UNCHANGED box
    /\ UNCHANGED <<queue, seen>>

DeleteManyV10(c) ==
    /\ \/ \E ids \in {x \in SUBSET Msgs : message_listing(Cardinality(x))} :
            _delete_messages_by_id(c, ids, 503)
       \/ Answer(c, 400) /\ UNCHANGED box
    /\ UNCHANGED <<queue, seen>>

DeleteManyV11(c) == DeleteMany(c, 503)
DeleteManyV2(c) == DeleteMany(c, 503)
message_delete_many(c) == DeleteMany(c, 500)
--------------------------------------------------------------------------------
(* Claims.  A client holds at most one claim, named after it; a claim exists     *)
(* while it holds a message.                                                     *)

\* The claim c takes the messages S; a purge may leave them.
Claimed(c, S) ==
    /\ box' = [m \in Msgs |-> IF m \in S THEN [box[m] EXCEPT !.claim = c, !.live = TRUE] ELSE box[m]]
    /\ call' = [d \in Clients |-> [call[d] EXCEPT !.doomed = @ \ S]]
    /\ UNCHANGED lost

Leases == 0..(MaxLease + 1) \cup {None}
Graces == 0..(MaxGrace + 1) \cup {None}

\* The limits of the requests that pass, given the defaults of the endpoint.
ClaimLimits(lease, pause) ==
    {limit \in 0..(MaxClaim + 1) \cup {None} :
        \E ttl \in Leases, grace \in Graces :
            claim_creation(get_checked_field(ttl, lease), get_checked_field(grace, pause), limit)}

\* The request is sanitized and validated, and the claim takes up to limit
\* messages; the storage takes 10 when no limit is given.
CreateClaim(c, lease, pause, malformed, failure) ==
    /\ \/ /\ call[c] = Idle /\ Held(c) = {}
          /\ \E limit \in ClaimLimits(lease, pause) :
                \E S \in Popped(get_checked_field(limit, 10)) : Claimed(c, S)
       \/ \E status \in {400, malformed, failure} : Answer(c, status) /\ UNCHANGED box
    /\ UNCHANGED <<queue, seen>>

CreateClaimV10(c) == CreateClaim(c, None, None, 400, 503)
CreateClaimV11(c) == CreateClaim(c, MaxLease, MaxGrace, 400, 503)
CreateClaimV2(c) == CreateClaim(c, MaxLease, MaxGrace, 400, 503)
claim_create(c) == CreateClaim(c, MaxLease, MaxGrace, 500, 500)

GetClaim(c, failure) ==
    /\ \E status \in {failure} \cup {IF Held(d) = {} THEN 404 ELSE 200 : d \in Clients} :
        Answer(c, status)
    /\ Nothing

GetClaimV10(c) == GetClaim(c, 503)
GetClaimV11(c) == GetClaim(c, 503)
GetClaimV2(c) == GetClaim(c, 503)
claim_get(c) == GetClaim(c, 500)

\* A renewal changes only the end of the claim, which is not modelled here.
UpdateClaim(c, lease, malformed, failure) ==
    /\ \E status \in {malformed, failure} \cup
            {IF ~claim_updating(get_checked_field(ttl, lease)) THEN 400
             ELSE IF Held(d) = {} THEN 404 ELSE 204 : d \in Clients, ttl \in Leases} :
        Answer(c, status)
    /\ Nothing

UpdateClaimV10(c) == UpdateClaim(c, None, 400, 503)
UpdateClaimV11(c) == UpdateClaim(c, MaxLease, 400, 503)
UpdateClaimV2(c) == UpdateClaim(c, MaxLease, 400, 503)
claim_update(c) == UpdateClaim(c, MaxLease, 500, 500)

\* A release clears the claim of its messages; an expired one stays on them.
Released(S) ==
    box' = [m \in Msgs |-> IF m \in S THEN [box[m] EXCEPT !.claim = None, !.live = FALSE]
                           ELSE box[m]]

DeleteClaim(c, failure) ==
    /\ \/ \E d \in Clients : Answer(c, 204) /\ Released(Held(d))
       \/ Answer(c, failure) /\ UNCHANGED box
    /\ UNCHANGED <<queue, seen>>

DeleteClaimV10(c) == DeleteClaim(c, 503)
DeleteClaimV11(c) == DeleteClaim(c, 503)
DeleteClaimV2(c) == DeleteClaim(c, 503)
claim_delete(c) == DeleteClaim(c, 500)
--------------------------------------------------------------------------------
(* Time: a cache entry, a message or a claim expires.                            *)

CacheExpires(c) ==
    /\ seen[c]
    /\ seen' = [seen EXCEPT ![c] = FALSE]
    /\ UNCHANGED <<queue, box, call, lost>>

MessageExpires(m) ==
    /\ m \in Stored
    /\ Removed({m})
    /\ UNCHANGED <<queue, seen, call, lost>>

ClaimExpires(c) ==
    /\ Held(c) # {}
    /\ box' = [m \in Msgs |-> IF m \in Held(c) THEN [box[m] EXCEPT !.live = FALSE] ELSE box[m]]
    /\ UNCHANGED <<queue, seen, call, lost>>

\* A request of an idle client begins, or goes on.
Handle(c) ==
    \/ PostV10(c) \/ PostV11(c) \/ PostV2(c) \/ message_post(c)
    \/ PutQueueV10(c) \/ PutQueueV11(c) \/ PutQueueV2(c) \/ queue_create(c)
    \/ ListQueuesV10(c) \/ ListQueuesV11(c) \/ ListQueuesV2(c) \/ queue_list(c)
    \/ HeadQueueV10(c) \/ GetQueueV11(c) \/ GetQueueV2(c) \/ queue_get(c)
    \/ GetMetadataV10(c) \/ PutMetadataV10(c) \/ PatchQueueV2(c)
    \/ DeleteQueueV10(c) \/ DeleteQueueV11(c) \/ DeleteQueueV2(c) \/ queue_delete(c)
    \/ StatsV10(c) \/ StatsV11(c) \/ StatsV2(c) \/ queue_get_stats(c)
    \/ PurgeQueueV2(c) \/ queue_purge(c) \/ StorageFails(c)

Read(c) ==
    \/ _getV10(c) \/ _getV11(c) \/ _getV2(c) \/ message_list(c)
    \/ _get_by_idV10(c) \/ _get_by_idV11(c) \/ _get_by_idV2(c) \/ message_get_many(c)
    \/ GetItemV10(c) \/ GetItemV11(c) \/ GetItemV2(c) \/ message_get(c)

Remove(c) ==
    \/ DeleteItemV10(c) \/ DeleteItemV11(c) \/ DeleteItemV2(c) \/ message_delete(c)
    \/ DeleteManyV10(c) \/ DeleteManyV11(c) \/ DeleteManyV2(c) \/ message_delete_many(c)

Claim(c) ==
    \/ CreateClaimV10(c) \/ CreateClaimV11(c) \/ CreateClaimV2(c) \/ claim_create(c)
    \/ GetClaimV10(c) \/ GetClaimV11(c) \/ GetClaimV2(c) \/ claim_get(c)
    \/ UpdateClaimV10(c) \/ UpdateClaimV11(c) \/ UpdateClaimV2(c) \/ claim_update(c)
    \/ DeleteClaimV10(c) \/ DeleteClaimV11(c) \/ DeleteClaimV2(c) \/ claim_delete(c)

Resume(c) ==
    \/ PostV11Exists(c) \/ PostV11Create(c) \/ PostMeta(c) \/ PostLazy(c)
    \/ PostCheck(c) \/ PostCount(c) \/ PostInsert(c) \/ PostFails(c)
    \/ set_metadata(c) \/ Drop(c) \/ StatsFirst(c)
    \/ PurgePop(c) \/ PurgeEnds(c) \/ QueueFails(c)

Next ==
    \/ \E c \in Clients :
        \/ call[c] = Idle /\ (Handle(c) \/ Read(c) \/ Remove(c) \/ Claim(c))
        \/ Resume(c)
        \/ CacheExpires(c)
        \/ ClaimExpires(c)
    \/ \E m \in Msgs : MessageExpires(m)

Spec == Init /\ [][Next]_vars
--------------------------------------------------------------------------------
\* Whichever API wrote them, and whatever a concurrent PATCH read, the reserved
\* attributes of the queue and the ttl of every stored message are within the
\* limits (queue_metadata_putting, message_posting).
StoredValid ==
    /\ queue # None => queue_metadata_putting(queue)
    /\ \A m \in Stored : message_content(box[m].ttl)

\* When a purge is done with messages, every message that was there and free
\* when it began, and that nobody has claimed since, is gone (purge.py's and
\* queue_purge's loop over pop).
PurgedGone ==
    \A c \in Clients : call[c].pc = "subs" => call[c].doomed \cap Stored = {}

\* A POST of API v2 or of a websocket, which creates a missing queue, is told
\* that the queue does not exist only if some queue deletion ended since the
\* POST began: a stale cache entry, of its own process or another's, never
\* costs it the queue (on_post asks for the metadata, not for exists).
LazyPosts == ~lost
================================================================================
