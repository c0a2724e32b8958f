----------------------------- MODULE Subscriptions -----------------------------
(* Subscriptions and their notification: the controllers of MongoDB, Redis and *)
(* Swift (storage/*/subscriptions.py), the WSGI resources of API v2 and the    *)
(* endpoints that call them, and the notifier that walks the subscriptions of  *)
(* a queue when messages are posted (notification/notifier.py).  Every request *)
(* to the store is a step.  The ttl of a subscription is not counted: one that *)
(* has an expiry may expire at any time.                                       *)
EXTENDS Integers, FiniteSets

CONSTANTS
    Ids,            \* subscription ids, in the order a store lists them
    Sources,        \* queues
    Subscribers,    \* subscriber URIs
    Supported,      \* those whose scheme is in subscriber_types
    Callers,        \* API requests at a time
    Ops,            \* the requests each caller makes, a bound
    Stores,         \* the drivers considered
    None,           \* no queue, no subscriber, no ttl, no lock
    NoSub,          \* no subscription under an id
    PageLimit,      \* DEFAULT_SUBSCRIPTIONS_PER_PAGE: 10 in the code
    MaxPage,        \* max_subscriptions_per_page
    MinTtl, MaxTtl, \* MIN_SUBSCRIPTION_TTL, the last ttl that has a date
    RequireConfirmation

\* s is None in a Redis hash that was written again after it had expired; e tells
\* whether it will expire.
Subscription == [s : Sources \cup {None}, u : Supported \cup {None},
                 c : BOOLEAN, e : BOOLEAN]

ASSUME SubscriptionsAssumption ==
    /\ Ids \subseteq Nat \ {0} /\ PageLimit \in Nat \ {0} /\ MaxPage \in Nat
    /\ Supported \subseteq Subscribers
    /\ None \notin Sources \cup Subscribers /\ NoSub \notin Subscription
    /\ MinTtl \in Nat \ {0} /\ MaxTtl \in Nat /\ MinTtl =< MaxTtl
    /\ RequireConfirmation \in BOOLEAN
    /\ Stores \subseteq {"mongodb", "redis", "swift"}
    /\ Ops \in [Callers -> SUBSET {"read", "post", "ws", "patch", "confirm", "delete", "purge", "walk"}]

VARIABLES
    store,     \* the driver of the deployment: it never changes
    queues,    \* queues that exist
    sub,       \* the document, hash or object of each id
    ids,       \* Redis: the sorted set of ids of each queue
    lock,      \* Swift: the subscriber object of a queue, holding an id
    fresh,     \* ids no subscription had yet
    asked,     \* ids whose subscriber was sent a signed confirmation URL
    call,      \* the request of each caller
    steady     \* of a walk: the subscriptions to notify since it began

vars == <<store, queues, sub, ids, lock, fresh, asked, call, steady>>

\* A request: what it is, its next step, its arguments, the subscription Swift
\* read for it, and of a listing the ids of the page still to be visited, the
\* marker, and the ids notified once and twice.
Call == [op : {"idle", "post", "ws", "patch", "confirm", "delete", "purge", "walk"},
         pc : {"idle", "create", "dup", "put", "get", "with", "update", "write", "relock",
               "unlock", "bye", "delete", "free", "remove", "list", "page", "item", "done"},
         s : Sources \cup {None}, i : Ids \cup {0}, u : Subscribers \cup {None},
         c : BOOLEAN, data : Subscription \cup {NoSub},
         page : SUBSET Ids, marker : Ids \cup {0}, got : SUBSET Ids, twice : SUBSET Ids]
Idle == [op |-> "idle", pc |-> "idle", s |-> None, i |-> 0, u |-> None, c |-> FALSE,
         data |-> NoSub, page |-> {}, marker |-> 0, got |-> {}, twice |-> {}]

TypeOK ==
    /\ store \in Stores
    /\ queues \subseteq Sources
    /\ sub \in [Ids -> Subscription \cup {NoSub}]
    /\ ids \in [Sources -> SUBSET Ids]
    /\ lock \in [Sources -> [Subscribers -> Ids \cup {None}]]
    /\ fresh \subseteq Ids /\ asked \subseteq Ids
    /\ call \in [Callers -> Call]
    /\ steady \in [Callers -> SUBSET Ids]

Init ==
    /\ store \in Stores
    /\ queues = {}
    /\ sub = [i \in Ids |-> NoSub]
    /\ ids = [s \in Sources |-> {}]
    /\ lock = [s \in Sources |-> [u \in Subscribers |-> None]]
    /\ fresh = Ids /\ asked = {}
    /\ call = [a \in Callers |-> Idle]
    /\ steady = [a \in Callers |-> {}]

At(a, db, pc) == store = db /\ call[a].pc = pc
Go(a, pc) == call' = [call EXCEPT ![a] = [@ EXCEPT !.pc = pc]]
Reply(a) == call' = [call EXCEPT ![a] = Idle]
Put(i, r) == sub' = [sub EXCEPT ![i] = r]
Unlock(s, u) == lock' = [lock EXCEPT ![s][u] = None]

\* The subscription the request creates: not confirmed.
Created(a) == [s |-> call[a].s, u |-> call[a].u, c |-> FALSE, e |-> TRUE]

\* The first of a set of ids, the last of them, and a page: the first PageLimit.
Least(S) == {i \in S : \A j \in S : i =< j}
Greatest(S) == {i \in S : \A j \in S : j =< i}
Pages(S) ==
    {page \in SUBSET S :
        /\ \/ Cardinality(page) = PageLimit
           \/ Cardinality(page) < PageLimit /\ page = S
        /\ \A i \in page, j \in S \ page : i < j}

\* What get finds: an id of the queue whose record is whole.
Readable(s, i) == sub[i] # NoSub /\ sub[i].s = s
--------------------------------------------------------------------------------
(* Validation (transport/validation.py).  A document has a subscriber, a ttl,   *)
(* and options that are a dict or are not; each may be missing.                 *)

Documents == [u : Subscribers \cup {None}, ttl : 0..(MaxTtl + 1) \cup {None},
              options : {"dict", "other", "none"}]
Blank == [u |-> None, ttl |-> None, options |-> "none"]

subscription_patching(doc) ==
    /\ doc # Blank
    /\ doc.u # None => doc.u \in Supported
    /\ doc.options # "other"
    /\ doc.ttl \notin {None, 0} => doc.ttl \in MinTtl..MaxTtl

subscription_posting(doc) == doc.u # None /\ subscription_patching(doc)

subscription_listing(limit) == limit # None => limit \in 1..MaxPage

\* The subscribers that are posted and patched, None for a patch without one.
Posted == {doc.u : doc \in {d \in Documents : subscription_posting(d)}}
Patched == {doc.u : doc \in {d \in Documents : subscription_patching(d)}}
--------------------------------------------------------------------------------
(* The handlers, up to their first request to the subscription controller.     *)

Begin(a, args) == call[a] = Idle /\ call' = [call EXCEPT ![a] = args]
Stored == <<sub, ids, lock, fresh, asked>>

\* Ids a client may name: those it was told of.
Known == Ids \ fresh

\* CollectionResource.on_post creates the queue, then validates.
PostV2(a) ==
    \E s \in Sources :
        /\ \/ \E u \in Posted :
                Begin(a, [Idle EXCEPT !.op = "post", !.pc = "create", !.s = s, !.u = u])
           \/ Begin(a, Idle)
        /\ queues' = queues \cup {s}
        /\ UNCHANGED <<store, Stored>>

\* Endpoints.subscription_create validates, then creates the queue.
subscription_create(a, u) ==
    /\ u \in Posted
    /\ \E s \in Sources :
        /\ Begin(a, [Idle EXCEPT !.op = "ws", !.pc = "create", !.s = s, !.u = u])
        /\ queues' = queues \cup {s}
        /\ UNCHANGED <<store, Stored>>

PatchV2(a) ==
    /\ \E s \in Sources, i \in Known, u \in Patched :
        Begin(a, [Idle EXCEPT !.op = "patch", !.pc = "update", !.s = s, !.i = i, !.u = u])
    /\ UNCHANGED <<store, queues, Stored>>

\* ConfirmResource.on_put, by the owner or by the holder of the signed URL.
ConfirmV2(a) ==
    /\ \E s \in Sources, i \in Known, c \in BOOLEAN :
        Begin(a, [Idle EXCEPT !.op = "confirm", !.pc = "update", !.s = s, !.i = i, !.c = c])
    /\ UNCHANGED <<store, queues, Stored>>

DeleteV2(a) ==
    /\ \E s \in Sources, i \in Known :
        Begin(a, [Idle EXCEPT !.op = "delete", !.pc = "delete", !.s = s, !.i = i])
    /\ UNCHANGED <<store, queues, Stored>>

subscription_delete(a, s, i) ==
    /\ Begin(a, [Idle EXCEPT !.op = "delete", !.pc = "delete", !.s = s, !.i = i])
    /\ UNCHANGED <<store, queues, Stored>>

\* A purge of the subscriptions of a queue.
Purge(a) ==
    /\ \E s \in Sources : Begin(a, [Idle EXCEPT !.op = "purge", !.pc = "list", !.s = s])
    /\ UNCHANGED <<store, queues, Stored>>

\* A request that only reads is answered in one step.
Answer(a, status) == Begin(a, Idle) /\ status \in 200..599 /\ UNCHANGED <<store, queues, Stored>>
GetStatus(s, i) ==
    IF Readable(s, i) /\ (store = "redis" => i \in ids[s]) THEN 200 ELSE 404
ListStatus(limit) == IF subscription_listing(limit) THEN 200 ELSE 400

GetV2(a) == \E s \in Sources, i \in Known : Answer(a, GetStatus(s, i))
subscription_get(a) == \E s \in Sources, i \in Known : Answer(a, GetStatus(s, i))
ListV2(a) == \E limit \in 0..(MaxPage + 1) \cup {None} : Answer(a, ListStatus(limit))
subscription_list(a) == \E limit \in 0..(MaxPage + 1) \cup {None} : Answer(a, ListStatus(limit))

\* NotifierDriver.post, before the messages are stored.
NotifierPost(a) ==
    /\ \E s \in Sources : Begin(a, [Idle EXCEPT !.op = "walk", !.pc = "page", !.s = s])
    /\ UNCHANGED <<store, queues, Stored>>
--------------------------------------------------------------------------------
(* Creation.                                                                    *)

\* The controller returned an id: on_post goes on to read it back, the endpoint
\* answers 201.
Success(a, i) ==
    call' = [call EXCEPT ![a] = [@ EXCEPT !.i = i, !.data = NoSub,
                                          !.pc = IF call[a].op = "post" THEN "get" ELSE "done"]]

\* The subscriber is taken: on_post looks the subscription up, the endpoint and
\* a patch answer 409.
Duplicate(a) ==
    call' = [call EXCEPT ![a] = IF @.op = "post" THEN [@ EXCEPT !.pc = "with", !.page = {}]
                                ELSE Idle]

\* MongoDB: the unique index of queue, subscriber and project.
Taken(s, u, i) == \E j \in Ids \ {i} : sub[j] # NoSub /\ sub[j].s = s /\ sub[j].u = u

MongoCreate(a) ==
    /\ At(a, "mongodb", "create")
    /\ IF Taken(call[a].s, call[a].u, 0)
       THEN Duplicate(a) /\ UNCHANGED <<sub, fresh>>
       ELSE \E i \in fresh :
                Success(a, i) /\ Put(i, Created(a)) /\ fresh' = fresh \ {i}
    /\ UNCHANGED <<store, queues, ids, lock, asked>>

\* Redis: the ids of the queue are read, then visited one at a time: the id of an
\* expired subscription is removed, a hash of the subscriber is a duplicate.
RedisScan(a) ==
    /\ At(a, "redis", "create")
    /\ call' = [call EXCEPT ![a] = [@ EXCEPT !.pc = "dup", !.page = ids[call[a].s]]]
    /\ UNCHANGED <<store, queues, Stored>>

_is_duplicated_subscriber(a) ==
    /\ At(a, "redis", "dup") /\ call[a].page # {}
    /\ \E i \in Least(call[a].page) :
        IF sub[i] = NoSub
        THEN /\ ids' = [ids EXCEPT ![call[a].s] = @ \ {i}]
             /\ call' = [call EXCEPT ![a] = [@ EXCEPT !.page = call[a].page \ {i}]]
        ELSE /\ IF sub[i].u = call[a].u THEN Duplicate(a)
                ELSE call' = [call EXCEPT ![a] = [@ EXCEPT !.page = call[a].page \ {i}]]
             /\ UNCHANGED ids
    /\ UNCHANGED <<store, queues, sub, lock, fresh, asked>>

\* No duplicate was seen: the id and the hash are written in one transaction.
RedisCreate(a) ==
    /\ At(a, "redis", "dup") /\ call[a].page = {} /\ call[a].op \in {"post", "ws"}
    /\ \E i \in fresh :
        /\ Success(a, i) /\ Put(i, Created(a)) /\ fresh' = fresh \ {i}
        /\ ids' = [ids EXCEPT ![call[a].s] = @ \cup {i}]
    /\ UNCHANGED <<store, queues, lock, asked>>

\* Swift: the subscriber object is put unless it exists, then the subscription.
SwiftLock(a) ==
    /\ At(a, "swift", "create")
    /\ IF lock[call[a].s][call[a].u] # None
       THEN Duplicate(a) /\ UNCHANGED <<lock, fresh>>
       ELSE \E i \in fresh :
            /\ call' = [call EXCEPT ![a] = [@ EXCEPT !.pc = "put", !.i = i, !.data = Created(a)]]
            /\ lock' = [lock EXCEPT ![call[a].s][call[a].u] = i]
            /\ fresh' = fresh \ {i}
    /\ UNCHANGED <<store, queues, sub, ids, asked>>

SwiftCreate(a) ==
    /\ At(a, "swift", "put") /\ call[a].op \in {"post", "ws"}
    /\ Put(call[a].i, call[a].data)
    /\ Success(a, call[a].i)
    /\ UNCHANGED <<store, queues, ids, lock, fresh, asked>>

\* NotifierDriver.send_confirm_notification: the subscriber is sent a signed URL.
send_confirm_notification(i) ==
    asked' = IF RequireConfirmation THEN asked \cup {i} ELSE asked

Notified(a, i) ==
    /\ send_confirm_notification(i)
    /\ call' = [call EXCEPT ![a] = [@ EXCEPT !.i = i, !.pc = "done"]]

\* Mutant: the new subscriber is told nothing.
GetCreatedUnsent(a) ==
    /\ call[a].pc = "get"
    /\ IF Readable(call[a].s, call[a].i) THEN Go(a, "done") ELSE Reply(a)
    /\ UNCHANGED <<store, queues, Stored>>

\* on_post reads the subscription back; one that is gone is an error that no
\* handler catches.
GetCreated(a) ==
    /\ call[a].pc = "get"
    /\ IF Readable(call[a].s, call[a].i) THEN Notified(a, call[a].i)
       ELSE Reply(a) /\ UNCHANGED asked
    /\ UNCHANGED <<store, queues, sub, ids, lock, fresh>>

\* get_with_subscriber: MongoDB does not ask for the queue, Redis takes the first
\* hash of the queue with the subscriber, Swift follows the subscriber object.
MongoWith(a) == {i \in Ids : sub[i] # NoSub /\ sub[i].u = call[a].u}
RedisWith(a) ==
    LET found == {i \in ids[call[a].s] : sub[i] # NoSub /\ sub[i].u = call[a].u}
    IN  {i \in Least(found) : Readable(call[a].s, i)}
SwiftWith(a) ==
    {i \in Ids : lock[call[a].s][call[a].u] = i /\ Readable(call[a].s, i)}

\* One that is confirmed is a conflict, else the notification is sent again;
\* none at all is an error.
Resend(a) ==
    /\ call[a].pc = "with"
    /\ LET found == CASE store = "mongodb" -> MongoWith(a)
                      [] store = "redis" -> RedisWith(a)
                      [] store = "swift" -> SwiftWith(a)
       IN  \/ \E i \in found : ~sub[i].c /\ Notified(a, i)
           \/ (found = {} \/ \E i \in found : sub[i].c) /\ Reply(a) /\ UNCHANGED asked
    /\ UNCHANGED <<store, queues, sub, ids, lock, fresh>>
--------------------------------------------------------------------------------
(* Update and confirmation.                                                     *)

\* A confirmation that takes one back tells the subscriber.
Stop(a) ==
    call' = [call EXCEPT ![a] = IF @.op = "confirm" /\ ~@.c THEN [@ EXCEPT !.pc = "bye"]
                                ELSE Idle]
Bye(a) ==
    /\ call[a].pc = "bye"
    /\ IF Readable(call[a].s, call[a].i) THEN send_confirm_notification(call[a].i)
       ELSE UNCHANGED asked
    /\ Reply(a)
    /\ UNCHANGED <<store, queues, sub, ids, lock, fresh>>

\* The fields the request sets.
Set(a, r) ==
    IF call[a].op = "confirm" THEN [r EXCEPT !.c = call[a].c]
    ELSE IF call[a].u # None THEN [r EXCEPT !.u = call[a].u]
    ELSE r

\* MongoDB: one update.  A patch names the queue, a confirmation does not.
MongoUpdate(a) ==
    /\ At(a, "mongodb", "update")
    /\ LET i == call[a].i
           found == sub[i] # NoSub /\ (call[a].op = "patch" => sub[i].s = call[a].s)
       IN  IF ~found \/ (call[a].op = "patch" /\ Taken(sub[i].s, call[a].u, i))
           THEN Reply(a) /\ UNCHANGED sub
           ELSE Put(i, Set(a, sub[i])) /\ Stop(a)
    /\ UNCHANGED <<store, queues, ids, lock, fresh, asked>>

\* Redis: the subscription is read, a new subscriber is looked for, the fields are
\* written.
RedisUpdate(a) ==
    /\ At(a, "redis", "update")
    /\ LET i == call[a].i  s == call[a].s IN
        IF i \notin ids[s] \/ ~Readable(s, i) THEN Reply(a)
        ELSE IF call[a].op = "patch" /\ call[a].u \notin {None, sub[i].u}
        THEN call' = [call EXCEPT ![a] = [@ EXCEPT !.pc = "dup", !.page = ids[s]]]
        ELSE Go(a, "write")
    /\ UNCHANGED <<store, queues, Stored>>

\* hmset creates the hash when it is gone, with these fields alone, and without
\* an expiry unless the request is a patch with a ttl.
Lone(a) == [s : {None}, u : {None}, c : {FALSE},
            e : {FALSE, call[a].op = "patch"}]

\* Mutant: the whole subscription is written.
RedisWriteWhole(a) ==
    /\ At(a, "redis", "write")
    /\ Put(call[a].i, [s |-> call[a].s, u |-> call[a].u, c |-> call[a].c, e |-> TRUE])
    /\ Stop(a)
    /\ UNCHANGED <<store, queues, ids, lock, fresh, asked>>

RedisWrite(a) ==
    /\ store = "redis"
    /\ call[a].pc = "write" \/ (call[a].pc = "dup" /\ call[a].page = {} /\ call[a].op = "patch")
    /\ \E r \in IF sub[call[a].i] = NoSub THEN Lone(a) ELSE {sub[call[a].i]} :
        Put(call[a].i, Set(a, r))
    /\ Stop(a)
    /\ UNCHANGED <<store, queues, ids, lock, fresh, asked>>

\* Swift: the object is read, a new subscriber is put unless it exists and the old
\* one is deleted, the object is written as it was read but for the fields.  A
\* confirmation writes TRUE whatever was given.
SwiftUpdate(a) ==
    /\ At(a, "swift", "update")
    /\ IF Readable(call[a].s, call[a].i)
       THEN call' = [call EXCEPT ![a] = [@ EXCEPT !.data = sub[call[a].i],
                        !.pc = IF call[a].op = "patch" /\ call[a].u # None THEN "relock"
                               ELSE "put"]]
       ELSE Reply(a)
    /\ UNCHANGED <<store, queues, Stored>>

SwiftRelock(a) ==
    /\ At(a, "swift", "relock")
    /\ LET s == call[a].s  u == call[a].u IN
        IF lock[s][u] # None THEN Reply(a) /\ UNCHANGED lock
        ELSE Go(a, "unlock") /\ lock' = [lock EXCEPT ![s][u] = call[a].i]
    /\ UNCHANGED <<store, queues, sub, ids, fresh, asked>>

SwiftUnlock(a) ==
    /\ At(a, "swift", "unlock")
    /\ IF lock[call[a].s][call[a].data.u] # None THEN Go(a, "put") ELSE Reply(a)
    /\ Unlock(call[a].s, call[a].data.u)
    /\ UNCHANGED <<store, queues, sub, ids, fresh, asked>>

SwiftWrite(a) ==
    /\ At(a, "swift", "put") /\ call[a].op \in {"patch", "confirm"}
    /\ Put(call[a].i, IF call[a].op = "confirm" THEN [call[a].data EXCEPT !.c = TRUE]
                      ELSE Set(a, call[a].data))
    /\ Stop(a)
    /\ UNCHANGED <<store, queues, ids, lock, fresh, asked>>
--------------------------------------------------------------------------------
(* Deletion.                                                                    *)

\* The next id of a purge, or the reply.
Onward(a) ==
    \/ call[a].page = {} /\ Reply(a)
    \/ \E i \in Least(call[a].page) :
          call' = [call EXCEPT ![a] = [@ EXCEPT !.pc = "delete", !.data = NoSub, !.i = i,
                                                !.page = call[a].page \ {i}]]

\* The first page of the queue, and no other, is buffered and deleted.
PurgeList(a) ==
    /\ call[a].pc = "list"
    /\ LET s == call[a].s
           whole == {i \in Ids : Readable(s, i)}
       IN  \E page \in Pages(IF store = "redis" THEN ids[s] ELSE whole) :
             \/ page \cap whole = {} /\ Reply(a)
             \/ \E i \in Least(page \cap whole) :
                   call' = [call EXCEPT ![a] = [@ EXCEPT !.pc = "delete", !.i = i,
                                                         !.page = (page \cap whole) \ {i}]]
    /\ UNCHANGED <<store, queues, Stored>>

MongoDelete(a) ==
    /\ At(a, "mongodb", "delete")
    /\ IF Readable(call[a].s, call[a].i) THEN Put(call[a].i, NoSub) ELSE UNCHANGED sub
    /\ Onward(a)
    /\ UNCHANGED <<store, queues, ids, lock, fresh, asked>>

\* Mutant: the hash is left behind.
RedisDeleteId(a) ==
    /\ At(a, "redis", "delete")
    /\ ids' = [ids EXCEPT ![call[a].s] = @ \ {call[a].i}]
    /\ Onward(a)
    /\ UNCHANGED <<store, queues, sub, lock, fresh, asked>>

\* Redis: one transaction, if the id is in the sorted set: it never returns there.
RedisDelete(a) ==
    /\ At(a, "redis", "delete")
    /\ LET s == call[a].s  i == call[a].i IN
        IF i \in ids[s]
        THEN Put(i, NoSub) /\ ids' = [ids EXCEPT ![s] = @ \ {i}]
        ELSE UNCHANGED <<sub, ids>>
    /\ Onward(a)
    /\ UNCHANGED <<store, queues, lock, fresh, asked>>

\* Swift: the subscription is read, the object of its subscriber is deleted,
\* whatever id it now holds, then its own.
SwiftDelete(a) ==
    /\ At(a, "swift", "delete")
    /\ IF Readable(call[a].s, call[a].i)
       THEN call' = [call EXCEPT ![a] = [@ EXCEPT !.pc = "free", !.data = sub[call[a].i]]]
       ELSE Onward(a)
    /\ UNCHANGED <<store, queues, Stored>>

SwiftFree(a) ==
    /\ At(a, "swift", "free")
    /\ Unlock(call[a].s, call[a].data.u)
    /\ Go(a, "remove")
    /\ UNCHANGED <<store, queues, sub, ids, fresh, asked>>

SwiftRemove(a) ==
    /\ At(a, "swift", "remove")
    /\ Put(call[a].i, NoSub)
    /\ Onward(a)
    /\ UNCHANGED <<store, queues, ids, lock, fresh, asked>>
--------------------------------------------------------------------------------
(* The notifier's walk over the pages of a queue.                               *)

\* A subscriber that must confirm and has not is skipped.
Willing(i) == sub[i].c \/ ~RequireConfirmation

\* Mutant: the page begins with the marker.
MongoPageAgain(a) ==
    /\ At(a, "mongodb", "page")
    /\ \E page \in Pages({i \in Ids : i >= call[a].marker /\ Readable(call[a].s, i)}) :
       \E last \in IF page = {} THEN {0} ELSE Greatest(page) :
          call' = [call EXCEPT ![a] = [@ EXCEPT !.pc = "item", !.marker = last,
                                                !.page = {i \in page : Willing(i)}]]
    /\ UNCHANGED <<store, queues, Stored>>

\* MongoDB: the page is read at once, with the subscriptions in it, by id.
MongoPage(a) ==
    /\ At(a, "mongodb", "page")
    /\ \E page \in Pages({i \in Ids : i > call[a].marker /\ Readable(call[a].s, i)}) :
       \E last \in IF page = {} THEN {0} ELSE Greatest(page) :
          call' = [call EXCEPT ![a] = [@ EXCEPT !.pc = "item", !.marker = last,
                                                !.page = {i \in page : Willing(i)}]]
    /\ UNCHANGED <<store, queues, Stored>>

\* A page the cursors of Redis and Swift visit.
Visit(a, rest) ==
    \E page \in Pages(rest) :
        call' = [call EXCEPT ![a] = [@ EXCEPT !.pc = "item", !.page = page, !.marker = 0]]

\* Mutant: rank 0 counts as no rank.
RedisPageFirst(a) ==
    /\ At(a, "redis", "page")
    /\ LET every == ids[call[a].s]
           known == call[a].marker \in every \ Least(every)
       IN  Visit(a, IF known THEN {i \in every : i > call[a].marker} ELSE every)
    /\ UNCHANGED <<store, queues, Stored>>

\* Redis: the ids after the rank of the marker, or from the start if the marker
\* has none.
RedisPage(a) ==
    /\ At(a, "redis", "page")
    /\ LET every == ids[call[a].s]
       IN  Visit(a, IF call[a].marker \in every THEN {i \in every : i > call[a].marker}
                    ELSE every)
    /\ UNCHANGED <<store, queues, Stored>>

\* Swift: the names after the marker.
SwiftPage(a) ==
    /\ At(a, "swift", "page")
    /\ Visit(a, {i \in Ids : i > call[a].marker /\ Readable(call[a].s, i)})
    /\ UNCHANGED <<store, queues, Stored>>

\* The subscriber of an id is notified, perhaps again.
Tell(c, i) == [c EXCEPT !.got = @ \cup {i}, !.twice = IF i \in c.got THEN @ \cup {i} ELSE @]

\* One subscription of the page.  The cursors of Redis and Swift read it only now:
\* one that is gone is passed over, and moves the marker on Swift alone.
Item(a) ==
    /\ call[a].pc = "item" /\ call[a].page # {}
    /\ \E i \in Least(call[a].page) :
       LET here == store = "mongodb" \/ Readable(call[a].s, i)
           moved == [call[a] EXCEPT !.page = @ \ {i},
                        !.marker = IF store = "swift" \/ (store = "redis" /\ here)
                                   THEN i ELSE @]
       IN  call' = [call EXCEPT ![a] =
                      IF here /\ (store # "mongodb" => Willing(i)) THEN Tell(moved, i) ELSE moved]
    /\ UNCHANGED <<store, queues, Stored>>

\* After a page: the next one, until there is no marker.
NextPage(a) ==
    /\ call[a].pc = "item" /\ call[a].page = {}
    /\ IF call[a].marker = 0 THEN Reply(a) ELSE Go(a, "page")
    /\ UNCHANGED <<store, queues, Stored>>
--------------------------------------------------------------------------------
(* Expiry, failure, and the next-state relation.                                *)

\* The ttl index of MongoDB and the expiry of a Redis key; a Swift object outlives
\* the subscriber object, which was put before it with the same ttl.
Expire(i) ==
    /\ sub[i] # NoSub /\ sub[i].e
    /\ store = "swift" => lock[sub[i].s][sub[i].u] # i
    /\ Put(i, NoSub)
    /\ UNCHANGED <<store, queues, ids, lock, fresh, asked, call>>

ExpireLock(s, u) ==
    /\ lock[s][u] # None
    /\ Unlock(s, u)
    /\ UNCHANGED <<store, queues, sub, ids, fresh, asked, call>>

\* The store fails a request, or the process stops: the handler ends there.
Fail(a) == call[a].pc \notin {"idle", "done"} /\ Reply(a) /\ UNCHANGED <<store, queues, Stored>>

\* The reply reaches the client.
Finish(a) == call[a].pc = "done" /\ Reply(a) /\ UNCHANGED <<store, queues, Stored>>

\* What the controllers do for a request.
Create(a) ==
    \/ MongoCreate(a) \/ RedisScan(a) \/ _is_duplicated_subscriber(a) \/ RedisCreate(a)
    \/ SwiftLock(a) \/ SwiftCreate(a) \/ GetCreated(a) \/ Resend(a)
Update(a) ==
    \/ MongoUpdate(a) \/ RedisUpdate(a) \/ RedisWrite(a) \/ Bye(a)
    \/ SwiftUpdate(a) \/ SwiftRelock(a) \/ SwiftUnlock(a) \/ SwiftWrite(a)
Delete(a) ==
    \/ PurgeList(a) \/ MongoDelete(a) \/ RedisDelete(a)
    \/ SwiftDelete(a) \/ SwiftFree(a) \/ SwiftRemove(a)
Walk(a) == MongoPage(a) \/ RedisPage(a) \/ SwiftPage(a) \/ Item(a) \/ NextPage(a)

Serve(a) == Create(a) \/ Update(a) \/ Delete(a) \/ Walk(a)

Read(a) == GetV2(a) \/ subscription_get(a) \/ ListV2(a) \/ subscription_list(a)

Request(a) ==
    \/ "read" \in Ops[a] /\ Read(a)
    \/ "post" \in Ops[a] /\ PostV2(a)
    \/ "ws" \in Ops[a] /\ \E u \in Subscribers : subscription_create(a, u)
    \/ "patch" \in Ops[a] /\ PatchV2(a)
    \/ "confirm" \in Ops[a] /\ ConfirmV2(a)
    \/ "delete" \in Ops[a] /\ DeleteV2(a)
    \/ "purge" \in Ops[a] /\ Purge(a)
    \/ "walk" \in Ops[a] /\ NotifierPost(a)

Environment ==
    \/ \E i \in Ids : Expire(i)
    \/ \E s \in Sources, u \in Subscribers : ExpireLock(s, u)

\* The subscriptions a walk owes a notification: those to notify when it begins,
\* as long as they stay as they are.  On Redis the walk owes nothing once an id
\* of the queue has no hash or leaves the sorted set.
Owed(a) ==
    IF call[a].op # "walk" /\ call'[a].op = "walk"
    THEN LET s == call'[a].s IN
         IF store = "redis" /\ \E i \in ids[s] : ~Readable(s, i) THEN {}
         ELSE {i \in Ids : Readable(s, i) /\ Willing(i)}
    ELSE IF call'[a].op # "walk" THEN {}
    ELSE LET s == call[a].s IN
         IF store = "redis" /\ \E i \in ids[s] : i \notin ids'[s] \/ sub'[i] = NoSub THEN {}
         ELSE {i \in steady[a] : sub'[i] = sub[i]}

\* The steps of the requests of some callers, and of the store itself.
Steps(requesters) ==
    \/ \E a \in requesters : Request(a) \/ Serve(a) \/ Fail(a) \/ Finish(a)
    \/ Environment

Walks == steady' = [a \in Callers |-> Owed(a)]

Next == Steps(Callers) /\ Walks

Spec == Init /\ [][Next]_vars
--------------------------------------------------------------------------------
(* Properties.                                                                  *)

\* A walk of the notifier that ends has notified every subscription that was to
\* be notified all along, and none of them twice, whatever is created, patched,
\* deleted or expires beside it (NotifierDriver.post over the pages of list).
WalkNotifies ==
    \A a \in Callers : call[a].op = "walk" =>
        /\ call[a].pc = "item" /\ call[a].page = {} /\ call[a].marker = 0
           => steady[a] \subseteq call[a].got
        /\ steady[a] \cap call[a].twice = {}

\* A POST that answers 201 names a subscription whose subscriber was sent the
\* signed URL, even one that a failed or a websocket request created before.
Asked ==
    \A a \in Callers :
        call[a].pc = "done" /\ call[a].op = "post" /\ RequireConfirmation
        => call[a].i \in asked

\* On Redis every whole hash is in the sorted set of its queue, so that listings
\* reach it.
Listed ==
    store = "redis" =>
        \A i \in Ids : sub[i] # NoSub /\ sub[i].s # None => i \in ids[sub[i].s]

\* A subscription that was deleted or has expired does not come back, on MongoDB
\* and on Redis, under updates that had read it.
DeletedStaysGone ==
    [][store # "swift" =>
        \A i \in Ids \ fresh : sub[i] = NoSub => sub'[i] = NoSub \/ sub'[i].s = None]_vars

\* A walk of the notifier ends, while subscriptions come and go (the loop of
\* NotifierDriver.post runs until list returns no marker).
WalkEnds == \A a \in Callers : call[a].op = "walk" ~> call[a].op # "walk"
================================================================================
