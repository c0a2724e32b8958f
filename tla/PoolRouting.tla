------------------------------ MODULE PoolRouting -----------------------------
(* Routing of a queue to a storage pool (storage/pooling.py), with the        *)
(* catalogue and queue controllers of the management store, the caches of     *)
(* common/decorators.py.  One queue, several API processes; every request to  *)
(* the management store, a pool or a cache is a step.                         *)
EXTENDS Integers, FiniteSetsExt

CONSTANTS
    Procs,      \* API processes
    Pools,      \* pool names, in the order of their listing
    Weight,     \* the weight of each pool
    Default,    \* the id None: the virtual pool
    NoEntry,    \* no catalogue entry, no cache entry, no pool
    Msgs,       \* messages that clients post
    Virtual,    \* enable_virtual_pool
    Shared,     \* whether the processes share one cache (memcached)
    Sql,        \* whether the management store is SQL, or MongoDB
    CacheTTL    \* _POOL_CACHE_TTL

ASSUME PoolRoutingAssumption ==
    /\ Default \notin Pools /\ NoEntry \notin Pools \cup {Default}
    /\ Virtual \in BOOLEAN /\ Shared \in BOOLEAN /\ Sql \in BOOLEAN
    /\ Pools \subseteq Nat /\ Weight \in [Pools -> Nat] /\ CacheTTL \in Nat

VARIABLES
    pools,     \* the registered pools
    cat,       \* the queue's catalogue entry
    mgt,       \* whether the management store has the queue
    cache,     \* pool ids cached, and for how long
    call,      \* the request each process is serving
    store,     \* messages in each pool
    deleted    \* whether a deletion of the queue has begun, or its entry went
               \* with its pool

control == <<pools, cat, mgt>>
vars == <<control, cache, call, store, deleted>>

Ids == Pools \cup {Default}
Keys == IF Shared THEN {"all"} ELSE Procs
Key(p) == IF Shared THEN "all" ELSE p

Call == [op : {"none", "create", "delete", "post"},
         pc : {"idle", "select", "insert", "lookup", "set", "driver", "mgt",
               "purge", "deregister", "wipe", "forget", "post"},
         pool : Ids \cup {NoEntry},
         virtual : BOOLEAN]
Idle == [op |-> "none", pc |-> "idle", pool |-> NoEntry, virtual |-> FALSE]

Cached == [pool : Ids, age : 0..CacheTTL]
Empty == [pool |-> NoEntry, age |-> 0]

TypeOK ==
    /\ pools \subseteq Pools
    /\ cat \in Ids \cup {NoEntry}
    /\ mgt \in BOOLEAN
    /\ cache \in [Keys -> Cached \cup {Empty}]
    /\ call \in [Procs -> Call]
    /\ store \in [Ids -> SUBSET Msgs]
    /\ deleted \in BOOLEAN

Init ==
    /\ pools = {}
    /\ cat = NoEntry
    /\ mgt = FALSE
    /\ cache = [k \in Keys |-> Empty]
    /\ call = [p \in Procs |-> Idle]
    /\ store = [x \in Ids |-> {}]
    /\ deleted = FALSE

-------------------------------------------------------------------------------
\* An operator registers a pool, or removes one.

AddPool(x) ==
    /\ x \notin pools
    /\ pools' = pools \cup {x}
    /\ UNCHANGED <<cat, mgt, cache, call, store, deleted>>

\* SQL deletes the catalogue entries of a pool with the pool.
RemovePool(x) ==
    /\ x \in pools
    /\ pools' = pools \ {x}
    /\ cat' = IF Sql /\ cat = x THEN NoEntry ELSE cat
    /\ deleted' = (deleted \/ cat' # cat)
    /\ UNCHANGED <<mgt, cache, call, store>>

-------------------------------------------------------------------------------
\* The steps of a request.

Goto(p, pc) == call' = [call EXCEPT ![p] = [call[p] EXCEPT !.pc = pc]]
Done(p) == call' = [call EXCEPT ![p] = Idle]

\* select.weighted(): the pools that have a weight share the numbers from 0 to
\* their total; the pool whose interval holds the number drawn is selected.
Eligible(S) == {x \in S : Weight[x] > 0}
Total(S) == MapThenSumSet(LAMBDA x : Weight[x], Eligible(S))

\* Mutant: the upper end belongs to the interval.
IntervalClosed(x, S) ==
    LET upper == Total({y \in S : y <= x}) IN (upper - Weight[x])..upper

Interval(x, S) ==
    LET upper == Total({y \in S : y <= x}) IN (upper - Weight[x])..(upper - 1)

Weighted(S) == {x \in Eligible(S) : \E n \in 0..(Total(S) - 1) : n \in Interval(x, S)}

\* The catalogue has the queue.
Mapped == cat # NoEntry

\* register() goes on only when the catalogue has no entry.
register(p) ==
    /\ call[p].pc = "idle"
    /\ call' = [call EXCEPT ![p] = [Idle EXCEPT !.op = "create",
                                        !.pc = IF Mapped THEN "lookup" ELSE "select"]]
    /\ UNCHANGED <<control, cache, store, deleted>>

\* A pool is drawn.  A flavor whose pools have no weight registers the pool None;
\* without flavor, no pool means the virtual pool, not registered, or NoPoolFound.
Select(p) ==
    /\ call[p].pc = "select"
    /\ LET go(pc, pool) == call' = [call EXCEPT ![p].pc = pc, ![p].pool = pool]
       IN  \/ \E x \in Weighted(pools) : go("insert", x)
           \/ Eligible(pools) = {} /\ go("insert", Default)
           \/ Eligible(pools) = {} /\ go("lookup", NoEntry)
    /\ UNCHANGED <<control, cache, store, deleted>>

\* Mutant: the queue is registered whether the catalogue has it or not.
InsertAlways(p) ==
    /\ call[p].pc = "insert"
    /\ cat' = call[p].pool
    /\ call' = [call EXCEPT ![p] = [call[p] EXCEPT !.pc = "lookup", !.pool = NoEntry]]
    /\ UNCHANGED <<pools, mgt, cache, store, deleted>>

\* catalogue.insert(): MongoDB overwrites; SQL fails on an entry that came
\* meanwhile and makes none for a pool that was removed meanwhile.
Insert(p) ==
    /\ call[p].pc = "insert"
    /\ IF Sql /\ cat # NoEntry
       THEN Done(p) /\ UNCHANGED cat
       ELSE /\ cat' = IF Sql /\ call[p].pool \in Pools \ pools THEN cat ELSE call[p].pool
            /\ call' = [call EXCEPT ![p] = [call[p] EXCEPT !.pc = "lookup", !.pool = NoEntry]]
    /\ UNCHANGED <<pools, mgt, cache, store, deleted>>

\* The other operations on a queue first look its pool up.
Start(p, op) ==
    /\ call[p].pc = "idle"
    /\ call' = [call EXCEPT ![p] = [Idle EXCEPT !.op = op, !.pc = "lookup"]]
    /\ deleted' = (deleted \/ op = "delete")
    /\ UNCHANGED <<control, cache, store>>

QueueOperation(p) == \E op \in {"delete", "post"} : Start(p, op)
MessageOperation(p) == Start(p, "post")
ClaimOperation(p) == Start(p, "post")
SubscriptionOperation(p) == Start(p, "post")

\* get_*_controller() without a pool: the operation does nothing, but a deletion
\* goes on with the management store.
NoTarget(p) == IF call[p].op = "delete" THEN Goto(p, "forget") ELSE Done(p)

\* A queue that is not mapped is in the virtual pool, or nowhere.
get_default_pool(p) ==
    CASE Virtual ->
           call' = [call EXCEPT ![p] = [call[p] EXCEPT !.pc = "driver", !.pool = Default,
                                                       !.virtual = TRUE]]
      [] OTHER -> NoTarget(p)

\* _pool_id() after a cache miss.
Load(p) ==
    IF Mapped
    THEN call' = [call EXCEPT ![p] = [call[p] EXCEPT !.pc = "set", !.pool = cat]]
    ELSE get_default_pool(p)

\* Mutant: a hit keeps the entry alive.
LookupSliding(p) ==
    /\ call[p].pc = "lookup"
    /\ IF cache[Key(p)] # Empty
       THEN /\ call' = [call EXCEPT ![p] = [call[p] EXCEPT !.pc = "driver",
                                                 !.pool = cache[Key(p)].pool]]
            /\ cache' = [cache EXCEPT ![Key(p)].age = 0]
       ELSE Load(p) /\ UNCHANGED cache
    /\ UNCHANGED <<control, store, deleted>>

\* lookup(): the pool's id from the cache, or from the catalogue.
Lookup(p) ==
    /\ call[p].pc = "lookup"
    /\ IF cache[Key(p)] # Empty
       THEN call' = [call EXCEPT ![p] = [call[p] EXCEPT !.pc = "driver",
                                              !.pool = cache[Key(p)].pool]]
       ELSE Load(p)
    /\ UNCHANGED <<control, cache, store, deleted>>

CacheSet(p) ==
    /\ call[p].pc = "set"
    /\ cache' = [cache EXCEPT ![Key(p)] = [pool |-> call[p].pool, age |-> 0]]
    /\ Goto(p, "driver")
    /\ UNCHANGED <<control, store, deleted>>

\* _init_driver() fails on a pool that is not registered, and on the pool None
\* without the configuration of the virtual pool.
InitFails(p) ==
    \/ call[p].pool \in Pools \ pools
    \/ call[p].pool = Default /\ ~call[p].virtual

\* get_driver(): a process makes a driver from the pool's registration and keeps
\* it for ever, so it may have one of a pool that was removed since.
GetDriver(p) ==
    /\ call[p].pc = "driver"
    /\ \/ CASE call[p].op = "create" -> Goto(p, "mgt")
            [] call[p].op = "delete" -> Goto(p, "purge")
            [] call[p].op = "post" -> Goto(p, "post")
       \/ InitFails(p) /\ Done(p)
    /\ UNCHANGED <<control, cache, store, deleted>>

\* _create() of the management store: an existing queue stays as it is.
MgtCreate(p) ==
    /\ call[p].pc = "mgt"
    /\ mgt' = TRUE
    /\ Done(p)
    /\ UNCHANGED <<pools, cat, cache, store, deleted>>

\* The pool's controller does what was asked: it posts, or runs any other
\* operation on the messages, claims or subscriptions of the queue.
Post(p) ==
    /\ call[p].pc = "post"
    /\ \/ \E m \in Msgs \ UNION {store[x] : x \in Ids} :
             store' = [store EXCEPT ![call[p].pool] = @ \cup {m}]
       \/ UNCHANGED store
    /\ Done(p)
    /\ UNCHANGED <<control, cache, deleted>>

-------------------------------------------------------------------------------
\* _delete(): the cache entry, the catalogue entry, the queue's messages in the
\* pool and the queue itself, in this order.

Purge(p) ==
    /\ call[p].pc = "purge"
    /\ cache' = [cache EXCEPT ![Key(p)] = Empty]
    /\ Goto(p, "deregister")
    /\ UNCHANGED <<control, store, deleted>>

Deregister(p) ==
    /\ call[p].pc = "deregister"
    /\ cat' = NoEntry
    /\ Goto(p, "wipe")
    /\ UNCHANGED <<pools, mgt, cache, store, deleted>>

Wipe(p) ==
    /\ call[p].pc = "wipe"
    /\ store' = [store EXCEPT ![call[p].pool] = {}]
    /\ Goto(p, "forget")
    /\ UNCHANGED <<control, cache, deleted>>

MgtDelete(p) ==
    /\ call[p].pc = "forget"
    /\ mgt' = FALSE
    /\ Done(p)
    /\ UNCHANGED <<pools, cat, cache, store, deleted>>

-------------------------------------------------------------------------------
\* A process dies, with what it was doing and its drivers.
Crash(p) ==
    /\ call[p] # Idle
    /\ Done(p)
    /\ UNCHANGED <<control, cache, store, deleted>>

\* A second passes; an entry older than its TTL is no value.
Tick ==
    /\ cache' = [k \in Keys |->
                    IF cache[k] = Empty \/ cache[k].age = CacheTTL
                    THEN Empty ELSE [cache[k] EXCEPT !.age = @ + 1]]
    /\ UNCHANGED <<control, call, store, deleted>>

Step(p) ==
    \/ Select(p) \/ Insert(p) \/ Lookup(p) \/ CacheSet(p) \/ GetDriver(p)
    \/ MgtCreate(p) \/ Post(p)
    \/ Purge(p) \/ Deregister(p) \/ Wipe(p) \/ MgtDelete(p)

Next ==
    \/ \E x \in Pools : AddPool(x) \/ RemovePool(x)
    \/ \E p \in Procs :
          \/ register(p)
          \/ QueueOperation(p) \/ MessageOperation(p)
          \/ ClaimOperation(p) \/ SubscriptionOperation(p)
          \/ Step(p) \/ Crash(p)
    \/ Tick

Spec == Init /\ [][Next]_vars

\* Time passes; a request that is served may stop.
FairSpec == Spec /\ WF_cache(Tick)

-------------------------------------------------------------------------------
\* A registered queue stays in its pool until it is deleted, whatever other
\* processes create or cache it and whatever happens to the pools
\* (Catalog.register(): "only register a queue if the entry doesn't exist").
NotRemapped == [][cat # NoEntry /\ cat' # NoEntry => cat' = cat]_cat

\* Every number that can be drawn selects one pool, whichever pools are
\* registered (select.weighted()).
WeightedShare ==
    \A n \in 0..(Total(pools) - 1) :
        Cardinality({x \in Eligible(pools) : n \in Interval(x, pools)}) = 1

\* Until the queue or its pool is deleted, a message that a post stored in a
\* real pool is in the pool the catalogue names, so any process finds it, with
\* or without cache (Catalog.lookup()).
StoredWhereRouted ==
    ~deleted => \A x \in Pools : store[x] # {} => cat = x

\* Once a queue is out of the catalogue for good no process goes on routing it
\* to its old pool: entries set late by lookups that overlapped the deletion
\* included (decorators.caches()).
RoutesForgotten ==
    <>[](cat = NoEntry) => <>[](\A k \in Keys : cache[k] = Empty)
===============================================================================
