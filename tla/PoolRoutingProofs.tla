--------------------------- MODULE PoolRoutingProofs --------------------------
(* Proofs about PoolRouting, for any processes, pools, weights and messages,  *)
(* any TTL of the caches, with or without virtual pool and shared cache.      *)
EXTENDS PoolRouting, TLAPS

\* A call in flight has an operation, and only a deletion reaches the steps of a
\* deletion.
CallSane(r) ==
    /\ r.pc # "idle" => r.op # "none"
    /\ r.pc \in {"purge", "deregister", "wipe", "forget"} => r.op = "delete"
    /\ r.pc \in {"set", "driver", "purge", "deregister", "wipe", "post"} => r.pool \in Ids

Basics == TypeOK /\ \A p \in Procs : CallSane(call[p])

\* The pool that a call routes its request to, once it has looked it up.
Routed(p) ==
    call[p].pc \in {"set", "driver", "post"} /\ call[p].pool \in Pools
        => cat = call[p].pool

\* While nobody has begun to delete the queue, every copy of a route is the
\* catalogue's: the routes of calls in flight, those in the caches and those that
\* led messages to a pool.
Routes ==
    /\ \A p \in Procs : call[p].op # "delete" /\ Routed(p)
    /\ \A k \in Keys : cache[k].pool \in Pools => cat = cache[k].pool
    /\ \A x \in Pools : store[x] # {} => cat = x

\* The inductive invariant under an SQL management store.
IInv == Basics /\ (~deleted => Routes)

-------------------------------------------------------------------------------
LEMMA CallFields ==
  ASSUME TypeOK, NEW p \in Procs
  PROVE  /\ call[p] \in Call /\ call[p].op \in {"none", "create", "delete", "post"}
         /\ call[p].pool \in Ids \cup {NoEntry} /\ call[p].virtual \in BOOLEAN
  BY DEF TypeOK, Call

LEMMA KeyType == ASSUME NEW p \in Procs PROVE Key(p) \in Keys
  BY DEF Key, Keys

LEMMA IdleType == Idle \in Call /\ CallSane(Idle)
  BY DEF Idle, Call, CallSane

\* A call that begins.
LEMMA FreshCall ==
  ASSUME NEW op \in {"create", "delete", "post"}, NEW pc \in {"select", "lookup"}
  PROVE  /\ [Idle EXCEPT !.op = op, !.pc = pc] \in Call
         /\ CallSane([Idle EXCEPT !.op = op, !.pc = pc])
         /\ [Idle EXCEPT !.op = op, !.pc = pc].op = op
         /\ [Idle EXCEPT !.op = op, !.pc = pc].pc = pc
<1>1. [Idle EXCEPT !.op = op, !.pc = pc] \in Call
  BY IdleType, Zenon DEF Call
<1>2. /\ [Idle EXCEPT !.op = op, !.pc = pc].op = op
      /\ [Idle EXCEPT !.op = op, !.pc = pc].pc = pc
  BY IdleType DEF Call
<1> QED
  BY <1>1, <1>2 DEF CallSane

\* A call that goes on, with its pool or with another.
Steps == {"insert", "lookup", "set", "driver", "mgt", "purge", "deregister", "wipe",
          "forget", "post"}
Targets == Ids \cup {NoEntry}

LEMMA MovedCall ==
  ASSUME TypeOK, NEW p \in Procs, NEW pc \in Steps
  PROVE  /\ [call[p] EXCEPT !.pc = pc] \in Call
         /\ [call[p] EXCEPT !.pc = pc].op = call[p].op
         /\ [call[p] EXCEPT !.pc = pc].pc = pc
         /\ [call[p] EXCEPT !.pc = pc].pool = call[p].pool
<1>1. call[p] \in Call
  BY CallFields
<1>2. pc \in {"idle", "select", "insert", "lookup", "set", "driver", "mgt",
              "purge", "deregister", "wipe", "forget", "post"}
  BY DEF Steps
<1>3. [call[p] EXCEPT !.pc = pc] \in Call
  BY <1>1, <1>2, Zenon DEF Call
<1> QED
  BY <1>1, <1>3 DEF Call

\* Writing the state of one call keeps the calls typed and sane.
LEMMA CallSet ==
  ASSUME Basics, NEW p \in Procs, NEW r \in Call, CallSane(r),
         call' = [call EXCEPT ![p] = r]
  PROVE  call' \in [Procs -> Call] /\ \A q \in Procs : CallSane(call'[q])
<1>1. call' \in [Procs -> Call]
  BY DEF Basics, TypeOK
<1>2. ASSUME NEW q \in Procs PROVE CallSane(call'[q])
  <2>1. CASE q = p
    BY <2>1 DEF Basics, TypeOK
  <2>2. CASE q # p
    BY <2>2 DEF Basics, TypeOK
  <2> QED BY <2>1, <2>2
<1> QED
  BY <1>1, <1>2

\* A call that becomes r leaves every route the catalogue's, when r's is and the
\* caches' and the messages' are; an entry is only made where there was none.
LEMMA CallStep ==
  ASSUME IInv, NEW p \in Procs, NEW r \in Call, CallSane(r),
         call' = [call EXCEPT ![p] = r],
         pools' = pools, mgt' \in BOOLEAN, cat' \in Ids \cup {NoEntry},
         deleted' \in BOOLEAN, deleted => deleted',
         cache' \in [Keys -> Cached \cup {Empty}], store' \in [Ids -> SUBSET Msgs],
         ~deleted' /\ ~deleted =>
             /\ cat' = cat \/ cat = NoEntry
             /\ r.op # "delete"
             /\ r.pc \in {"set", "driver", "post"} /\ r.pool \in Pools => cat' = r.pool
             /\ \A k \in Keys : cache'[k].pool \in Pools => cat' = cache'[k].pool
             /\ \A x \in Pools : store'[x] # {} => cat' = x
  PROVE  IInv'
<1>1. call' \in [Procs -> Call] /\ \A q \in Procs : CallSane(call'[q])
  BY CallSet, Zenon DEF IInv
<1>2. Basics'
  BY <1>1 DEF IInv, Basics, TypeOK, CallSane
<1>3. ASSUME ~deleted' PROVE Routes'
  <2>1. ~deleted /\ Routes
    BY <1>3 DEF IInv
  <2>2. ASSUME NEW q \in Procs PROVE call'[q].op # "delete" /\ Routed(q)'
    <3>1. CASE q = p
      <4>1. call'[q] = r
        BY <3>1 DEF IInv, Basics, TypeOK
      <4> QED BY <4>1, <2>1, <1>3 DEF Routed
    <3>2. CASE q # p
      <4>1. call'[q] = call[q]
        BY <3>2 DEF IInv, Basics, TypeOK
      <4> QED BY <4>1, <2>1, <1>3, PoolRoutingAssumption DEF Routed, Routes
    <3> QED BY <3>1, <3>2
  <2> QED
    BY <2>1, <2>2, <1>3 DEF Routes
<1> QED
  BY <1>2, <1>3 DEF IInv

-------------------------------------------------------------------------------
LEMMA InitIInv == Init => IInv
<1> SUFFICES ASSUME Init PROVE IInv
  OBVIOUS
<1>1. Basics
  BY PoolRoutingAssumption, IdleType, Zenon DEF Init, Basics, TypeOK
<1>2. Routes
  <2>1. \A p \in Procs : call[p].op # "delete" /\ Routed(p)
    BY DEF Init, Routed, Idle
  <2>2. \A k \in Keys : cache[k].pool \notin Pools
    BY PoolRoutingAssumption DEF Init, Empty
  <2> QED
    BY <2>1, <2>2 DEF Init, Routes, Ids
<1> QED
  BY <1>1, <1>2 DEF IInv

LEMMA DoneIInv ==
  ASSUME IInv, NEW p \in Procs, Done(p), mgt' \in BOOLEAN,
         UNCHANGED <<pools, cat, cache, store, deleted>>
  PROVE  IInv'
  BY IdleType, CallStep, Zenon DEF Done, Idle, IInv, Basics, TypeOK, Routes

LEMMA PoolsIInv ==
  ASSUME IInv, Sql, NEW x \in Pools, AddPool(x) \/ RemovePool(x)
  PROVE  IInv'
<1>1. Basics'
  BY Zenon DEF IInv, Basics, TypeOK, AddPool, RemovePool, CallSane
<1>2. ASSUME ~deleted' PROVE Routes'
  BY <1>2, Zenon DEF IInv, Basics, TypeOK, AddPool, RemovePool, Routes, Routed
<1> QED
  BY <1>1, <1>2 DEF IInv

LEMMA StartIInv ==
  ASSUME IInv, NEW p \in Procs,
         register(p) \/ \E op \in {"delete", "post"} : Start(p, op)
  PROVE  IInv'
<1>1. CASE register(p)
  <2> DEFINE pc == IF Mapped THEN "lookup" ELSE "select"
             r == [Idle EXCEPT !.op = "create", !.pc = pc]
  <2>1. pc \in {"select", "lookup"}
    OBVIOUS
  <2>2. r \in Call /\ CallSane(r) /\ r.op = "create" /\ r.pc = pc
    BY <2>1, FreshCall, Zenon
  <2>3. call' = [call EXCEPT ![p] = r]
    BY <1>1 DEF register
  <2> HIDE DEF r
  <2> QED
    BY <1>1, <2>1, <2>2, <2>3, CallStep, Zenon DEF register, control, IInv, Basics, TypeOK, Routes
<1>2. ASSUME NEW op \in {"delete", "post"}, Start(p, op) PROVE IInv'
  <2> DEFINE r == [Idle EXCEPT !.op = op, !.pc = "lookup"]
  <2>2. r \in Call /\ CallSane(r) /\ r.op = op /\ r.pc = "lookup"
    BY FreshCall, Zenon
  <2>3. call' = [call EXCEPT ![p] = r]
    BY <1>2 DEF Start
  <2> HIDE DEF r
  <2> QED
    BY <1>2, <2>2, <2>3, CallStep, ZenonT(30) DEF Start, control, IInv, Basics, TypeOK, Routes
<1> QED
  BY <1>1, <1>2

\* A call that goes on as it is, to a step that its operation allows.
LEMMA GotoIInv ==
  ASSUME IInv, NEW p \in Procs, mgt' \in BOOLEAN,
         NEW pc \in Steps, Goto(p, pc), call[p].op # "none",
         pc \in {"purge", "deregister", "wipe", "forget"} => call[p].op = "delete",
         pc \in {"set", "driver", "purge", "deregister", "wipe", "post"}
            => call[p].pool \in Ids,
         ~deleted /\ pc \in {"set", "driver", "post"} /\ call[p].pool \in Pools
            => cat = call[p].pool,
         UNCHANGED <<pools, cat, cache, store, deleted>>
  PROVE  IInv'
<1> DEFINE r == [call[p] EXCEPT !.pc = pc]
<1>1. r \in Call /\ r.op = call[p].op /\ r.pc = pc /\ r.pool = call[p].pool
  <2> TypeOK
    BY DEF IInv, Basics
  <2> QED
    BY MovedCall, Zenon
<1>2. CallSane(r)
  BY <1>1 DEF CallSane
<1>3. call' = [call EXCEPT ![p] = r]
  BY DEF Goto
<1>4. ~deleted => r.op # "delete"
  BY <1>1 DEF IInv, Routes
<1> HIDE DEF r
<1> QED
  BY <1>1, <1>2, <1>3, <1>4, CallStep, Zenon DEF IInv, Basics, TypeOK, Routes

\* A call that goes on to another step with another pool.
LEMMA RouteIInv ==
  ASSUME IInv, NEW p \in Procs, NEW pool \in Targets,
         NEW pc \in Steps \ {"purge", "deregister", "wipe", "forget", "post"},
         call' = [call EXCEPT ![p] = [call[p] EXCEPT !.pc = pc, !.pool = pool]],
         call[p].op # "none",
         pc \in {"set", "driver"} => pool \in Ids,
         ~deleted /\ pc \in {"set", "driver"} /\ pool \in Pools => cat = pool,
         UNCHANGED <<pools, cat, mgt, cache, store, deleted>>
  PROVE  IInv'
<1> DEFINE r == [call[p] EXCEPT !.pc = pc, !.pool = pool]
<1>1. r \in Call /\ r.op = call[p].op /\ r.pc = pc /\ r.pool = pool
  <2>1. TypeOK
    BY DEF IInv, Basics
  <2>2. call[p] \in Call
    BY <2>1, CallFields
  <2>3. pc \in {"idle", "select", "insert", "lookup", "set", "driver", "mgt",
                "purge", "deregister", "wipe", "forget", "post"}
    BY DEF Steps
  <2>4. r \in Call
    BY <2>2, <2>3, Zenon DEF Call, Targets
  <2> QED
    BY <2>2, <2>4 DEF Call
<1>2. CallSane(r)
  BY <1>1 DEF CallSane
<1>4. ~deleted => r.op # "delete"
  BY <1>1 DEF IInv, Routes
<1>5. call' = [call EXCEPT ![p] = r]
  OBVIOUS
<1> HIDE DEF r
<1> QED
  BY <1>1, <1>2, <1>4, <1>5, CallStep, Zenon DEF IInv, Basics, TypeOK, Routes

LEMMA SelectIInv ==
  ASSUME IInv, NEW p \in Procs, Select(p)
  PROVE  IInv'
<1>1. call[p].op # "none"
  BY DEF Select, IInv, Basics, CallSane
<1>2. PICK pc \in {"insert", "lookup"}, pool \in Targets :
         call' = [call EXCEPT ![p].pc = pc, ![p].pool = pool]
  BY DEF Select, Weighted, Eligible, IInv, Basics, TypeOK, Ids, Targets
<1>3. call' = [call EXCEPT ![p] = [call[p] EXCEPT !.pc = pc, !.pool = pool]]
  BY <1>2, Zenon DEF IInv, Basics, TypeOK, Call
<1> QED
  BY <1>1, <1>3, RouteIInv, Zenon DEF Select, control, Steps

LEMMA InsertIInv ==
  ASSUME IInv, Sql, NEW p \in Procs, Insert(p)
  PROVE  IInv'
<1>1. CASE cat # NoEntry
  <2>1. Done(p) /\ UNCHANGED cat
    BY <1>1 DEF Insert
  <2> QED
    BY <2>1, DoneIInv DEF Insert, IInv, Basics, TypeOK
<1>2. CASE cat = NoEntry
  <2> DEFINE r == [call[p] EXCEPT !.pc = "lookup", !.pool = NoEntry]
  <2>1. /\ call' = [call EXCEPT ![p] = r]
        /\ cat' = cat \/ cat' = call[p].pool
    BY <1>2 DEF Insert
  <2>2. r \in Call /\ r.op = call[p].op /\ r.pc = "lookup"
    <3>1. call[p] \in Call
      BY CallFields DEF IInv, Basics
    <3>2. r \in Call
      BY <3>1, Zenon DEF Call
    <3> QED
      BY <3>1, <3>2 DEF Call
  <2>3. call[p].pool \in Ids \cup {NoEntry} /\ call[p].op # "none"
    BY CallFields DEF IInv, Basics, Insert, CallSane
  <2>4. CallSane(r)
    BY <2>2, <2>3 DEF CallSane
  <2>5. ~deleted =>
             /\ r.op # "delete"
             /\ \A k \in Keys : cache[k].pool \notin Pools
             /\ \A x \in Pools : store[x] = {}
    BY <1>2, <2>2, PoolRoutingAssumption DEF IInv, Routes
  <2> HIDE DEF r
  <2> QED
    BY <1>2, <2>1, <2>2, <2>3, <2>4, <2>5, CallStep, Zenon DEF Insert, IInv, Basics, TypeOK
<1> QED
  BY <1>1, <1>2

LEMMA LookupIInv ==
  ASSUME IInv, NEW p \in Procs, Lookup(p)
  PROVE  IInv'
<1>1. call[p].op # "none" /\ TypeOK /\ Key(p) \in Keys
  BY KeyType DEF Lookup, IInv, Basics, CallSane
<1>2. CASE cache[Key(p)] # Empty
  <2>1. cache[Key(p)].pool \in Ids
    BY <1>1, <1>2 DEF TypeOK, Cached
  <2>2. ~deleted /\ cache[Key(p)].pool \in Pools => cat = cache[Key(p)].pool
    BY <1>1 DEF IInv, Routes
  <2> DEFINE pool == cache[Key(p)].pool
  <2>3. call' = [call EXCEPT ![p] = [call[p] EXCEPT !.pc = "driver", !.pool = pool]]
    BY <1>2 DEF Lookup
  <2> HIDE DEF pool
  <2> QED
    BY <1>1, <2>1, <2>2, <2>3, RouteIInv, Zenon DEF Lookup, control, Steps, Targets, pool
<1>3. CASE cache[Key(p)] = Empty /\ Mapped
  <2>1. call' = [call EXCEPT ![p] = [call[p] EXCEPT !.pc = "set", !.pool = cat]]
    BY <1>3 DEF Lookup, Load
  <2>2. cat \in Ids
    BY <1>1, <1>3 DEF TypeOK, Mapped
  <2> QED
    BY <1>1, <2>1, <2>2, RouteIInv, Zenon DEF Lookup, control, Steps, Targets
<1>4. CASE cache[Key(p)] = Empty /\ ~Mapped /\ Virtual
  <2> DEFINE r == [call[p] EXCEPT !.pc = "driver", !.pool = Default, !.virtual = TRUE]
  <2>1. call' = [call EXCEPT ![p] = r]
    BY <1>4 DEF Lookup, Load, get_default_pool
  <2>2. r \in Call /\ r.op = call[p].op /\ r.pc = "driver" /\ r.pool = Default
    <3>1. call[p] \in Call
      BY <1>1, CallFields
    <3>2. Default \in Ids \cup {NoEntry}
      BY DEF Ids
    <3>3. r \in Call
      BY <3>1, <3>2, Zenon DEF Call
    <3> QED
      BY <3>1, <3>3 DEF Call
  <2>3. CallSane(r) /\ r.pool \notin Pools
    BY <1>1, <2>2, PoolRoutingAssumption DEF CallSane, Ids
  <2>4. ~deleted => r.op # "delete"
    BY <2>2 DEF IInv, Routes
  <2> HIDE DEF r
  <2> QED
    BY <2>1, <2>2, <2>3, <2>4, CallStep, Zenon DEF Lookup, control, IInv, Basics, TypeOK, Routes
<1>5. CASE cache[Key(p)] = Empty /\ ~Mapped /\ ~Virtual
  <2>1. NoTarget(p)
    BY <1>5 DEF Lookup, Load, get_default_pool
  <2>2. CASE call[p].op = "delete"
    BY <1>1, <2>1, <2>2, GotoIInv DEF NoTarget, Lookup, control, Steps, TypeOK
  <2>3. CASE call[p].op # "delete"
    BY <1>1, <2>1, <2>3, DoneIInv DEF NoTarget, Lookup, control, TypeOK
  <2> QED
    BY <2>2, <2>3
<1> QED
  BY <1>2, <1>3, <1>4, <1>5

LEMMA GetDriverIInv ==
  ASSUME IInv, NEW p \in Procs, GetDriver(p)
  PROVE  IInv'
<1>1. /\ TypeOK /\ call[p].op \in {"create", "delete", "post"} /\ call[p].pool \in Ids
      /\ ~deleted /\ call[p].pool \in Pools => cat = call[p].pool
  BY CallFields DEF GetDriver, IInv, Basics, CallSane, Routes, Routed
<1>2. CASE InitFails(p) /\ Done(p)
  BY <1>1, <1>2, DoneIInv DEF GetDriver, control, TypeOK
<1>3. CASE call[p].op = "create" /\ Goto(p, "mgt")
  BY <1>1, <1>3, GotoIInv DEF GetDriver, control, Steps, TypeOK
<1>4. CASE call[p].op = "delete" /\ Goto(p, "purge")
  BY <1>1, <1>4, GotoIInv DEF GetDriver, control, Steps, TypeOK
<1>5. CASE call[p].op = "post" /\ Goto(p, "post")
  BY <1>1, <1>5, GotoIInv DEF GetDriver, control, Steps, TypeOK
<1> QED
  BY <1>1, <1>2, <1>3, <1>4, <1>5, Zenon DEF GetDriver

\* A cache that has one entry written or removed is still a cache.
LEMMA CacheSetIInv ==
  ASSUME IInv, NEW p \in Procs, CacheSet(p)
  PROVE  IInv'
<1>1. /\ TypeOK /\ Key(p) \in Keys
      /\ call[p].op # "none" /\ call[p].pool \in Ids
      /\ ~deleted => call[p].op # "delete"
      /\ ~deleted /\ call[p].pool \in Pools => cat = call[p].pool
  BY KeyType DEF CacheSet, IInv, Basics, CallSane, Routes, Routed
<1> DEFINE r == [call[p] EXCEPT !.pc = "driver"]
<1>2. r \in Call /\ r.op = call[p].op /\ r.pc = "driver" /\ r.pool = call[p].pool
  BY <1>1, MovedCall, ZenonT(30) DEF Steps
<1>3. CallSane(r)
  BY <1>1, <1>2 DEF CallSane
<1>4. call' = [call EXCEPT ![p] = r]
  BY DEF CacheSet, Goto
<1> DEFINE e == [pool |-> call[p].pool, age |-> 0]
<1>5. e \in Cached /\ e.pool = call[p].pool
  BY <1>1, PoolRoutingAssumption DEF Cached
<1>6. cache' = [cache EXCEPT ![Key(p)] = e]
  BY DEF CacheSet
<1> HIDE DEF r, e
<1>7. cache' \in [Keys -> Cached \cup {Empty}]
  BY <1>1, <1>5, <1>6 DEF TypeOK
<1>8. ~deleted => \A k \in Keys : cache'[k].pool \in Pools => cat = cache'[k].pool
  BY <1>1, <1>5, <1>6 DEF TypeOK, IInv, Routes
<1>9. ~deleted => \A x \in Pools : store[x] # {} => cat = x
  BY DEF IInv, Routes
<1> QED
  BY <1>1, <1>2, <1>3, <1>4, <1>7, <1>8, <1>9, CallStep, Zenon DEF CacheSet, control, TypeOK

LEMMA PostIInv ==
  ASSUME IInv, NEW p \in Procs, Post(p)
  PROVE  IInv'
<1>1. /\ TypeOK /\ call[p].pool \in Ids
      /\ ~deleted /\ call[p].pool \in Pools => cat = call[p].pool
  BY DEF Post, IInv, Basics, CallSane, Routes, Routed
<1>2. /\ store' \in [Ids -> SUBSET Msgs]
      /\ \A x \in Ids : x # call[p].pool => store'[x] = store[x]
  BY <1>1 DEF Post, TypeOK
<1>3. ~deleted => \A x \in Pools : store'[x] # {} => cat = x
  BY <1>1, <1>2 DEF IInv, Routes, Ids
<1> QED
  BY <1>1, <1>2, <1>3, IdleType, CallStep, Zenon
     DEF Post, Done, control, Idle, IInv, TypeOK, Routes

\* The steps of a deletion run after it has begun.
LEMMA DeleteIInv ==
  ASSUME IInv, NEW p \in Procs, Purge(p) \/ Deregister(p) \/ Wipe(p)
  PROVE  IInv'
<1>1. /\ TypeOK /\ Key(p) \in Keys
      /\ call[p].op = "delete" /\ call[p].pool \in Ids /\ deleted
  BY KeyType DEF Purge, Deregister, Wipe, IInv, Basics, CallSane, Routes
<1>2. PICK pc \in {"deregister", "wipe", "forget"} : Goto(p, pc)
  BY DEF Purge, Deregister, Wipe
<1> DEFINE r == [call[p] EXCEPT !.pc = pc]
<1>3. r \in Call /\ r.op = call[p].op /\ r.pc = pc /\ r.pool = call[p].pool
  <2>1. TypeOK /\ pc \in Steps
    BY <1>1 DEF Steps
  <2> QED
    BY <2>1, MovedCall, Zenon
<1>4. CallSane(r)
  BY <1>1, <1>3 DEF CallSane
<1>5. call' = [call EXCEPT ![p] = r]
  BY <1>2 DEF Goto
<1>6. /\ pools' = pools /\ mgt' = mgt /\ deleted'
      /\ cat' \in Ids \cup {NoEntry}
      /\ cache' \in [Keys -> Cached \cup {Empty}]
      /\ store' \in [Ids -> SUBSET Msgs]
  BY <1>1, Zenon DEF Purge, Deregister, Wipe, control, TypeOK
<1> HIDE DEF r
<1> QED
  BY <1>1, <1>3, <1>4, <1>5, <1>6, CallStep, Zenon DEF TypeOK

LEMMA TickIInv ==
  ASSUME IInv, Tick
  PROVE  IInv'
<1>1. ASSUME NEW k \in Keys
      PROVE  /\ cache'[k] \in Cached \cup {Empty}
             /\ cache'[k] = Empty \/ cache'[k].pool = cache[k].pool
  <2>1. cache[k] \in Cached \cup {Empty}
    BY DEF IInv, Basics, TypeOK
  <2>2. CASE cache[k] = Empty \/ cache[k].age = CacheTTL
    BY <2>2 DEF Tick
  <2>3. CASE ~(cache[k] = Empty \/ cache[k].age = CacheTTL)
    <3>1. cache'[k] = [cache[k] EXCEPT !.age = cache[k].age + 1]
      BY <2>3 DEF Tick
    <3>2. cache[k] \in Cached
      BY <2>1, <2>3
    <3>3. cache[k].age + 1 \in 0..CacheTTL
      BY <3>2, <2>3, PoolRoutingAssumption DEF Cached
    <3> QED
      BY <3>1, <3>2, <3>3 DEF Cached
  <2> QED
    BY <2>2, <2>3
<1>2. cache' \in [Keys -> Cached \cup {Empty}]
  BY <1>1 DEF Tick
<1>3. Basics'
  BY <1>2 DEF Tick, control, IInv, Basics, TypeOK, CallSane
<1>4. ASSUME ~deleted' PROVE Routes'
  <2>1. Routes
    BY <1>4 DEF Tick, IInv
  <2>2. \A k \in Keys : cache'[k].pool \in Pools => cat = cache'[k].pool
    BY <2>1, <1>1, PoolRoutingAssumption DEF Routes, Empty
  <2> QED
    BY <2>1, <2>2 DEF Tick, control, Routes, Routed
<1> QED
  BY <1>3, <1>4 DEF IInv

\* Every step keeps the routes the catalogue's.
LEMMA NextIInv == Sql /\ IInv /\ [Next]_vars => IInv'
<1> SUFFICES ASSUME Sql, IInv, [Next]_vars PROVE IInv'
  OBVIOUS
<1>1. ASSUME NEW x \in Pools, AddPool(x) \/ RemovePool(x) PROVE IInv'
  BY <1>1, PoolsIInv
<1>2. ASSUME NEW p \in Procs,
             \/ register(p)
             \/ QueueOperation(p) \/ MessageOperation(p)
             \/ ClaimOperation(p) \/ SubscriptionOperation(p)
      PROVE  IInv'
  BY <1>2, StartIInv
     DEF QueueOperation, MessageOperation, ClaimOperation, SubscriptionOperation
<1>3. ASSUME NEW p \in Procs, Step(p) PROVE IInv'
  <2>1. CASE MgtCreate(p) \/ MgtDelete(p)
    BY <2>1, DoneIInv, Zenon DEF MgtCreate, MgtDelete
  <2> QED
    BY <1>3, <2>1, SelectIInv, InsertIInv, LookupIInv, CacheSetIInv, GetDriverIInv,
       PostIInv, DeleteIInv DEF Step
<1>4. ASSUME NEW p \in Procs, Crash(p) PROVE IInv'
  BY <1>4, DoneIInv DEF Crash, control, IInv, Basics, TypeOK
<1>5. CASE Tick
  BY <1>5, TickIInv
<1>6. CASE UNCHANGED vars
  <2> USE <1>6 DEF vars, control
  <2>1. Basics'
    BY DEF IInv, Basics, TypeOK, CallSane
  <2>2. ~deleted' => Routes'
    BY DEF IInv, Routes, Routed
  <2> QED
    BY <2>1, <2>2 DEF IInv
<1> QED
  BY <1>1, <1>2, <1>3, <1>4, <1>5, <1>6 DEF Next

-------------------------------------------------------------------------------
\* With an SQL management store, the state has its types and every message that
\* was stored in a pool is where the catalogue routes the queue until the queue or
\* its pool is deleted: whatever the races of creations, lookups and caches.
THEOREM Routing == Sql => (Spec => [](TypeOK /\ StoredWhereRouted))
<1> SUFFICES ASSUME Sql PROVE Spec => [](TypeOK /\ StoredWhereRouted)
  OBVIOUS
<1>1. Init => IInv
  BY InitIInv
<1>2. IInv /\ [Next]_vars => IInv'
  BY NextIInv
<1>3. IInv => TypeOK /\ StoredWhereRouted
  BY DEF IInv, Basics, Routes, StoredWhereRouted
<1> QED
  BY <1>1, <1>2, <1>3, PTL DEF Spec

\* With an SQL management store no step replaces the catalogue entry of a queue by
\* another, two creations that both found none included.
THEOREM Unmoved == Sql => (Spec => NotRemapped)
<1> SUFFICES ASSUME Sql PROVE Spec => NotRemapped
  OBVIOUS
<1>1. [Next]_vars => [cat # NoEntry /\ cat' # NoEntry => cat' = cat]_cat
  <2> SUFFICES ASSUME Next, cat # NoEntry, cat' # NoEntry PROVE cat' = cat
    BY DEF vars, control
  <2>1. ASSUME NEW x \in Pools, AddPool(x) \/ RemovePool(x) PROVE cat' = cat
    BY <2>1 DEF AddPool, RemovePool
  <2>2. ASSUME NEW p \in Procs, Step(p) PROVE cat' = cat
    BY <2>2, Zenon DEF Step, Select, Insert, Lookup, CacheSet, GetDriver, MgtCreate, Post, Purge,
                Deregister, Wipe, MgtDelete, control
  <2> QED
    BY <2>1, <2>2
       DEF Next, register, QueueOperation, MessageOperation, ClaimOperation,
           SubscriptionOperation, Start, Crash, Tick, control
<1> QED
  BY <1>1, PTL DEF Spec, NotRemapped
===============================================================================
