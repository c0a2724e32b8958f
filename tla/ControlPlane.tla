------------------------------ MODULE ControlPlane ----------------------------
(* Pools and flavors: the WSGI resources of API v1, v1.1 and v2               *)
(* (transport/wsgi/v*/pools.py, flavors.py) over the pools and flavors         *)
(* controllers of MongoDB and SQL.  A request checks first and writes in a     *)
(* later step, so requests interleave.  Weights and options, which no check    *)
(* looks at, are left out.                                                     *)
EXTENDS Integers, FiniteSets

CONSTANTS
    Admins,    \* operators with a request at a time
    Pools,     \* pool names, in their order
    Flavors,   \* flavor names
    Groups,    \* pool groups
    Uris,      \* pool URIs
    Caps,      \* the capabilities of the driver a URI names
    None       \* None: no group, no record, a field that is not given

Record == [group : Groups \cup {None}, uri : Uris]
Patch == [group : Groups \cup {None}, uri : Uris \cup {None}]

ASSUME ControlPlaneAssumption ==
    /\ None \notin Groups \cup Uris \cup Record
    /\ Pools \subseteq Nat \ {0}

VARIABLES
    sql,       \* whether the management store is SQL, or MongoDB
    pools,     \* pool records
    flavors,   \* flavor records: the pool group
    rows,      \* SQL's PoolGroup rows
    call,      \* the request of each operator
    error,     \* the kind of the last request, if no handler caught its error
    calm       \* whether nobody wrote since the operator's deletion checked

vars == <<sql, pools, flavors, rows, call, error, calm>>

\* A request, or a walk through the pages of the pool listing: where it is, the
\* pools that have been there since it began, and the pools it was given.
Call == [pc : {"idle", "pool_create", "pool_remove", "pool_update", "pool_get",
               "flavor_write", "flavor_update", "flavor_get", "walk"},
         name : Pools \cup Flavors \cup {None},
         arg : Record \cup Patch \cup Groups \cup {None},
         v2 : BOOLEAN,
         marker : Pools \cup {0}, due : SUBSET Pools, got : SUBSET Pools]
Idle == [pc |-> "idle", name |-> None, arg |-> None, v2 |-> FALSE,
         marker |-> 0, due |-> {}, got |-> {}]

Kinds == {"none", "put1", "put", "delete1", "delete", "patch", "list", "get",
          "put_flavor1", "put_flavor", "delete_flavor", "patch_flavor"}

Stored == {x \in Pools : pools[x] # None}

TypeOK ==
    /\ sql \in BOOLEAN
    /\ pools \in [Pools -> Record \cup {None}]
    /\ flavors \in [Flavors -> Groups \cup {None}]
    /\ rows \subseteq Groups
    /\ call \in [Admins -> Call]
    /\ calm \in [Admins -> BOOLEAN]
    /\ error \in Kinds
    /\ \A x, y \in Stored : pools[x].uri = pools[y].uri => x = y

Init ==
    /\ sql \in BOOLEAN
    /\ pools = [x \in Pools |-> None]
    /\ flavors = [f \in Flavors |-> None]
    /\ rows = {}
    /\ call = [a \in Admins |-> Idle]
    /\ error = "none"
    /\ calm = [a \in Admins |-> FALSE]

-------------------------------------------------------------------------------
\* Reads.

InGroup(g) == {x \in Stored : pools[x].group = g}

\* capabilities() looks at one pool of the group; no pool, no capabilities.
Capable(g, uri) ==
    InGroup(g) = {} \/ \E x \in InGroup(g) : Caps[pools[x].uri] = Caps[uri]

-------------------------------------------------------------------------------
\* A request goes on to its next step, or ends with a reply.

Go(a, pc, name, arg, v2) ==
    /\ call' = [call EXCEPT ![a] = [Idle EXCEPT !.pc = pc, !.name = name, !.arg = arg, !.v2 = v2]]
    /\ calm' = [calm EXCEPT ![a] = pc = "pool_remove"]
    /\ UNCHANGED <<sql, pools, flavors, rows, error>>

End(a, op, status) ==
    /\ call' = [call EXCEPT ![a] = Idle]
    /\ error' = IF status = 500 THEN op ELSE "none"

Answer(a, op, status) ==
    /\ call[a].pc = "idle"
    /\ End(a, op, status)
    /\ UNCHANGED <<sql, pools, flavors, rows, calm>>

\* a writes: others' checks are stale, and its own request is over.
Disturb(a) == calm' = [b \in Admins |-> FALSE]

-------------------------------------------------------------------------------
\* on_put() of a pool: can_connect() and the capabilities of the group, then
\* the write.  v1 has no groups and does not catch the mismatch.

PutPoolV1(a) ==
    /\ call[a].pc = "idle"
    /\ \E x \in Pools, r \in Record :
          /\ r.group = None
          /\ \/ Answer(a, "put1", 400)
             \/ ~Capable(None, r.uri) /\ Answer(a, "put1", 500)
             \/ Capable(None, r.uri) /\ Go(a, "pool_create", x, r, FALSE)

PutPoolV11(a) ==
    /\ call[a].pc = "idle"
    /\ \E x \in Pools, r \in Record :
          \/ Answer(a, "put", 400)
          \/ ~Capable(r.group, r.uri) /\ Answer(a, "put", 400)
          \/ Capable(r.group, r.uri) /\ Go(a, "pool_create", x, r, FALSE)

PutPoolV2(a) ==
    /\ call[a].pc = "idle"
    /\ \E x \in Pools, r \in Record :
          \/ Answer(a, "put", 400)
          \/ ~Capable(r.group, r.uri) /\ Answer(a, "put", 400)
          \/ Capable(r.group, r.uri) /\ Go(a, "pool_create", x, r, FALSE)

TakenUri(x, uri) == \E y \in Stored \ {x} : pools[y].uri = uri

\* MongoDB: an upsert; another pool's URI is a duplicate key.
MongoCreate(a, x, r) ==
    /\ IF TakenUri(x, r.uri)
       THEN End(a, "put", 409) /\ UNCHANGED pools
       ELSE End(a, "put", 201) /\ pools' = [pools EXCEPT ![x] = r]
    /\ UNCHANGED rows

\* SQL: an insert, and on any duplicate an update that leaves a group of None
\* alone; the update of a pool that is not there is an unhandled error.
SqlCreate(a, x, r) ==
    /\ rows' = rows \cup ({r.group} \ {None})
    /\ CASE x \notin Stored /\ ~TakenUri(x, r.uri) ->
              End(a, "put", 201) /\ pools' = [pools EXCEPT ![x] = r]
         [] x \in Stored /\ ~TakenUri(x, r.uri) ->
              /\ End(a, "put", 201)
              /\ pools' = [pools EXCEPT ![x] =
                    IF r.group = None THEN [r EXCEPT !.group = pools[x].group] ELSE r]
         [] OTHER -> End(a, "put", 500) /\ UNCHANGED pools

PoolCreate(a) ==
    /\ call[a].pc = "pool_create"
    /\ IF sql THEN SqlCreate(a, call[a].name, call[a].arg)
              ELSE MongoCreate(a, call[a].name, call[a].arg)
    /\ Disturb(a)
    /\ UNCHANGED <<sql, flavors>>

-------------------------------------------------------------------------------
\* on_delete() of a pool.  MongoDB refuses when the pool is the last of a group
\* that a flavor uses; v1 does not catch the refusal.  SQL does not look.

\* Mutant: any pool left anywhere will do.
LastOfUsedGroupAny(x) ==
    /\ \E f \in Flavors : flavors[f] # None /\ flavors[f] = pools[x].group
    /\ Stored = {x}

LastOfUsedGroup(x) ==
    /\ \E f \in Flavors : flavors[f] # None /\ flavors[f] = pools[x].group
    /\ InGroup(pools[x].group) = {x}

DeletePool(a, op, x, refusal) ==
    CASE sql -> Go(a, "pool_remove", x, None, FALSE)
      [] ~sql /\ x \notin Stored -> Answer(a, op, 204)
      [] ~sql /\ x \in Stored /\ LastOfUsedGroup(x) -> Answer(a, op, refusal)
      [] OTHER -> Go(a, "pool_remove", x, None, FALSE)

DeletePoolV1(a) ==
    call[a].pc = "idle" /\ \E x \in Pools : DeletePool(a, "delete1", x, 500)

\* Mutant: the refusal is not caught.
DeletePoolV11Uncaught(a) ==
    call[a].pc = "idle" /\ \E x \in Pools : DeletePool(a, "delete", x, 500)

DeletePoolV11(a) ==
    call[a].pc = "idle" /\ \E x \in Pools : DeletePool(a, "delete", x, 403)

DeletePoolV2(a) ==
    call[a].pc = "idle" /\ \E x \in Pools : DeletePool(a, "delete", x, 403)

PoolRemove(a) ==
    /\ call[a].pc = "pool_remove"
    /\ pools' = [pools EXCEPT ![call[a].name] = None]
    /\ call' = [b \in Admins |-> IF b = a THEN Idle
                                 ELSE [call[b] EXCEPT !.due = @ \ {call[a].name}]]
    /\ error' = "none"
    /\ Disturb(a)
    /\ UNCHANGED <<sql, flavors, rows>>

-------------------------------------------------------------------------------
\* on_patch() of a pool: a new URI is checked against the pool's own group, a
\* new group against nothing.  The mismatch is not caught.  A patch of the
\* weight or the options alone has neither.

PatchPool(a, x, r, v2) ==
    CASE r.uri # None /\ x \notin Stored -> Answer(a, "patch", 404)
      [] r.uri # None /\ x \in Stored /\ ~Capable(pools[x].group, r.uri) ->
            Answer(a, "patch", 500)
      [] OTHER -> Go(a, "pool_update", x, r, v2)

PatchPoolV1(a) ==
    /\ call[a].pc = "idle"
    /\ \E x \in Pools, r \in Patch :
          /\ r.group = None
          /\ \/ PatchPool(a, x, r, FALSE)
             \/ Answer(a, "patch", 400)

PatchPoolV11(a) ==
    /\ call[a].pc = "idle"
    /\ \E x \in Pools, r \in Patch :
          \/ PatchPool(a, x, r, FALSE)
          \/ Answer(a, "patch", 400)

PatchPoolV2(a) ==
    /\ call[a].pc = "idle"
    /\ \E x \in Pools, r \in Patch :
          \/ PatchPool(a, x, r, TRUE)
          \/ Answer(a, "patch", 400)

Patched(old, r) ==
    [group  |-> IF r.group = None THEN old.group ELSE r.group,
     uri    |-> IF r.uri = None THEN old.uri ELSE r.uri]

\* Mutant: the update inserts a pool that is not there.
PoolUpdateUpsert(a) ==
    LET x == call[a].name
        r == call[a].arg
    IN  /\ call[a].pc = "pool_update"
        /\ IF r.uri = None \/ TakenUri(x, r.uri)
           THEN UNCHANGED pools
           ELSE pools' = [pools EXCEPT ![x] = r]
        /\ End(a, "patch", 200)
        /\ Disturb(a)
        /\ UNCHANGED <<sql, flavors, rows>>

\* _update(): only the fields given, and only of a pool that is there.  v2 then
\* reads the pool it answers with.
PoolUpdate(a) ==
    LET x == call[a].name
        r == call[a].arg
    IN  /\ call[a].pc = "pool_update"
        /\ rows' = IF sql THEN rows \cup ({r.group} \ {None}) ELSE rows
        /\ CASE x \notin Stored -> End(a, "patch", 404) /\ UNCHANGED pools
             [] x \in Stored /\ r.uri # None /\ TakenUri(x, r.uri) ->
                   End(a, "patch", 500) /\ UNCHANGED pools
             [] OTHER ->
                   /\ pools' = [pools EXCEPT ![x] = Patched(pools[x], r)]
                   /\ IF call[a].v2
                      THEN /\ call' = [call EXCEPT ![a] = [call[a] EXCEPT !.pc = "pool_get"]]
                           /\ UNCHANGED error
                      ELSE End(a, "patch", 200)
        /\ Disturb(a)
        /\ UNCHANGED <<sql, flavors>>

PoolGet(a) ==
    /\ call[a].pc = "pool_get"
    /\ End(a, "patch", IF call[a].name \in Stored THEN 200 ELSE 404)
    /\ UNCHANGED <<sql, pools, flavors, rows, calm>>

-------------------------------------------------------------------------------
\* on_get() of the pool listing and of a pool.  A client follows the link of a
\* page, which holds the name of its last pool, until a page is empty.

\* Mutant: no order on the name.
PagesUnordered(marker, limit) ==
    LET rest == {x \in Stored : x > marker}
    IN  {page \in SUBSET rest :
            \/ Cardinality(page) = limit
            \/ Cardinality(page) < limit /\ page = rest}

\* _list(): the pools after the marker, up to the limit.  MongoDB sorts them by
\* name, SQL takes any.
Pages(marker, limit) ==
    LET rest == {x \in Stored : x > marker}
    IN  {page \in SUBSET rest :
            /\ \/ Cardinality(page) = limit
               \/ Cardinality(page) < limit /\ page = rest
            /\ sql \/ \A x \in page, y \in rest \ page : x < y}

ListPools(a) ==
    LET walk == IF call[a].pc = "walk" THEN call[a]
                ELSE [Idle EXCEPT !.pc = "walk", !.due = Stored]
    IN  /\ call[a].pc \in {"idle", "walk"}
        /\ \E limit \in 1..Cardinality(Pools) : \E page \in Pages(walk.marker, limit) :
              IF page = {}
              THEN End(a, "list", 200)
              ELSE \E last \in page :
                     /\ sql \/ \A x \in page : x <= last
                     /\ call' = [call EXCEPT ![a] = [walk EXCEPT !.marker = last,
                                                               !.got = @ \cup page]]
                     /\ error' = "none"
        /\ UNCHANGED <<sql, pools, flavors, rows, calm>>

ListPoolsV1(a) == ListPools(a)
ListPoolsV11(a) == ListPools(a)
ListPoolsV2(a) == ListPools(a) \/ Answer(a, "list", 400)

GetPool(a) ==
    \E x \in Pools : Answer(a, "get", IF x \in Stored THEN 200 ELSE 404)

GetPoolV1(a) == GetPool(a)
GetPoolV11(a) == GetPool(a)
GetPoolV2(a) == GetPool(a)

-------------------------------------------------------------------------------
\* Flavors.  Only MongoDB's create() looks whether the group has pools; SQL has
\* a reference to the group's row, whose error nobody catches.

PutFlavor(a, f, g) ==
    IF ~sql /\ InGroup(g) = {}
    THEN Answer(a, "put_flavor", 400)
    ELSE Go(a, "flavor_write", f, g, FALSE)

\* v1.1 takes the capabilities from the body, where they may be missing.
PutFlavorV11(a) ==
    /\ call[a].pc = "idle"
    /\ \E f \in Flavors, g \in Groups :
          PutFlavor(a, f, g) \/ Answer(a, "put_flavor1", 500)

PutFlavorV2(a) ==
    /\ call[a].pc = "idle"
    /\ \E f \in Flavors, g \in Groups : PutFlavor(a, f, g)

\* SQL's reference of a flavor to the row of its group.
SqlRefuses(g) == sql /\ g # None /\ g \notin rows

FlavorWrite(a) ==
    /\ call[a].pc = "flavor_write"
    /\ IF SqlRefuses(call[a].arg)
       THEN End(a, "put_flavor", 500) /\ UNCHANGED flavors
       ELSE /\ End(a, "put_flavor", 201)
            /\ flavors' = [flavors EXCEPT ![call[a].name] = call[a].arg]
    /\ Disturb(a)
    /\ UNCHANGED <<sql, pools, rows>>

DeleteFlavor(a) ==
    /\ call[a].pc = "idle"
    /\ \E f \in Flavors : flavors' = [flavors EXCEPT ![f] = None]
    /\ End(a, "delete_flavor", 204)
    /\ Disturb(a)
    /\ UNCHANGED <<sql, pools, rows>>

DeleteFlavorV11(a) == DeleteFlavor(a)
DeleteFlavorV2(a) == DeleteFlavor(a)

\* v1.1 also takes a patch without a group (capabilities alone: None); a body
\* with both pool and pool_group is an unhandled error.
PatchFlavorV11(a) ==
    /\ call[a].pc = "idle"
    /\ \E f \in Flavors, g \in Groups \cup {None} :
          \/ Go(a, "flavor_update", f, g, FALSE)
          \/ Answer(a, "patch_flavor", 400)
          \/ Answer(a, "patch_flavor", 500)

PatchFlavorV2(a) ==
    /\ call[a].pc = "idle"
    /\ \E f \in Flavors, g \in Groups :
          \/ Go(a, "flavor_update", f, g, TRUE)
          \/ Answer(a, "patch_flavor", 400)
          \/ Answer(a, "patch_flavor", 500)

FlavorUpdate(a) ==
    LET f == call[a].name
        g == call[a].arg
    IN  /\ call[a].pc = "flavor_update"
        /\ CASE flavors[f] = None -> End(a, "patch_flavor", 404) /\ UNCHANGED flavors
             [] flavors[f] # None /\ SqlRefuses(g) ->
                   End(a, "patch_flavor", 500) /\ UNCHANGED flavors
             [] OTHER ->
                   /\ flavors' = [flavors EXCEPT ![f] = IF g = None THEN flavors[f] ELSE g]
                   /\ IF call[a].v2
                      THEN /\ call' = [call EXCEPT ![a] = [call[a] EXCEPT !.pc = "flavor_get"]]
                           /\ UNCHANGED error
                      ELSE End(a, "patch_flavor", 200)
        /\ Disturb(a)
        /\ UNCHANGED <<sql, pools, rows>>

FlavorGet(a) ==
    /\ call[a].pc = "flavor_get"
    /\ End(a, "patch_flavor", IF flavors[call[a].name] # None THEN 200 ELSE 404)
    /\ UNCHANGED <<sql, pools, flavors, rows, calm>>

\* Flavors are read as pools are; v2 adds the capabilities of the group.
ListFlavorsV11(a) == Answer(a, "list", 200)
ListFlavorsV2(a) == \E status \in {200, 400} : Answer(a, "list", status)

GetFlavor(a) ==
    \E f \in Flavors : Answer(a, "get", IF flavors[f] # None THEN 200 ELSE 404)

GetFlavorV11(a) == GetFlavor(a)
GetFlavorV2(a) == GetFlavor(a)

Next ==
    \E a \in Admins :
        \/ PutPoolV1(a) \/ PutPoolV11(a) \/ PutPoolV2(a) \/ PoolCreate(a)
        \/ DeletePoolV1(a) \/ DeletePoolV11(a) \/ DeletePoolV2(a) \/ PoolRemove(a)
        \/ PatchPoolV1(a) \/ PatchPoolV11(a) \/ PatchPoolV2(a) \/ PoolUpdate(a) \/ PoolGet(a)
        \/ ListPoolsV1(a) \/ ListPoolsV11(a) \/ ListPoolsV2(a)
        \/ GetPoolV1(a) \/ GetPoolV11(a) \/ GetPoolV2(a)
        \/ PutFlavorV11(a) \/ PutFlavorV2(a) \/ FlavorWrite(a)
        \/ DeleteFlavorV11(a) \/ DeleteFlavorV2(a)
        \/ PatchFlavorV11(a) \/ PatchFlavorV2(a) \/ FlavorUpdate(a) \/ FlavorGet(a)
        \/ ListFlavorsV11(a) \/ ListFlavorsV2(a) \/ GetFlavorV11(a) \/ GetFlavorV2(a)

Spec == Init /\ [][Next]_vars

-------------------------------------------------------------------------------
\* On MongoDB a deletion that nobody disturbs between its check and its write
\* takes no flavor its last pool (PoolsController._delete()).
LastPoolKept ==
    [][\A a \in Admins :
          call[a].pc = "pool_remove" /\ call'[a].pc = "idle" /\ calm[a] /\ ~sql =>
              \A f \in Flavors :
                  flavors[f] # None /\ InGroup(flavors[f]) # {} => InGroup(flavors[f])' # {}]_vars

\* A patch that races with a deletion never brings a pool or a flavor back: they
\* appear only when a PUT of theirs writes (_update(): upsert=False).
PatchCreatesNothing ==
    [][/\ \A x \in Pools : pools[x] = None /\ pools'[x] # None =>
             \E a \in Admins : call[a].pc = "pool_create" /\ call[a].name = x
       /\ \A f \in Flavors : flavors[f] = None /\ flavors'[f] # None =>
             \E a \in Admins : call[a].pc = "flavor_write" /\ call[a].name = f]_vars

\* With MongoDB, v1.1 and v2 turn every exception of the pools controller's
\* create() and delete() into the replies their docstrings and clients know,
\* whichever requests come between.
RepliesMapped == ~sql => error \notin {"put", "delete", "put_flavor"}

\* With MongoDB, a client that follows the links of the pool listing to its end is
\* given every pool that was there all along, whatever operators add, replace
\* and remove meanwhile, and whatever limits it asks for (_list()).
PoolsListed ==
    [][\A a \in Admins :
          call[a].pc = "walk" /\ call'[a].pc = "idle" /\ ~sql => call[a].due \subseteq call[a].got]_vars
===============================================================================
