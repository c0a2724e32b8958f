------------------------------ MODULE RedisClaims -----------------------------
(* Messages and claims in Redis (storage/redis/messages.py, claims.py,       *)
(* models.py and the two Lua scripts), on one queue.  A message is a hash     *)
(* with a key TTL; the queue is a sorted set of message ids; a claim is a     *)
(* hash, a list of message ids and a member of a sorted set.  A script or a   *)
(* pipeline is one step, and so are the reads that come before it in a call.  *)
EXTENDS Integers, FiniteSets

CONSTANTS
    Msgs,       \* message UUIDs
    Claims,     \* the UUIDs that claim creation draws
    NoClaim,    \* None, the empty string in Redis
    Deleters,   \* clients deleting messages
    ClaimTtls,  \* claim TTLs clients ask for
    Graces,     \* claim graces clients ask for
    MsgTtls,    \* message TTLs clients post with
    Limits,     \* messages per claim or pop that clients ask for
    GcBatch,    \* GC_BATCH_SIZE
    MaxTime     \* bound of the clock

ASSUME RedisClaimsAssumption ==
    /\ NoClaim \notin Claims /\ IsFiniteSet(Msgs)
    /\ ClaimTtls \subseteq Nat \ {0} /\ Graces \subseteq Nat
    /\ MsgTtls \subseteq Nat \ {0} /\ Limits \subseteq Nat \ {0}
    /\ GcBatch \in Nat \ {0} /\ MaxTime \in Nat

VARIABLES
    now,      \* seconds
    hash,     \* message hashes, with the end of their key's TTL
    msgset,   \* ranks of the message ids in the queue's set, 0 for no member
    counter,  \* the rank of the next message
    claim,    \* claim hashes and lists, with the end of their keys' TTL
    cset,     \* scores of the claims set, 0 for no member
    call,     \* the claim call in flight under each claim id
    del,      \* the deletion in flight of each deleter
    gc,       \* the garbage collector
    due,      \* when each message that was posted expires, as it was posted
    acked,    \* messages whose post returned
    removed   \* messages deleted or popped

keys == <<hash, msgset, counter, claim, cset>>
vars == <<now, keys, call, del, gc, due, acked, removed>>

\* The fields c, c.e, t and e of a message, and whether its body is there.
Envelope == [c : Claims \cup {NoClaim}, ce : Nat, t : Nat, e : Nat]
Hash == [env : Envelope, body : BOOLEAN, end : Nat]

NoEnvelope == [c |-> NoClaim, ce |-> 0, t |-> 0, e |-> 0]
NoHash == [env |-> NoEnvelope, body |-> FALSE, end |-> 0]

\* A key without TTL.
Never == MaxTime + 1

\* ids is the list, e and n fields of the hash (0 when missing).
Claim == [ids : SUBSET Msgs, e : Nat, n : Int, end : Nat]
NoInfo == [ids |-> {}, e |-> 0, n |-> 0, end |-> 0]

\* ids are messages to write back, with their envelopes, or to delete, with their
\* claims.
Owners == [Msgs -> Claims \cup {NoClaim}]
Deletion == [ids : SUBSET Msgs, own : Owners]
Call == [pc  : {"idle", "read", "persist", "open", "update", "release",
                "bulk", "remove", "drop", "done"},
         pop : BOOLEAN,
         exp : Nat,
         ttl : Nat,
         ids : SUBSET Msgs,
         env : [Msgs -> Envelope],
         own : Owners]

NoOwner == [m \in Msgs |-> NoClaim]
NoDeletion == [ids |-> {}, own |-> NoOwner]
Idle == [pc |-> "idle", pop |-> FALSE, exp |-> 0, ttl |-> 0, ids |-> {},
         env |-> [m \in Msgs |-> NoEnvelope], own |-> NoOwner]

Gc == [pc : {"idle", "scan", "remove"}, off : Nat, dead : SUBSET Msgs]

TypeOK ==
    /\ now \in Nat
    /\ hash \in [Msgs -> Hash]
    /\ msgset \in [Msgs -> Nat] /\ counter \in Nat
    /\ claim \in [Claims -> Claim]
    /\ cset \in [Claims -> Nat]
    /\ call \in [Claims -> Call]
    /\ del \in [Deleters -> Deletion]
    /\ gc \in Gc
    /\ due \in [Msgs -> Nat]
    /\ acked \subseteq Msgs /\ removed \subseteq Msgs

Init ==
    /\ now = 1
    /\ hash = [m \in Msgs |-> NoHash]
    /\ msgset = [m \in Msgs |-> 0]
    /\ counter = 1
    /\ claim = [c \in Claims |-> NoInfo]
    /\ cset = [c \in Claims |-> 0]
    /\ call = [c \in Claims |-> Idle]
    /\ del = [d \in Deleters |-> NoDeletion]
    /\ gc = [pc |-> "idle", off |-> 0, dead |-> {}]
    /\ due = [m \in Msgs |-> 0]
    /\ acked = {}
    /\ removed = {}

-------------------------------------------------------------------------------
\* Keys.

Exists(m) == hash[m].end > now

\* _get_claim(): the claim that holds m, if it has not run out.
GetClaim(m) == IF Exists(m) /\ now < hash[m].env.ce THEN hash[m].env.c ELSE NoClaim
GetClaims(ids) == [m \in Msgs |-> IF m \in ids THEN GetClaim(m) ELSE NoClaim]

\* from_redis_bulk(): an envelope without its hash, or a message without its
\* body, is an exception.
EnvelopesRead(ids) == \A m \in ids : Exists(m)
MessagesRead(ids) == \A m \in ids : Exists(m) /\ hash[m].body

\* get(): what a client can read.
GetMessage(m) == Exists(m) /\ hash[m].body /\ hash[m].env.e > now

\* to_redis() writes an envelope, body untouched, and restarts the key's TTL.
ToRedis(ids, env) ==
    hash' = [m \in Msgs |->
                IF m \in ids
                THEN [env |-> env[m], body |-> hash[m].body, end |-> now + env[m].t]
                ELSE hash[m]]

Members == {m \in Msgs : msgset[m] # 0}

\* The members of lower rank; zrange() is a slice in this order.
Before(m) == {k \in Members : msgset[k] < msgset[m]}
Slice(off, n) == {m \in Members : Cardinality(Before(m)) \in off..(off + n - 1)}

Without(ids) == [m \in Msgs |-> IF m \in ids THEN 0 ELSE msgset[m]]

-------------------------------------------------------------------------------
\* Posting: write the hashes, then index them.

PostWrite(m) ==
    /\ due[m] = 0
    /\ \E ttl \in MsgTtls :
          /\ hash' = [hash EXCEPT ![m] =
                         [env |-> [c |-> NoClaim, ce |-> now, t |-> ttl, e |-> now + ttl],
                          body |-> TRUE, end |-> now + ttl]]
          /\ due' = [due EXCEPT ![m] = now + ttl]
    /\ UNCHANGED <<now, msgset, counter, claim, cset, call, del, gc, acked, removed>>

\* index_messages.lua.  A call that never comes leaves an orphan.
PostIndex(m) ==
    /\ due[m] # 0 /\ m \notin acked
    /\ msgset' = [msgset EXCEPT ![m] = counter]
    /\ counter' = counter + 1
    /\ acked' = acked \cup {m}
    /\ UNCHANGED <<now, hash, claim, cset, call, del, gc, due, removed>>

-------------------------------------------------------------------------------
\* Claim creation.

\* claim_messages.lua: the first message that is not claimed, and from there on
\* every message that exists, whatever claim it has.
Unclaimed(m) == Exists(m) /\ hash[m].env.ce <= now
FirstUnclaimed == {m \in Members : Unclaimed(m) /\ \A k \in Before(m) : ~Unclaimed(k)}

Taken(limit) ==
    {m \in Members :
        /\ Exists(m)
        /\ \E f \in FirstUnclaimed :
              /\ msgset[f] <= msgset[m]
              /\ Cardinality({k \in Before(m) \ Before(f) : Exists(k)}) < limit}

\* The ids of expired messages met before the first unclaimed one.
Cleanup ==
    {m \in Members : ~Exists(m) /\ \A f \in FirstUnclaimed : m \in Before(f)}

\* The script tags a message and, if the claim outlives it, sets its fields t
\* and e; the key's own TTL stays.
Tagged(env, c, exp, ttl, grace) ==
    [env EXCEPT !.c = c, !.ce = exp,
                !.t = IF env.e < exp THEN ttl + grace ELSE @,
                !.e = IF env.e < exp THEN exp + grace ELSE @]

ClaimMessages(c, pop, ttl, grace, limit) ==
    /\ call[c].pc = "idle"
    /\ hash' = [m \in Msgs |->
                  IF m \in Taken(limit)
                  THEN [hash[m] EXCEPT !.env = Tagged(@, c, now + ttl, ttl, grace)]
                  ELSE hash[m]]
    /\ msgset' = Without(Cleanup)
    /\ call' = [call EXCEPT ![c] =
                   IF Taken(limit) = {} THEN [Idle EXCEPT !.pc = "done"]
                   ELSE [Idle EXCEPT !.pc = "read", !.pop = pop, !.exp = now + ttl,
                                     !.ttl = ttl, !.ids = Taken(limit)]]
    /\ UNCHANGED <<now, counter, claim, cset, del, gc, due, acked, removed>>

\* create(), or pop(), which creates a claim of one second.
Create(c) ==
    \E limit \in Limits :
        \/ \E ttl \in ClaimTtls, grace \in Graces : ClaimMessages(c, FALSE, ttl, grace, limit)
        \/ ClaimMessages(c, TRUE, 1, 0, limit)

\* The call ends; a claim that was persisted can be used again.
Ends(c) ==
    call' = [call EXCEPT ![c] =
                [Idle EXCEPT !.pc = IF call[c].pop \/ call[c].pc \in {"read", "persist"}
                                    THEN "done" ELSE "open"]]

\* Reads the messages back: one that has gone, or has no body, is an exception.
ReadBack(c) ==
    /\ call[c].pc = "read"
    /\ IF MessagesRead(call[c].ids)
       THEN call' = [call EXCEPT ![c].pc = "persist"]
       ELSE Ends(c)
    /\ UNCHANGED <<now, keys, del, gc, due, acked, removed>>

Persist(c) ==
    /\ call[c].pc = "persist"
    /\ claim' = [claim EXCEPT ![c] =
                    [ids |-> call[c].ids, e |-> call[c].exp,
                     n |-> Cardinality(call[c].ids), end |-> now + call[c].ttl]]
    /\ cset' = [cset EXCEPT ![c] = call[c].exp]
    /\ call' = [call EXCEPT ![c] =
                   IF @.pop THEN [@ EXCEPT !.pc = "bulk"] ELSE [Idle EXCEPT !.pc = "open"]]
    /\ UNCHANGED <<now, hash, msgset, counter, del, gc, due, acked, removed>>

-------------------------------------------------------------------------------
\* Claim renewal and release: _exists(), the list, the envelopes, a pipeline.

\* A member of the claims set whose hash has no expiry, or a past one, leaves
\* the set; an id in the list without a message is an exception.
Reads(c, next) ==
    /\ cset' = IF cset[c] # 0 /\ claim[c].e <= now THEN [cset EXCEPT ![c] = 0] ELSE cset
    /\ IF cset[c] # 0 /\ claim[c].e > now /\ EnvelopesRead(claim[c].ids)
       THEN call' = [call EXCEPT ![c] = next]
       ELSE Ends(c)
    /\ UNCHANGED <<now, hash, msgset, counter, claim, del, gc, due, acked, removed>>

\* _msg_would_expire(): at the claim's expiry, inclusively.
Renewed(env, c, exp, ttl, grace) ==
    [env EXCEPT !.c = c, !.ce = exp,
                !.t = IF env.e <= exp THEN ttl + grace ELSE @,
                !.e = IF env.e <= exp THEN exp + grace ELSE @]

Update(c) ==
    /\ call[c].pc = "open"
    /\ \E ttl \in ClaimTtls, grace \in Graces :
          Reads(c, [Idle EXCEPT !.pc = "update", !.exp = now + ttl, !.ttl = ttl,
                       !.ids = claim[c].ids,
                       !.env = [m \in Msgs |->
                                  IF m \in claim[c].ids
                                  THEN Renewed(hash[m].env, c, now + ttl, ttl, grace)
                                  ELSE NoEnvelope]])

\* Mutant: the claim's keys keep the TTL they had.
UpdateWriteNoExpire(c) ==
    /\ call[c].pc = "update"
    /\ ToRedis(call[c].ids, call[c].env)
    /\ claim' = [claim EXCEPT ![c].e = call[c].exp]
    /\ cset' = [cset EXCEPT ![c] = call[c].exp]
    /\ Ends(c)
    /\ UNCHANGED <<now, msgset, counter, del, gc, due, acked, removed>>

UpdateWrite(c) ==
    /\ call[c].pc = "update"
    /\ ToRedis(call[c].ids, call[c].env)
    /\ claim' = [claim EXCEPT ![c].e = call[c].exp, ![c].end = now + call[c].ttl]
    /\ cset' = [cset EXCEPT ![c] = call[c].exp]
    /\ Ends(c)
    /\ UNCHANGED <<now, msgset, counter, del, gc, due, acked, removed>>

Release(c) ==
    /\ call[c].pc \in {"open", "drop"}
    /\ Reads(c, [call[c] EXCEPT !.pc = "release", !.ids = claim[c].ids,
                    !.env = [m \in Msgs |->
                               IF m \in claim[c].ids
                               THEN [hash[m].env EXCEPT !.c = NoClaim, !.ce = now]
                               ELSE NoEnvelope]])

ReleaseWrite(c) ==
    /\ call[c].pc = "release"
    /\ ToRedis(call[c].ids, call[c].env)
    /\ claim' = [claim EXCEPT ![c] = NoInfo]
    /\ cset' = [cset EXCEPT ![c] = 0]
    /\ Ends(c)
    /\ UNCHANGED <<now, msgset, counter, del, gc, due, acked, removed>>

\* A worker dies, or the connection is lost for good.
Abort(c) ==
    /\ call[c].pc \notin {"idle", "open", "done"}
    /\ Ends(c)
    /\ UNCHANGED <<now, keys, del, gc, due, acked, removed>>

-------------------------------------------------------------------------------
\* Deletion.

\* Mutant: only the hash is deleted.
DeletedHashOnly(gone, own) ==
    /\ hash' = [m \in Msgs |-> IF m \in gone THEN NoHash ELSE hash[m]]
    /\ removed' = removed \cup gone
    /\ UNCHANGED <<msgset, claim>>

\* The pipeline of delete() and bulk_delete(): the hash, the id, and for a
\* message that was claimed the entry and the count of its claim (HINCRBY
\* creates a hash that is not there, without TTL).
Deleted(gone, own) ==
    /\ hash' = [m \in Msgs |-> IF m \in gone THEN NoHash ELSE hash[m]]
    /\ msgset' = Without(gone)
    /\ claim' = [c \in Claims |->
                   LET of == {m \in gone : own[m] = c}
                   IN IF of = {} THEN claim[c]
                      ELSE [claim[c] EXCEPT !.ids = @ \ of, !.n = @ - Cardinality(of),
                                            !.end = IF @ = 0 THEN Never ELSE @]]
    /\ removed' = removed \cup gone

\* delete() up to its check of the claim id that the client gave.
DeleteCheck(d, m, c) ==
    /\ del[d] = NoDeletion
    /\ m \in acked /\ Exists(m) /\ GetClaim(m) = c
    /\ del' = [del EXCEPT ![d] = [ids |-> {m}, own |-> GetClaims({m})]]
    /\ UNCHANGED <<now, keys, call, gc, due, acked, removed>>

\* bulk_delete() checks nothing.
BulkCheck(d, ids) ==
    /\ del[d] = NoDeletion
    /\ LET found == {m \in ids : Exists(m)}
       IN  del' = [del EXCEPT ![d] = [ids |-> found, own |-> GetClaims(found)]]
    /\ UNCHANGED <<now, keys, call, gc, due, acked, removed>>

DeleteExecute(d) ==
    /\ del[d] # NoDeletion
    /\ Deleted(del[d].ids, del[d].own)
    /\ del' = [del EXCEPT ![d] = NoDeletion]
    /\ UNCHANGED <<now, counter, cset, call, gc, due, acked>>

\* pop(): bulk_delete() of what was claimed, then delete() of the claim.
PopCheck(c) ==
    /\ call[c].pc = "bulk"
    /\ LET found == {m \in call[c].ids : Exists(m)}
       IN  call' = [call EXCEPT ![c] = [@ EXCEPT !.pc = "remove", !.ids = found,
                                                 !.own = GetClaims(found)]]
    /\ UNCHANGED <<now, keys, del, gc, due, acked, removed>>

PopRemove(c) ==
    /\ call[c].pc = "remove"
    /\ Deleted(call[c].ids, call[c].own)
    /\ call' = [call EXCEPT ![c] = [@ EXCEPT !.pc = "drop", !.ids = {}, !.own = NoOwner]]
    /\ UNCHANGED <<now, counter, cset, del, gc, due, acked>>

-------------------------------------------------------------------------------
\* Garbage collection: claims out of the claims set, then ids, batch by batch.

GcStart ==
    /\ gc.pc = "idle"
    /\ cset' = [c \in Claims |-> IF cset[c] <= now THEN 0 ELSE cset[c]]
    /\ gc' = [gc EXCEPT !.pc = "scan"]
    /\ UNCHANGED <<now, hash, msgset, counter, claim, call, del, due, acked, removed>>

\* Mutant: the next pass goes on at the offset where this one ended.
GcScanOn ==
    /\ gc.pc = "scan"
    /\ LET mids == Slice(gc.off, GcBatch)
       IN gc' = IF mids = {}
                THEN [gc EXCEPT !.pc = "idle"]
                ELSE [pc |-> "remove", off |-> gc.off + Cardinality(mids),
                      dead |-> {m \in mids : ~Exists(m)}]
    /\ UNCHANGED <<now, keys, call, del, due, acked, removed>>

\* Mutant: the flags are not looked at.
GcScanAll ==
    /\ gc.pc = "scan"
    /\ LET mids == Slice(gc.off, GcBatch)
       IN gc' = IF mids = {}
                THEN [pc |-> "idle", off |-> 0, dead |-> {}]
                ELSE [pc |-> "remove", off |-> gc.off + Cardinality(mids), dead |-> mids]
    /\ UNCHANGED <<now, keys, call, del, due, acked, removed>>

GcScan ==
    /\ gc.pc = "scan"
    /\ LET mids == Slice(gc.off, GcBatch)
       IN gc' = IF mids = {}
                THEN [pc |-> "idle", off |-> 0, dead |-> {}]
                ELSE [pc |-> "remove", off |-> gc.off + Cardinality(mids),
                      dead |-> {m \in mids : ~Exists(m)}]
    /\ UNCHANGED <<now, keys, call, del, due, acked, removed>>

GcRemove ==
    /\ gc.pc = "remove"
    /\ msgset' = Without(gc.dead)
    /\ gc' = [gc EXCEPT !.pc = "scan", !.dead = {}]
    /\ UNCHANGED <<now, hash, counter, claim, cset, call, del, due, acked, removed>>

-------------------------------------------------------------------------------
\* Redis drops a key when its TTL ends.
Tick ==
    /\ now < MaxTime
    /\ now' = now + 1
    /\ hash' = [m \in Msgs |-> IF hash[m].end <= now' THEN NoHash ELSE hash[m]]
    /\ claim' = [c \in Claims |-> IF claim[c].end <= now' THEN NoInfo ELSE claim[c]]
    /\ UNCHANGED <<msgset, counter, cset, call, del, gc, due, acked, removed>>

Next ==
    \/ \E m \in Msgs : PostWrite(m) \/ PostIndex(m)
    \/ \E c \in Claims :
          \/ Create(c) \/ ReadBack(c) \/ Persist(c)
          \/ Update(c) \/ UpdateWrite(c) \/ Release(c) \/ ReleaseWrite(c)
          \/ PopCheck(c) \/ PopRemove(c) \/ Abort(c)
    \/ \E d \in Deleters :
          \/ \E m \in Msgs, c \in Claims \cup {NoClaim} : DeleteCheck(d, m, c)
          \/ \E ids \in SUBSET acked \ {{}} : BulkCheck(d, ids)
          \/ DeleteExecute(d)
    \/ GcStart \/ GcScan \/ GcRemove
    \/ Tick

Spec == Init /\ [][Next]_vars

\* The operator runs the garbage collector again and again (cmd/gc.py advises
\* crontab), and a run that has begun goes on.
FairSpec == Spec /\ WF_vars(GcStart) /\ WF_vars(GcScan) /\ WF_vars(GcRemove)

-------------------------------------------------------------------------------
\* A message whose post returned can be read and listed until the TTL it was
\* posted with ends or it is deleted, whatever claims, write-backs of stale
\* envelopes and garbage collection do in between.
MessageKept ==
    \A m \in acked \ removed :
        due[m] > now => GetMessage(m) /\ m \in Members

\* A deleted or popped message never comes back into the queue: a write-back by
\* a claim call that read it before may recreate its hash, but not its id.
RemovedStaysOut == removed \cap Members = {}

\* A claim that the claims set says is running has its hash, with the same
\* expiry: _exists() never meets a running claim without it.
RunningClaimRecorded ==
    \A c \in Claims : cset[c] > now => claim[c].end > now /\ claim[c].e = cset[c]

\* The id of an expired message leaves the queue in the end, although a pass of
\* gc() that removes ids moves the others under its offset.
ExpiredIdsCollected ==
    \A m \in Msgs : (m \in Members /\ ~Exists(m)) ~> (m \notin Members \/ Exists(m))
===============================================================================
