------------------------------ MODULE MongoClaims -----------------------------
(* The MongoDB claim controller (storage/mongodb/claims.py) and the message   *)
(* operations of storage/mongodb/messages.py that compete with it, on the    *)
(* messages of one queue.  A claim is not a document of its own: it is the   *)
(* field c = {id, e} of every message it tagged.  Every database call is a   *)
(* step; a multi-document update is one step per document, since MongoDB     *)
(* isolates the documents of such an update from nothing.                    *)
EXTENDS Naturals, FiniteSets

CONSTANTS
    MsgIds,      \* messages, each named by its marker k
    Claims,      \* the ObjectIds that claim creation draws
    NoClaim,     \* None
    Deleters,    \* clients deleting single messages
    Poppers,     \* clients popping messages
    ClaimTtls,   \* claim TTLs clients ask for
    Graces,      \* claim graces clients ask for
    MsgTtls,     \* message TTLs clients post with
    Limit,       \* messages per claim
    PopLimit,    \* messages per pop
    MaxTime      \* bound of the clock

ASSUME MongoClaimsAssumption ==
    /\ MsgIds \subseteq Nat /\ MsgIds # {}
    /\ NoClaim \notin Claims
    /\ ClaimTtls \subseteq Nat /\ Graces \subseteq Nat /\ MsgTtls \subseteq Nat
    /\ Limit \in Nat \ {0} /\ PopLimit \in Nat /\ MaxTime \in Nat

VARIABLES
    now,      \* utcnow_ts(), seconds
    doc,      \* message documents
    call,     \* the claim call in flight under each claim id
    held,     \* what the owner of each claim was told that it holds ...
    lease,    \* ... and until when
    del,      \* the message deletion in flight of each deleter
    pop,      \* the pop in flight of each popper
    popped    \* messages handed out by pop

vars == <<now, doc, call, held, lease, del, pop, popped>>

\* A document's life, its claim c = {id, e} and its own expiry e.  The claim of
\* a document that has gone is kept as it last was.
Doc == [st  : {"unposted", "stored", "gone"},
        cid : Claims \cup {NoClaim},
        ce  : Nat,
        e   : Nat]

\* pc names the next step; exp, grace, tnow are the call's local variables; todo
\* the documents its multi-document update has yet to visit; hit is updated # 0.
Call == [pc    : {"idle", "list", "reread", "tag", "extend", "get", "open",
                  "uptag", "upextend", "untag", "done"},
         exp   : Nat,
         grace : Nat,
         tnow  : Nat,
         todo  : SUBSET MsgIds,
         hit   : BOOLEAN]

\* A call with no local state.
Calling(pc) == [pc |-> pc, exp |-> 0, grace |-> 0, tnow |-> 0, todo |-> {},
                hit |-> FALSE]

\* A deletion past its first read: the message, and the claim the client gave.
NotDeleting == [pc |-> "idle"]
Del == [pc : {"reread", "remove"}, m : MsgIds, cid : Claims \cup {NoClaim}]

Pop == [left : Nat, tnow : Nat]

TypeOK ==
    /\ now \in Nat
    /\ doc \in [MsgIds -> Doc]
    /\ call \in [Claims -> Call]
    /\ held \in [Claims -> SUBSET MsgIds]
    /\ lease \in [Claims -> Nat]
    /\ del \in [Deleters -> Del \cup {NotDeleting}]
    /\ pop \in [Poppers -> Pop]
    /\ popped \subseteq MsgIds

Init ==
    /\ now = 1
    /\ doc = [m \in MsgIds |->
                [st |-> "unposted", cid |-> NoClaim, ce |-> 0, e |-> 0]]
    /\ call = [c \in Claims |-> Calling("idle")]
    /\ held = [c \in Claims |-> {}]
    /\ lease = [c \in Claims |-> 0]
    /\ del = [d \in Deleters |-> NotDeleting]
    /\ pop = [p \in Poppers |-> [left |-> 0, tnow |-> 0]]
    /\ popped = {}

-------------------------------------------------------------------------------
\* Queries.

Stored(m) == doc[m].st = "stored"

\* _is_claimed(msg, now)
IsClaimed(m) == doc[m].cid # NoClaim /\ doc[m].ce > now

\* _active(): the oldest Limit messages whose claim, if any, has expired.
Active ==
    LET free == {m \in MsgIds : Stored(m) /\ doc[m].ce <= now}
    IN {m \in free : Cardinality({k \in free : k < m}) < Limit}

\* _claimed(): the messages a claim still holds.
Claimed(c) == {m \in MsgIds : Stored(m) /\ doc[m].cid = c /\ doc[m].ce > now}

-------------------------------------------------------------------------------
\* Claim creation: list candidates, tag those still free, extend their expiry,
\* read back what was tagged.

\* Mutant: the grace counted into the claim's own expiry.
CreateStartWithGrace(c) ==
    /\ call[c].pc = "idle"
    /\ \E ttl \in ClaimTtls, g \in Graces :
          call' = [call EXCEPT ![c] = [@ EXCEPT !.pc = "list", !.grace = g,
                                                !.exp = now + ttl + g]]
    /\ UNCHANGED <<now, doc, held, lease, del, pop, popped>>

CreateStart(c) ==
    /\ call[c].pc = "idle"
    /\ \E ttl \in ClaimTtls, g \in Graces :
          call' = [call EXCEPT ![c] = [@ EXCEPT !.pc = "list", !.exp = now + ttl,
                                                !.grace = g]]
    /\ UNCHANGED <<now, doc, held, lease, del, pop, popped>>

List(c) ==
    /\ call[c].pc = "list"
    /\ call' = IF Active = {}
               THEN [call EXCEPT ![c] = Calling("done")]
               ELSE [call EXCEPT ![c] = [@ EXCEPT !.pc = "reread", !.todo = Active]]
    /\ UNCHANGED <<now, doc, held, lease, del, pop, popped>>

Reread(c) ==
    /\ call[c].pc = "reread"
    /\ call' = [call EXCEPT ![c] = [@ EXCEPT !.pc = "tag", !.tnow = now]]
    /\ UNCHANGED <<now, doc, held, lease, del, pop, popped>>

\* The update of call c leaves document m; after the last one the call is next.
Visited(c, m, next) ==
    call' = [call EXCEPT ![c] = IF @.todo = {m} THEN next
                                ELSE [call[c] EXCEPT !.todo = @ \ {m}]]

\* The second update, over all documents, with the same parameters.
Extending(c, pc) == [call[c] EXCEPT !.pc = pc, !.todo = MsgIds, !.tnow = 0]

\* Mutant: the update filters by _id only, not by c.e.
TagBlind(c, m) ==
    /\ call[c].pc = "tag" /\ m \in call[c].todo
    /\ doc' = IF Stored(m)
              THEN [doc EXCEPT ![m] = [@ EXCEPT !.cid = c, !.ce = call[c].exp]]
              ELSE doc
    /\ Visited(c, m, [Extending(c, "extend") EXCEPT !.hit = TRUE])
    /\ UNCHANGED <<now, held, lease, del, pop, popped>>

Tag(c, m) ==
    /\ call[c].pc = "tag" /\ m \in call[c].todo
    /\ LET match == Stored(m) /\ doc[m].ce <= call[c].tnow
       IN /\ doc' = IF match
                    THEN [doc EXCEPT ![m] = [@ EXCEPT !.cid = c, !.ce = call[c].exp]]
                    ELSE doc
          /\ LET hit == call[c].hit \/ match
             IN call' = [call EXCEPT ![c] =
                            IF @.todo = {m}
                            THEN [Extending(c, "extend") EXCEPT !.hit = hit]
                            ELSE [call[c] EXCEPT !.todo = @ \ {m}, !.hit = hit]]
    /\ UNCHANGED <<now, held, lease, del, pop, popped>>

\* Mutant: the message expiry is not extended to the claim's.
ExtendNothing(c, m) ==
    /\ call[c].pc \in {"extend", "upextend"} /\ m \in call[c].todo
    /\ Visited(c, m, Calling(IF call[c].pc = "upextend" THEN "open"
                             ELSE IF call[c].hit THEN "get" ELSE "done"))
    /\ UNCHANGED <<now, doc, held, lease, del, pop, popped>>

Extend(c, m) ==
    /\ call[c].pc \in {"extend", "upextend"} /\ m \in call[c].todo
    /\ doc' = IF Stored(m) /\ doc[m].cid = c /\ doc[m].e < call[c].exp
              THEN [doc EXCEPT ![m].e = call[c].exp + call[c].grace]
              ELSE doc
    /\ Visited(c, m, Calling(IF call[c].pc = "upextend" THEN "open"
                             ELSE IF call[c].hit THEN "get" ELSE "done"))
    /\ UNCHANGED <<now, held, lease, del, pop, popped>>

\* The owner is told, or finds out, that it holds nothing any more.
Forget(c) ==
    /\ held' = [held EXCEPT ![c] = {}]
    /\ lease' = [lease EXCEPT ![c] = 0]

Finish(c) == call' = [call EXCEPT ![c] = Calling("done")] /\ Forget(c)

\* The claim's data comes from its first message; no message, no claim.
ReadClaim(c) ==
    /\ IF Claimed(c) # {}
       THEN /\ held' = [held EXCEPT ![c] = Claimed(c)]
            /\ \E first \in Claimed(c) :
                  /\ \A m \in Claimed(c) : first <= m
                  /\ lease' = [lease EXCEPT ![c] = doc[first].ce]
            /\ call' = [call EXCEPT ![c] = Calling("open")]
       ELSE Finish(c)
    /\ UNCHANGED <<now, doc, del, pop, popped>>

\* get() ends a creation and is an operation of its own.
Get(c) == call[c].pc \in {"get", "open"} /\ ReadClaim(c)

-------------------------------------------------------------------------------
\* Claim update (renewal) and deletion (release).

\* From here on the owner counts on the shorter of the two leases only.  A lost
\* connection starts a renewal again, whatever the attempt before it wrote.
UpdateStart(c) ==
    /\ call[c].pc \in {"open", "uptag", "upextend"}
    /\ \E ttl \in ClaimTtls, g \in Graces :
          IF Claimed(c) # {}
          THEN /\ call' = [call EXCEPT ![c] =
                               [@ EXCEPT !.pc = "uptag", !.todo = MsgIds,
                                         !.exp = now + ttl, !.grace = g]]
               /\ lease' = [lease EXCEPT ![c] =
                               IF now + ttl < @ THEN now + ttl ELSE @]
               /\ UNCHANGED held
          ELSE Finish(c)
    /\ UNCHANGED <<now, doc, del, pop, popped>>

\* Mutant: the renewal does not filter by c.id.
UpTagAll(c, m) ==
    /\ call[c].pc = "uptag" /\ m \in call[c].todo
    /\ doc' = IF Stored(m)
              THEN [doc EXCEPT ![m] = [@ EXCEPT !.cid = c, !.ce = call[c].exp]]
              ELSE doc
    /\ Visited(c, m, Extending(c, "upextend"))
    /\ UNCHANGED <<now, held, lease, del, pop, popped>>

UpTag(c, m) ==
    /\ call[c].pc = "uptag" /\ m \in call[c].todo
    /\ doc' = IF Stored(m) /\ doc[m].cid = c
              THEN [doc EXCEPT ![m].ce = call[c].exp]
              ELSE doc
    /\ Visited(c, m, Extending(c, "upextend"))
    /\ UNCHANGED <<now, held, lease, del, pop, popped>>

DeleteStart(c) ==
    /\ call[c].pc \in {"open", "uptag", "upextend", "untag"}
    /\ call' = [call EXCEPT ![c] = [@ EXCEPT !.pc = "untag", !.todo = MsgIds,
                                          !.tnow = now]]
    /\ Forget(c)
    /\ UNCHANGED <<now, doc, del, pop, popped>>

\* Mutant: the whole claim is set to None, its expiry too.
UnclaimNone(c, m) ==
    /\ call[c].pc = "untag" /\ m \in call[c].todo
    /\ doc' = IF Stored(m) /\ doc[m].cid = c
              THEN [doc EXCEPT ![m] = [@ EXCEPT !.cid = NoClaim, !.ce = NoClaim]]
              ELSE doc
    /\ Visited(c, m, Calling("done"))
    /\ UNCHANGED <<now, held, lease, del, pop, popped>>

\* _unclaim()
Unclaim(c, m) ==
    /\ call[c].pc = "untag" /\ m \in call[c].todo
    /\ doc' = IF Stored(m) /\ doc[m].cid = c
              THEN [doc EXCEPT ![m] = [@ EXCEPT !.cid = NoClaim, !.ce = call[c].tnow]]
              ELSE doc
    /\ Visited(c, m, Calling("done"))
    /\ UNCHANGED <<now, held, lease, del, pop, popped>>

\* A dead worker, or a lost connection during a creation, which is retried under
\* a new ObjectId, ends the call wherever it stands; what it tagged is orphaned.
Abandon(c) ==
    /\ call[c].pc \notin {"idle", "done"}
    /\ Finish(c)
    /\ UNCHANGED <<now, doc, del, pop, popped>>

-------------------------------------------------------------------------------
\* Messages.

Gone(m) == doc' = [doc EXCEPT ![m] = [@ EXCEPT !.st = "gone", !.e = 0]]

\* post() reads the clock, draws a marker from the counter, then inserts: inserts
\* happen in any order of the markers, and the time t written may be past.
Post(m) ==
    /\ doc[m].st = "unposted"
    /\ \E t \in 1..now, ttl \in MsgTtls :
          doc' = [doc EXCEPT ![m] = [st |-> "stored", cid |-> NoClaim, ce |-> t,
                                     e |-> t + ttl]]
    /\ UNCHANGED <<now, call, held, lease, del, pop, popped>>

\* delete() up to its first read.  A message that is not found, or that is
\* claimed while no claim was given, ends it.
DeleteMsg(d, m, c) ==
    /\ del[d] = NotDeleting
    /\ Stored(m)
    /\ c = NoClaim => ~IsClaimed(m)
    /\ del' = [del EXCEPT ![d] =
                  [pc |-> IF c \in {NoClaim, doc[m].cid} THEN "remove" ELSE "reread",
                   m |-> m, cid |-> c]]
    /\ UNCHANGED <<now, doc, call, held, lease, pop, popped>>

\* The second read, from the primary: a message that went in between makes the
\* subscript of None fail, another claim ends the call with an error.
DeleteReread(d) ==
    /\ del[d].pc = "reread"
    /\ del' = [del EXCEPT ![d] =
                  IF Stored(@.m) /\ doc[@.m].cid = @.cid
                  THEN [@ EXCEPT !.pc = "remove"] ELSE NotDeleting]
    /\ UNCHANGED <<now, doc, call, held, lease, pop, popped>>

DeleteRemove(d) ==
    /\ del[d].pc = "remove"
    /\ IF Stored(del[d].m) THEN Gone(del[d].m) ELSE UNCHANGED doc
    /\ del' = [del EXCEPT ![d] = NotDeleting]
    /\ UNCHANGED <<now, call, held, lease, pop, popped>>

\* bulk_delete() removes whatever it is given, claimed or not.
BulkDelete(m) ==
    /\ Stored(m)
    /\ Gone(m)
    /\ UNCHANGED <<now, call, held, lease, del, pop, popped>>

PopStart(p) ==
    /\ pop[p].left = 0
    /\ pop' = [pop EXCEPT ![p] = [left |-> PopLimit, tnow |-> now]]
    /\ UNCHANGED <<now, doc, call, held, lease, del, popped>>

\* Mutant: the query has no condition on c.e.
PopOneAny(p) ==
    /\ pop[p].left > 0
    /\ \E m \in {m \in MsgIds : Stored(m)} : Gone(m) /\ popped' = popped \cup {m}
    /\ pop' = [pop EXCEPT ![p].left = @ - 1]
    /\ UNCHANGED <<now, call, held, lease, del>>

\* One find_and_modify(remove=True), in no order.
PopOne(p) ==
    /\ pop[p].left > 0
    /\ LET free == {m \in MsgIds : Stored(m) /\ doc[m].ce <= pop[p].tnow}
       IN IF free = {}
          THEN UNCHANGED <<doc, popped>>
          ELSE \E m \in free : Gone(m) /\ popped' = popped \cup {m}
    /\ pop' = [pop EXCEPT ![p].left = @ - 1]
    /\ UNCHANGED <<now, call, held, lease, del>>

\* The TTL monitor of the database removes a document some time after e.
ExpireDoc(m) ==
    /\ Stored(m) /\ doc[m].e <= now
    /\ Gone(m)
    /\ UNCHANGED <<now, call, held, lease, del, pop, popped>>

Tick ==
    /\ now < MaxTime
    /\ now' = now + 1
    /\ UNCHANGED <<doc, call, held, lease, del, pop, popped>>

ClaimStep(c) ==
    \/ CreateStart(c) \/ List(c) \/ Reread(c) \/ Get(c)
    \/ UpdateStart(c) \/ DeleteStart(c) \/ Abandon(c)
    \/ \E m \in MsgIds : Tag(c, m) \/ Extend(c, m) \/ UpTag(c, m) \/ Unclaim(c, m)

Next ==
    \/ \E c \in Claims : ClaimStep(c)
    \/ \E m \in MsgIds : Post(m) \/ BulkDelete(m) \/ ExpireDoc(m)
    \/ \E d \in Deleters :
          \/ \E m \in MsgIds, c \in Claims \cup {NoClaim} : DeleteMsg(d, m, c)
          \/ DeleteReread(d)
          \/ DeleteRemove(d)
    \/ \E p \in Poppers : PopStart(p) \/ PopOne(p)
    \/ Tick

Spec == Init /\ [][Next]_vars

-------------------------------------------------------------------------------
\* Safety.

\* Two owners whose leases both run never hold the same message, whatever the
\* interleaving of list, tag, renewal, release, expiry and lost calls: "Only one
\* worker can claim a message" (doc/source/getting_started.rst:90).
LeaseExclusive ==
    \A c, d \in Claims : \A m \in held[c] \cap held[d] :
        c = d \/ lease[c] <= now \/ lease[d] <= now

\* A message that pop() handed out is not held under a running lease: pop and
\* claim never give one message to two workers.
PoppedNotHeld ==
    \A c \in Claims : held[c] \cap popped # {} => lease[c] <= now

\* A message whose lease runs does not expire under its owner: the extension of
\* e in create() and update() comes before the owner relies on it.
HeldOutlivesLease ==
    \A c \in Claims : \A m \in held[c] :
        lease[c] > now /\ Stored(m) => doc[m].e >= lease[c]

\* Every claim on a message runs out within one claim TTL of the present, so
\* that the messages of an orphaned claim "expire eventually and free up"
\* (mongodb/claims.py:100).
OrphanedClaimsRunOut ==
    \A m \in MsgIds : doc[m].cid # NoClaim =>
        \E ttl \in ClaimTtls : doc[m].ce <= now + ttl

\* The claims that MongoDB documents carry behave as leases: see ClaimLease.
Lease == INSTANCE ClaimLease WITH
    Msgs    <- MsgIds,
    clock   <- now,
    holder  <- [m \in MsgIds |-> doc[m].cid],
    until   <- [m \in MsgIds |-> IF doc[m].cid = NoClaim THEN 0 ELSE doc[m].ce],
    removed <- {m \in MsgIds : doc[m].st = "gone"}

\* Every step of the claim controller and of its competitors is a step of an
\* exclusive lease: acquired when free, renewed and released by its claim only.
ImplementsLease == Lease!Spec

\* A claim that has not run out keeps its messages: no step of another claim
\* takes one over, and none touches a message that has gone.
LiveClaimKept == Lease!NoTakeover
===============================================================================
