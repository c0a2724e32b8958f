------------------------------ MODULE SwiftClaims -----------------------------
(* Messages and claims in Swift (storage/swift/messages.py, claims.py and    *)
(* utils.py), on one queue.  A message is an object whose content names its   *)
(* claim, a claim an object that lists its messages; both are deleted by      *)
(* Swift when their time is up.  Every request to Swift is a step, and a      *)
(* conditional PUT is the only synchronisation.                               *)
EXTENDS Integers, FiniteSets

CONSTANTS
    Msgs,       \* names of message objects, in the order of a listing
    Claims,     \* the UUIDs that claim creation draws
    NoClaim,    \* None
    Deleters,   \* clients deleting messages
    ClaimTtls,  \* claim TTLs clients ask for
    Graces,     \* claim graces clients ask for
    MsgTtls,    \* message TTLs clients post with
    Limits,     \* messages per claim or pop that clients ask for
    PageSize,   \* how many names Swift lists without a limit
    Retry,      \* whether clients repeat a release that failed half-way
    MaxTime     \* bound of the clock

ASSUME SwiftClaimsAssumption ==
    /\ Msgs \subseteq Nat \ {0} /\ NoClaim \notin Claims
    /\ ClaimTtls \subseteq Nat \ {0} /\ Graces \subseteq Nat
    /\ MsgTtls \subseteq Nat \ {0} /\ Limits \subseteq Nat \ {0}
    /\ PageSize \in Nat \ {0} /\ Retry \in BOOLEAN /\ MaxTime \in Nat

VARIABLES
    now,     \* seconds
    cont,    \* whether the queue's message container exists
    obj,     \* message objects
    cobj,    \* claim objects
    call,    \* the claim call in flight under each claim id
    del,     \* the deletion in flight of each deleter
    purge,   \* the deletion of the queue in flight
    posted,  \* names already drawn
    told     \* messages returned by claim creation or pop, until given up

vars == <<now, cont, obj, cobj, call, del, purge, posted, told>>

\* claim_id and ttl are the content that If-Match compares (the body never
\* changes), meta the claimid header, end is x-delete-at (0: no object).
Object == [claim_id : Claims \cup {NoClaim}, ttl : Nat,
           meta : Claims \cup {NoClaim}, end : Nat]
NoObject == [claim_id |-> NoClaim, ttl |-> 0, meta |-> NoClaim, end |-> 0]

ClaimObject == [ids : SUBSET Msgs, end : Nat]
NoClaimObject == [ids |-> {}, end |-> 0]

\* page are the names still to look at, mark the last one looked at, left how
\* many more may be yielded, ids the messages claimed or to release; seen, ttl
\* and end are what was read of the message at mark.
Call == [pc : {"idle", "list", "look", "put", "record", "bulk", "open", "renew",
               "find", "back", "drop", "closed"},
         pop : BOOLEAN, cttl : Nat, grace : Nat,
         page : SUBSET Msgs, mark : Nat, left : Nat, limit : Nat,
         ids : SUBSET Msgs, seen : Claims \cup {NoClaim}, ttl : Nat, end : Nat]

IdleCall == [pc |-> "idle", pop |-> FALSE, cttl |-> 0, grace |-> 0,
             page |-> {}, mark |-> 0, left |-> 0, limit |-> 0, ids |-> {},
             seen |-> NoClaim, ttl |-> 0, end |-> 0]

TypeOK ==
    /\ now \in Nat /\ cont \in BOOLEAN
    /\ obj \in [Msgs -> Object]
    /\ cobj \in [Claims -> ClaimObject]
    /\ call \in [Claims -> Call]
    /\ del \in [Deleters -> Msgs \cup {0}]
    /\ purge \in [pc : {"idle", "msgs", "claims"}, ids : (SUBSET Msgs) \cup (SUBSET Claims)]
    /\ posted \subseteq Msgs
    /\ told \in [Claims -> SUBSET Msgs]

Init ==
    /\ now = 1
    /\ cont = FALSE
    /\ obj = [m \in Msgs |-> NoObject]
    /\ cobj = [c \in Claims |-> NoClaimObject]
    /\ call = [c \in Claims |-> IdleCall]
    /\ del = [d \in Deleters |-> 0]
    /\ purge = [pc |-> "idle", ids |-> {}]
    /\ posted = {}
    /\ told = [c \in Claims |-> {}]

-------------------------------------------------------------------------------
\* Objects, as requests see them.

Stored(m) == obj[m].end > now
Live(c) == c # NoClaim /\ cobj[c].end > now

\* delete_object()
Gone(m) == [obj EXCEPT ![m] = [obj[m] EXCEPT !.end = 0]]

\* get_container(): at most n names after a marker.
Listing(mark, n) ==
    LET later == {m \in Msgs : Stored(m) /\ m > mark}
    IN  {m \in later : Cardinality({k \in later : k < m}) < n}

-------------------------------------------------------------------------------
\* _create_msg(): the container is made on demand; an error of another kind is
\* swallowed, and the client is told the message was stored.

Post(m) ==
    /\ m \notin posted
    /\ posted' = posted \cup {m}
    /\ cont' = TRUE
    /\ \E ttl \in MsgTtls :
          obj' = [obj EXCEPT ![m] = [claim_id |-> NoClaim, ttl |-> ttl,
                                     meta |-> NoClaim, end |-> now + ttl]]
    /\ UNCHANGED <<now, cobj, call, del, purge, told>>

PostLost(m) ==
    /\ m \notin posted
    /\ posted' = posted \cup {m}
    /\ UNCHANGED <<now, cont, obj, cobj, call, del, purge, told>>

-------------------------------------------------------------------------------
\* Claim creation and pop: list a page of names, read each object, put the ones
\* that are not claimed back with the claim's id, and write the claim object.

Create(c) ==
    /\ call[c].pc = "idle"
    /\ cont
    /\ \E pop \in BOOLEAN, n \in Limits,
          ttl \in ClaimTtls, grace \in Graces :
          /\ pop => ttl = 1 /\ grace = 0
          /\ call' = [call EXCEPT ![c] =
                [IdleCall EXCEPT !.pc = "list", !.pop = pop, !.cttl = ttl,
                                 !.grace = grace, !.left = n, !.limit = n]]
    /\ UNCHANGED <<now, cont, obj, cobj, del, purge, posted, told>>

ListPage(c) ==
    LET page == Listing(call[c].mark, 2 * call[c].limit)
    IN  /\ call[c].pc = "list"
        /\ call' = [call EXCEPT ![c] =
              [call[c] EXCEPT !.pc = IF page = {} THEN "record" ELSE "look",
                              !.page = page]]
        /\ UNCHANGED <<now, cont, obj, cobj, del, purge, posted, told>>

\* Where _filter_messages() goes on after a message.
AfterMessage(left, page) ==
    CASE left = 0 -> "record"
      [] left > 0 /\ page = {} -> "list"
      [] OTHER -> "look"

\* is_claimed(): the claim id in the content, whatever became of the claim.
Look(c) ==
    /\ call[c].pc = "look"
    /\ \E m \in call[c].page :
          LET rest == call[c].page \ {m}
              free == Stored(m) /\ obj[m].claim_id = NoClaim
          IN  /\ \A k \in rest : m < k
              /\ call' = [call EXCEPT ![c] =
                    [call[c] EXCEPT
                        !.pc = IF free THEN "put" ELSE AfterMessage(call[c].left, rest),
                        !.page = rest, !.mark = m,
                        !.ttl = IF free THEN obj[m].ttl ELSE 0]]
    /\ UNCHANGED <<now, cont, obj, cobj, del, purge, posted, told>>

\* Mutant: a put without If-Match.
MatchesAny(c, m) == Stored(m)

\* If-Match: the content is still the one that was read.
Matches(c, m) ==
    /\ Stored(m)
    /\ obj[m].claim_id = call[c].seen
    /\ obj[m].ttl = call[c].ttl

\* 412 leaves the message to whoever changed it; the message counts all the same.
Put(c) ==
    LET m == call[c].mark
        ttl == IF call[c].ttl > call[c].cttl + call[c].grace
               THEN call[c].ttl ELSE call[c].cttl + call[c].grace
        left == call[c].left - 1
    IN  /\ call[c].pc = "put"
        /\ obj' = IF Matches(c, m)
                  THEN [obj EXCEPT ![m] = [claim_id |-> c, ttl |-> ttl,
                                           meta |-> c, end |-> now + ttl]]
                  ELSE obj
        /\ call' = [call EXCEPT ![c] =
              [call[c] EXCEPT
                  !.pc = AfterMessage(left, call[c].page),
                  !.left = left, !.ttl = 0,
                  !.ids = IF Matches(c, m) THEN call[c].ids \cup {m} ELSE call[c].ids]]
        /\ UNCHANGED <<now, cont, cobj, del, purge, posted, told>>

\* The claim object comes last, also when nothing was claimed.
Record(c) ==
    /\ call[c].pc = "record"
    /\ cobj' = [cobj EXCEPT ![c] = [ids |-> call[c].ids, end |-> now + call[c].cttl]]
    /\ told' = [told EXCEPT ![c] = call[c].ids]
    /\ call' = [call EXCEPT ![c] =
          IF call[c].pop
          THEN [IdleCall EXCEPT !.pc = "bulk", !.ids = call[c].ids]
          ELSE [IdleCall EXCEPT !.pc = "open"]]
    /\ UNCHANGED <<now, cont, obj, del, purge, posted>>

\* pop(): bulk_delete() of what was claimed; the claim object is left behind.
PopDelete(c) ==
    /\ call[c].pc = "bulk"
    /\ IF call[c].ids = {}
       THEN /\ call' = [call EXCEPT ![c] = [IdleCall EXCEPT !.pc = "closed"]]
            /\ UNCHANGED obj
       ELSE \E m \in call[c].ids :
               /\ call' = [call EXCEPT ![c] = [call[c] EXCEPT !.ids = call[c].ids \ {m}]]
               /\ obj' = Gone(m)
    /\ UNCHANGED <<now, cont, cobj, del, purge, posted, told>>

-------------------------------------------------------------------------------
\* Renewal reads the claim object and puts it back with a new end; the messages
\* are not touched.

Renew(c) ==
    /\ call[c].pc = "open" /\ cont /\ Live(c)
    /\ \E ttl \in ClaimTtls :
          call' = [call EXCEPT ![c] = [IdleCall EXCEPT !.pc = "renew", !.cttl = ttl,
                                                       !.ids = cobj[c].ids]]
    /\ UNCHANGED <<now, cont, obj, cobj, del, purge, posted, told>>

RenewPut(c) ==
    /\ call[c].pc = "renew"
    /\ cobj' = [cobj EXCEPT ![c] = [ids |-> call[c].ids, end |-> now + call[c].cttl]]
    /\ call' = [call EXCEPT ![c] = [IdleCall EXCEPT !.pc = "open"]]
    /\ UNCHANGED <<now, cont, obj, del, purge, posted, told>>

-------------------------------------------------------------------------------
\* Release reads the claim object, puts every message back without a claim and
\* deletes the claim object.

Release(c) ==
    /\ call[c].pc = "open" /\ Live(c)
    /\ call' = [call EXCEPT ![c] = [IdleCall EXCEPT !.pc = "find", !.ids = cobj[c].ids]]
    /\ told' = [told EXCEPT ![c] = {}]
    /\ UNCHANGED <<now, cont, obj, cobj, del, purge, posted>>

\* _find_message(): what the message is now, whoever claims it; a message that
\* is gone is skipped.
Find(c) ==
    /\ call[c].pc = "find"
    /\ IF call[c].ids = {}
       THEN call' = [call EXCEPT ![c] = [IdleCall EXCEPT !.pc = "drop"]]
       ELSE \E m \in call[c].ids :
               call' = [call EXCEPT ![c] =
                  IF Stored(m)
                  THEN [call[c] EXCEPT !.pc = "back", !.mark = m,
                                       !.ids = call[c].ids \ {m},
                                       !.seen = obj[m].claim_id, !.ttl = obj[m].ttl,
                                       !.end = obj[m].end]
                  ELSE [call[c] EXCEPT !.ids = call[c].ids \ {m}]]
    /\ UNCHANGED <<now, cont, obj, cobj, del, purge, posted, told>>

\* Mutant: the claimid header survives the release.
PutBackHeader(c) ==
    LET m == call[c].mark
    IN  /\ call[c].pc = "back"
        /\ Matches(c, m)
        /\ obj' = [obj EXCEPT ![m] = [obj[m] EXCEPT !.claim_id = NoClaim]]
        /\ call' = [call EXCEPT ![c] = [IdleCall EXCEPT !.pc = "find", !.ids = call[c].ids]]
        /\ UNCHANGED <<now, cont, cobj, del, purge, posted, told>>

PutBack(c) ==
    LET m == call[c].mark
    IN  /\ call[c].pc = "back"
        /\ Matches(c, m)
        /\ obj' = [obj EXCEPT ![m] = [claim_id |-> NoClaim, ttl |-> call[c].ttl,
                                      meta |-> NoClaim, end |-> call[c].end]]
        /\ call' = [call EXCEPT ![c] = [IdleCall EXCEPT !.pc = "find", !.ids = call[c].ids]]
        /\ UNCHANGED <<now, cont, cobj, del, purge, posted, told>>

Drop(c) ==
    /\ call[c].pc = "drop"
    /\ cobj' = [cobj EXCEPT ![c] = NoClaimObject]
    /\ call' = [call EXCEPT ![c] = [IdleCall EXCEPT !.pc = "closed"]]
    /\ UNCHANGED <<now, cont, obj, del, purge, posted, told>>

\* A 412 of the release, or a request that fails: the call raises where it is.
\* A creation leaves messages tagged without a claim object, a release leaves
\* the claim object and the messages it has not come to.
Abort(c) ==
    /\ \/ call[c].pc \in {"list", "look", "put", "record", "bulk"}
          /\ call' = [call EXCEPT ![c] = [IdleCall EXCEPT !.pc = "closed"]]
       \/ call[c].pc = "renew"
          /\ call' = [call EXCEPT ![c] = [IdleCall EXCEPT !.pc = "open"]]
       \/ call[c].pc \in {"find", "back", "drop"}
          /\ call' = [call EXCEPT ![c] =
                         [IdleCall EXCEPT !.pc = IF Retry THEN "open" ELSE "closed"]]
    /\ UNCHANGED <<now, cont, obj, cobj, del, purge, posted, told>>

-------------------------------------------------------------------------------
\* delete(): get the message, look at its claim, then delete the object.

\* With the claim's id: the claim object exists and the message names it.
\* Without: nothing claims it, or the claim object is gone.
MayDelete(m, c) ==
    IF c = NoClaim
    THEN ~Live(obj[m].claim_id)
    ELSE Live(c) /\ obj[m].claim_id = c

DeleteCheck(d) ==
    /\ del[d] = 0 /\ cont
    /\ \E m \in Msgs, c \in Claims \cup {NoClaim} :
          /\ Stored(m) /\ MayDelete(m, c)
          /\ del' = [del EXCEPT ![d] = m]
    /\ UNCHANGED <<now, cont, obj, cobj, call, purge, posted, told>>

Delete(d) ==
    /\ del[d] # 0
    /\ obj' = Gone(del[d])
    /\ del' = [del EXCEPT ![d] = 0]
    /\ UNCHANGED <<now, cont, cobj, call, purge, posted, told>>

-------------------------------------------------------------------------------
\* MessageQueueHandler.delete(): for each container, list one page of names,
\* delete them, delete the container (409 when it has objects is ignored).

Purge ==
    /\ purge.pc = "idle" /\ cont
    /\ purge' = [pc |-> "msgs", ids |-> Listing(0, PageSize)]
    /\ UNCHANGED <<now, cont, obj, cobj, call, del, posted, told>>

PurgeObject ==
    /\ \/ purge.pc = "msgs" /\ UNCHANGED cobj
          /\ \E m \in purge.ids :
                /\ obj' = Gone(m)
                /\ purge' = [purge EXCEPT !.ids = @ \ {m}]
       \/ purge.pc = "claims" /\ UNCHANGED obj
          /\ \E c \in purge.ids :
                /\ cobj' = [cobj EXCEPT ![c] = NoClaimObject]
                /\ purge' = [purge EXCEPT !.ids = @ \ {c}]
    /\ UNCHANGED <<now, cont, call, del, posted, told>>

PurgeContainer ==
    /\ purge.ids = {}
    /\ \/ purge.pc = "msgs"
          /\ cont' = (cont /\ \E m \in Msgs : Stored(m))
          /\ \E page \in SUBSET {c \in Claims : Live(c)} :
                /\ Cardinality(page) <= PageSize
                /\ purge' = [pc |-> "claims", ids |-> page]
                /\ Cardinality(page) < PageSize => page = {c \in Claims : Live(c)}
       \/ purge.pc = "claims"
          /\ purge' = [pc |-> "idle", ids |-> {}]
          /\ UNCHANGED cont
    /\ UNCHANGED <<now, obj, cobj, call, del, posted, told>>

Tick ==
    /\ now < MaxTime
    /\ now' = now + 1
    /\ UNCHANGED <<cont, obj, cobj, call, del, purge, posted, told>>

Next ==
    \/ \E m \in Msgs : Post(m) \/ PostLost(m)
    \/ \E c \in Claims :
          \/ Create(c) \/ ListPage(c) \/ Look(c) \/ Put(c) \/ Record(c) \/ PopDelete(c)
          \/ Renew(c) \/ RenewPut(c)
          \/ Release(c) \/ Find(c) \/ PutBack(c) \/ Drop(c) \/ Abort(c)
    \/ \E d \in Deleters : DeleteCheck(d) \/ Delete(d)
    \/ Purge \/ PurgeObject \/ PurgeContainer
    \/ Tick

Spec == Init /\ [][Next]_vars

-------------------------------------------------------------------------------
\* get(): the messages a claim object lists that are still there.
Reads(c) == IF Live(c) THEN {m \in cobj[c].ids : Stored(m)} ELSE {}

\* stats(): counted on the claimid header, not on the content.
StatsClaimed == Cardinality({m \in Msgs : Stored(m) /\ obj[m].meta # NoClaim})

\* What claim creation or pop returned to one client is returned to no other
\* until the first one gives it up, whatever listings, deletions, crashes and
\* expiries come between a message's listing and its put (claims.create()).
ClaimedOnce ==
    \A c, d \in Claims : c # d => told[c] \cap told[d] = {}

\* A client that has not released its claim reads, through get(), only messages
\* whose content still names that claim.
ReadsOwn ==
    \A c \in Claims : \A m \in Reads(c) \cap told[c] : obj[m].claim_id = c

\* The claimed count of stats() is the number of messages that claim creation
\* would skip, although the two look at different parts of the object.
StatsAgree ==
    StatsClaimed = Cardinality({m \in Msgs : Stored(m) /\ obj[m].claim_id # NoClaim})

\* Every step leases, renews, releases or removes messages as ClaimLease allows.
\* A lease in Swift ends with its release, never with time.
Lease == INSTANCE ClaimLease WITH
    clock   <- now,
    holder  <- [m \in Msgs |-> obj[m].claim_id],
    until   <- [m \in Msgs |-> IF obj[m].claim_id = NoClaim THEN 0 ELSE MaxTime + 1],
    removed <- {m \in posted : obj[m].end = 0}

Implements == Lease!Spec
===============================================================================
