--------------------------- MODULE MongoClaimsProofs --------------------------
(* Proofs about MongoClaims, for any number of messages, claims, deleters and *)
(* poppers, any TTLs and limits, and any bound of the clock.                  *)
EXTENDS MongoClaims, TLAPS

\* The times a call works with are not in the future, and the expiry it writes
\* is at most one TTL away.
TimesPast ==
    /\ \A c \in Claims : call[c].tnow <= now
    /\ \A p \in Poppers : pop[p].tnow <= now
    /\ \A c \in Claims :
          call[c].pc \in {"list", "reread", "tag", "extend", "uptag", "upextend"}
              => \E ttl \in ClaimTtls : call[c].exp <= now + ttl

\* A document in the claim of a call has been given what the call's updates have
\* given the documents they visited.
TagsAgree ==
    \A c \in Claims, m \in MsgIds :
        doc[m].st = "stored" /\ doc[m].cid = c =>
            /\ call[c].pc \notin {"idle", "list", "reread"}
            /\ call[c].pc \in {"tag", "extend", "upextend"}
                  => doc[m].ce = call[c].exp
            /\ call[c].pc = "uptag" /\ m \notin call[c].todo
                  => doc[m].ce = call[c].exp
            /\ call[c].pc \in {"extend", "upextend"} /\ m \notin call[c].todo
                  => doc[m].e >= call[c].exp
            /\ call[c].pc \in {"get", "open"} => doc[m].e >= doc[m].ce

\* Between calls, the messages of a claim expire together.
OneExpiry ==
    \A c \in Claims, m \in MsgIds, k \in MsgIds :
        call[c].pc \in {"get", "open"} =>
            (doc[m].st = "stored" /\ doc[m].cid = c
             /\ doc[k].st = "stored" /\ doc[k].cid = c
                => doc[m].ce = doc[k].ce)

\* What an owner believes, as long as its lease runs, is in the documents.
BeliefHolds ==
    \A c \in Claims :
        /\ held[c] # {} => call[c].pc \in {"open", "uptag", "upextend"}
        /\ call[c].pc \in {"uptag", "upextend"} => lease[c] <= call[c].exp
        /\ \A m \in held[c] : lease[c] > now =>
              /\ doc[m].st # "unposted"
              /\ doc[m].cid = c
              /\ doc[m].ce >= lease[c]
              /\ doc[m].st = "stored" => doc[m].e >= lease[c]

\* An unposted message has no claim; a popped one is gone, its claim run out.
DocsSane ==
    \A m \in MsgIds :
        /\ doc[m].st = "unposted" => doc[m].cid = NoClaim
        /\ m \in popped => doc[m].st = "gone" /\ doc[m].ce <= now

\* The inductive invariant.
IInv ==
    /\ TypeOK
    /\ TimesPast
    /\ TagsAgree
    /\ OneExpiry
    /\ BeliefHolds
    /\ DocsSane
    /\ OrphanedClaimsRunOut

-------------------------------------------------------------------------------
\* The strengthened invariant holds in the empty queue.
LEMMA InitIInv == Init => IInv
  BY MongoClaimsAssumption
  DEF MongoClaimsAssumption, Init, IInv, TypeOK, TimesPast, TagsAgree, OneExpiry,
      BeliefHolds, DocsSane, OrphanedClaimsRunOut, Doc, Call, Calling, Del,
      NotDeleting, Pop

\* The fields of a call have their types.
LEMMA CallFields ==
  ASSUME TypeOK, NEW c \in Claims
  PROVE  /\ call[c] \in Call
         /\ call[c].exp \in Nat /\ call[c].grace \in Nat /\ call[c].tnow \in Nat
         /\ call[c].todo \subseteq MsgIds /\ call[c].hit \in BOOLEAN
  BY DEF TypeOK, Call

\* The fields of a document have their types.
LEMMA DocFields ==
  ASSUME TypeOK, NEW m \in MsgIds
  PROVE  /\ doc[m] \in Doc
         /\ doc[m].ce \in Nat /\ doc[m].e \in Nat
  BY DEF TypeOK, Doc

\* A call that keeps no local state is a call.
LEMMA CallingType ==
  ASSUME NEW pc \in {"get", "open", "done"} PROVE Calling(pc) \in Call
  BY DEF Calling, Call

\* Writing one document keeps the collection well typed.
LEMMA DocSet ==
  ASSUME TypeOK, NEW m \in MsgIds, NEW r \in Doc, doc' = [doc EXCEPT ![m] = r]
  PROVE  doc' \in [MsgIds -> Doc]
  BY DEF TypeOK

\* Writing the state of one call keeps the calls well typed.
LEMMA CallSet ==
  ASSUME TypeOK, NEW c \in Claims, NEW r \in Call, call' = [call EXCEPT ![c] = r]
  PROVE  call' \in [Claims -> Call]
  BY DEF TypeOK

\* A multi-document update that leaves one document keeps the calls well typed.
LEMMA VisitedType ==
  ASSUME TypeOK, NEW c \in Claims, NEW m \in MsgIds, NEW next \in Call,
         Visited(c, m, next)
  PROVE  call' \in [Claims -> Call]
<1>1. [call[c] EXCEPT !.todo = @ \ {m}] \in Call
  BY CallFields DEF Call
<1>2. CASE call[c].todo = {m}
  BY <1>2, CallSet, Zenon DEF Visited
<1>3. CASE call[c].todo # {m}
  <2>1. call' = [call EXCEPT ![c] = [call[c] EXCEPT !.todo = @ \ {m}]]
    BY <1>3 DEF Visited
  <2> QED
    BY <1>1, <2>1, CallSet, Zenon
<1> QED
  BY <1>2, <1>3

\* The second update of create() and update() starts from a well-typed call.
LEMMA ExtendingType ==
  ASSUME TypeOK, NEW c \in Claims, NEW pc \in {"extend", "upextend"}
  PROVE  Extending(c, pc) \in Call
  BY CallFields, Zenon DEF Extending, Call

\* Removing a document keeps the collection well typed.
LEMMA GoneType ==
  ASSUME TypeOK, NEW m \in MsgIds, Gone(m) PROVE doc' \in [MsgIds -> Doc]
<1>1. [doc[m] EXCEPT !.st = "gone", !.e = 0] \in Doc
  BY DocFields, Zenon DEF Doc
<1> QED
  BY <1>1, DocSet, Zenon DEF Gone

\* create() up to its first query keeps the types.
LEMMA CreateStartType ==
  ASSUME TypeOK, NEW c \in Claims, CreateStart(c) PROVE TypeOK'
<1>1. PICK ttl \in ClaimTtls, g \in Graces :
        call' = [call EXCEPT ![c] = [@ EXCEPT !.pc = "list", !.exp = now + ttl,
                                              !.grace = g]]
  BY Zenon DEF CreateStart
<1>2. now + ttl \in Nat /\ g \in Nat
  BY MongoClaimsAssumption DEF MongoClaimsAssumption, TypeOK
<1>3. [call[c] EXCEPT !.pc = "list", !.exp = now + ttl, !.grace = g] \in Call
  BY <1>2, CallFields, Zenon DEF Call
<1>4. call' \in [Claims -> Call]
  BY <1>1, <1>3, CallSet, Zenon
<1> QED
  BY <1>4 DEF TypeOK, CreateStart

\* get() keeps the types.
LEMMA GetType ==
  ASSUME TypeOK, NEW c \in Claims, Get(c) PROVE TypeOK'
<1>1. CASE Claimed(c) # {}
  <2>2. call' \in [Claims -> Call]
    BY <1>1, CallSet, CallingType DEF Get, ReadClaim
  <2>3. held' \in [Claims -> SUBSET MsgIds]
    BY <1>1 DEF Get, ReadClaim, TypeOK, Claimed
  <2>4. PICK first \in MsgIds : lease' = [lease EXCEPT ![c] = doc[first].ce]
    BY <1>1 DEF Get, ReadClaim, Claimed
  <2>5. lease' \in [Claims -> Nat]
    BY <2>4, DocFields DEF TypeOK
  <2> QED
    BY <2>2, <2>3, <2>5 DEF TypeOK, Get, ReadClaim
<1>2. CASE Claimed(c) = {}
  <2>1. call' \in [Claims -> Call]
    BY <1>2, CallSet, CallingType DEF Get, ReadClaim, Finish
  <2> QED
    BY <1>2, <2>1 DEF TypeOK, Get, ReadClaim, Finish, Forget
<1> QED
  BY <1>1, <1>2

\* update() up to its first write keeps the types.
LEMMA UpdateStartType ==
  ASSUME TypeOK, NEW c \in Claims, UpdateStart(c) PROVE TypeOK'
<1>1. CASE Claimed(c) # {}
  <2>1. PICK ttl \in ClaimTtls, g \in Graces :
          /\ call' = [call EXCEPT ![c] =
                          [@ EXCEPT !.pc = "uptag", !.todo = MsgIds,
                                    !.exp = now + ttl, !.grace = g]]
          /\ lease' = [lease EXCEPT ![c] = IF now + ttl < @ THEN now + ttl ELSE @]
    BY <1>1, Zenon DEF UpdateStart
  <2>2. now + ttl \in Nat /\ g \in Nat
    BY MongoClaimsAssumption DEF MongoClaimsAssumption, TypeOK
  <2>3. [call[c] EXCEPT !.pc = "uptag", !.todo = MsgIds,
                        !.exp = now + ttl, !.grace = g] \in Call
    BY <2>2, CallFields, Zenon DEF Call
  <2>4. call' \in [Claims -> Call]
    BY <2>1, <2>3, CallSet, Zenon
  <2>5. lease' \in [Claims -> Nat]
    BY <2>1, <2>2 DEF TypeOK
  <2> QED
    BY SMTT(30), <1>1, <2>4, <2>5 DEF TypeOK, UpdateStart
<1>2. CASE Claimed(c) = {}
  <2>1. Finish(c)
    BY <1>2 DEF UpdateStart
  <2>2. call' \in [Claims -> Call]
    BY <2>1, CallSet, CallingType, Zenon DEF Finish
  <2> QED
    BY <2>1, <2>2 DEF TypeOK, UpdateStart, Finish, Forget
<1> QED
  BY <1>1, <1>2

\* create()'s first update keeps the types, document by document.
LEMMA TagType ==
  ASSUME TypeOK, NEW c \in Claims, NEW m \in MsgIds, Tag(c, m) PROVE TypeOK'
<1>1. [doc[m] EXCEPT !.cid = c, !.ce = call[c].exp] \in Doc
  BY DocFields, CallFields, Zenon DEF Doc
<1>2. doc' \in [MsgIds -> Doc]
  <2>1. CASE Stored(m) /\ doc[m].ce <= call[c].tnow
    BY <1>1, <2>1, DocSet, Zenon DEF Tag
  <2>2. CASE ~(Stored(m) /\ doc[m].ce <= call[c].tnow)
    BY <2>2 DEF Tag, TypeOK
  <2> QED BY <2>1, <2>2
<1>3. PICK hit \in BOOLEAN :
        call' = [call EXCEPT ![c] =
                   IF @.todo = {m}
                   THEN [Extending(c, "extend") EXCEPT !.hit = hit]
                   ELSE [call[c] EXCEPT !.todo = @ \ {m}, !.hit = hit]]
  BY CallFields, Zenon DEF Tag
<1>4. [Extending(c, "extend") EXCEPT !.hit = hit] \in Call
  BY ExtendingType DEF Call
<1>5. [call[c] EXCEPT !.todo = @ \ {m}, !.hit = hit] \in Call
  BY CallFields, Zenon DEF Call
<1>6. call' \in [Claims -> Call]
  <2>1. CASE call[c].todo = {m}
    BY <1>3, <1>4, <2>1, CallSet, Zenon
  <2>2. CASE call[c].todo # {m}
    <3>1. call' = [call EXCEPT ![c] =
                      [call[c] EXCEPT !.todo = @ \ {m}, !.hit = hit]]
      BY <1>3, <2>2
    <3> QED
      BY <1>5, <3>1, CallSet, Zenon
  <2> QED BY <2>1, <2>2
<1> QED
  BY <1>2, <1>6 DEF TypeOK, Tag

\* The extension of message expiries keeps the types.
LEMMA ExtendType ==
  ASSUME TypeOK, NEW c \in Claims, NEW m \in MsgIds, Extend(c, m) PROVE TypeOK'
<1>1. [doc[m] EXCEPT !.e = call[c].exp + call[c].grace] \in Doc
  BY DocFields, CallFields DEF Doc
<1>2. doc' \in [MsgIds -> Doc]
  <2>1. CASE Stored(m) /\ doc[m].cid = c /\ doc[m].e < call[c].exp
    BY <1>1, <2>1, DocSet, Zenon DEF Extend
  <2>2. CASE ~(Stored(m) /\ doc[m].cid = c /\ doc[m].e < call[c].exp)
    BY <2>2 DEF Extend, TypeOK
  <2> QED BY <2>1, <2>2
<1>3. call' \in [Claims -> Call]
  BY CallingType, VisitedType DEF Extend
<1> QED
  BY <1>2, <1>3 DEF TypeOK, Extend

\* update()'s first update keeps the types, document by document.
LEMMA UpTagType ==
  ASSUME TypeOK, NEW c \in Claims, NEW m \in MsgIds, UpTag(c, m) PROVE TypeOK'
<1>1. [doc[m] EXCEPT !.ce = call[c].exp] \in Doc
  BY DocFields, CallFields DEF Doc
<1>2. doc' \in [MsgIds -> Doc]
  <2>1. CASE Stored(m) /\ doc[m].cid = c
    BY <1>1, <2>1, DocSet, Zenon DEF UpTag
  <2>2. CASE ~(Stored(m) /\ doc[m].cid = c)
    BY <2>2 DEF UpTag, TypeOK
  <2> QED BY <2>1, <2>2
<1>3. call' \in [Claims -> Call]
  BY ExtendingType, VisitedType DEF UpTag
<1> QED
  BY <1>2, <1>3 DEF TypeOK, UpTag

\* _unclaim() keeps the types, document by document.
LEMMA UnclaimType ==
  ASSUME TypeOK, NEW c \in Claims, NEW m \in MsgIds, Unclaim(c, m) PROVE TypeOK'
<1>1. [doc[m] EXCEPT !.cid = NoClaim, !.ce = call[c].tnow] \in Doc
  BY DocFields, CallFields, Zenon DEF Doc
<1>2. doc' \in [MsgIds -> Doc]
  <2>1. CASE Stored(m) /\ doc[m].cid = c
    BY <1>1, <2>1, DocSet, Zenon DEF Unclaim
  <2>2. CASE ~(Stored(m) /\ doc[m].cid = c)
    BY <2>2 DEF Unclaim, TypeOK
  <2> QED BY <2>1, <2>2
<1>3. call' \in [Claims -> Call]
  BY CallingType, VisitedType DEF Unclaim
<1> QED
  BY <1>2, <1>3 DEF TypeOK, Unclaim

\* post() keeps the types.
LEMMA PostType ==
  ASSUME TypeOK, NEW m \in MsgIds, Post(m) PROVE TypeOK'
<1>1. PICK t \in 1..now, ttl \in MsgTtls :
        doc' = [doc EXCEPT ![m] = [st |-> "stored", cid |-> NoClaim, ce |-> t,
                                   e |-> t + ttl]]
  BY Zenon DEF Post
<1>2. t \in Nat /\ t + ttl \in Nat
  BY MongoClaimsAssumption DEF MongoClaimsAssumption, TypeOK
<1>3. [st |-> "stored", cid |-> NoClaim, ce |-> t, e |-> t + ttl] \in Doc
  BY <1>2 DEF Doc
<1>4. doc' \in [MsgIds -> Doc]
  BY <1>1, <1>3, DocSet, Zenon
<1> QED
  BY <1>4 DEF TypeOK, Post

\* The steps of a single deletion keep the types.
LEMMA DeleteType ==
  ASSUME TypeOK, NEW d \in Deleters,
         \/ \E m \in MsgIds, c \in Claims \cup {NoClaim} : DeleteMsg(d, m, c)
         \/ DeleteReread(d)
         \/ DeleteRemove(d)
  PROVE  TypeOK'
<1>1. CASE \E m \in MsgIds, c \in Claims \cup {NoClaim} : DeleteMsg(d, m, c)
  BY <1>1 DEF DeleteMsg, TypeOK, Del
<1>2. CASE DeleteReread(d)
  <2>1. del[d] \in Del
    BY <1>2 DEF DeleteReread, TypeOK, NotDeleting
  <2>2. [del[d] EXCEPT !.pc = "remove"] \in Del
    BY <2>1 DEF Del
  <2>3. del' \in [Deleters -> Del \cup {NotDeleting}]
    BY <1>2, <2>2 DEF DeleteReread, TypeOK
  <2> QED
    BY <1>2, <2>3 DEF DeleteReread, TypeOK
<1>3. CASE DeleteRemove(d)
  <2>1. del[d] \in Del
    BY <1>3 DEF DeleteRemove, TypeOK, NotDeleting
  <2>2. del[d].m \in MsgIds
    BY <2>1 DEF Del
  <2>3. doc' \in [MsgIds -> Doc]
    BY <1>3, <2>2, GoneType DEF DeleteRemove, TypeOK
  <2>4. del' \in [Deleters -> Del \cup {NotDeleting}]
    BY <1>3 DEF DeleteRemove, TypeOK
  <2> QED
    BY <1>3, <2>3, <2>4 DEF DeleteRemove, TypeOK
<1> QED
  BY SMTT(30), <1>1, <1>2, <1>3

\* The steps of a pop keep the types.
LEMMA PopType ==
  ASSUME TypeOK, NEW p \in Poppers, PopStart(p) \/ PopOne(p) PROVE TypeOK'
<1>1. CASE PopStart(p)
  BY <1>1, MongoClaimsAssumption DEF PopStart, TypeOK, Pop, MongoClaimsAssumption
<1>2. CASE PopOne(p)
  <2>1. pop[p] \in Pop
    BY DEF TypeOK
  <2>2. [pop[p] EXCEPT !.left = @ - 1] \in Pop
    BY <1>2, <2>1 DEF PopOne, Pop
  <2>3. pop' \in [Poppers -> Pop]
    BY <1>2, <2>2 DEF PopOne, TypeOK
  <2>4. doc' \in [MsgIds -> Doc]
    BY <1>2, GoneType DEF PopOne, TypeOK
  <2>5. popped' \subseteq MsgIds
    BY <1>2 DEF PopOne, TypeOK
  <2> QED
    BY <1>2, <2>3, <2>4, <2>5 DEF PopOne, TypeOK
<1> QED
  BY <1>1, <1>2

\* Every step keeps the types.
LEMMA NextTypeOK == TypeOK /\ [Next]_vars => TypeOK'
<1> SUFFICES ASSUME TypeOK, [Next]_vars PROVE TypeOK'
  OBVIOUS
<1>1. ASSUME NEW c \in Claims, List(c) PROVE TypeOK'
  <2>1. [call[c] EXCEPT !.pc = "reread", !.todo = Active] \in Call
    BY CallFields, Zenon DEF Call, Active
  <2>2. call' \in [Claims -> Call]
    BY <1>1, <2>1, CallSet, CallingType, Zenon DEF List
  <2> QED
    BY SMTT(30), <1>1, <2>2 DEF List, TypeOK
<1>2. ASSUME NEW c \in Claims, Reread(c) PROVE TypeOK'
  <2>1. [call[c] EXCEPT !.pc = "tag", !.tnow = now] \in Call
    BY CallFields, ZenonT(30) DEF Call, TypeOK
  <2>2. call' \in [Claims -> Call]
    BY <1>2, <2>1, CallSet, Zenon DEF Reread
  <2> QED
    BY <1>2, <2>2 DEF Reread, TypeOK
<1>3. ASSUME NEW c \in Claims, DeleteStart(c) PROVE TypeOK'
  <2>1. [call[c] EXCEPT !.pc = "untag", !.todo = MsgIds, !.tnow = now] \in Call
    BY CallFields, ZenonT(30) DEF Call, TypeOK
  <2>2. call' \in [Claims -> Call]
    BY <1>3, <2>1, CallSet, Zenon DEF DeleteStart
  <2> QED
    BY <1>3, <2>2 DEF DeleteStart, Forget, TypeOK
<1>4. ASSUME NEW c \in Claims, Abandon(c) PROVE TypeOK'
  <2>1. call' \in [Claims -> Call]
    BY <1>4, CallSet, CallingType, Zenon DEF Abandon, Finish
  <2> QED
    BY <1>4, <2>1 DEF Abandon, Finish, Forget, TypeOK
<1>5. ASSUME NEW m \in MsgIds, BulkDelete(m) \/ ExpireDoc(m) PROVE TypeOK'
  BY <1>5, GoneType DEF BulkDelete, ExpireDoc, TypeOK
<1>6. CASE Tick
  BY <1>6 DEF Tick, TypeOK
<1>7. CASE UNCHANGED vars
  BY <1>7 DEF vars, TypeOK
<1> QED
  BY SMTT(30), <1>1, <1>2, <1>3, <1>4, <1>5, <1>6, <1>7, CreateStartType, GetType,
     UpdateStartType, TagType, ExtendType, UpTagType, UnclaimType, PostType,
     DeleteType, PopType
  DEF Next, ClaimStep
\* Removing a document, by whichever operation, breaks nothing that claims and
\* their owners rely on.
LEMMA GoneRest ==
  ASSUME IInv, NEW m \in MsgIds, Stored(m), Gone(m),
         UNCHANGED <<now, call, held, lease>>
  PROVE  /\ TagsAgree' /\ OneExpiry' /\ BeliefHolds' /\ OrphanedClaimsRunOut'
         /\ doc'[m].st = "gone" /\ doc'[m].ce = doc[m].ce
         /\ \A k \in MsgIds \ {m} : doc'[k] = doc[k]
<1>1. /\ doc'[m].st = "gone" /\ doc'[m].cid = doc[m].cid /\ doc'[m].ce = doc[m].ce
      /\ \A k \in MsgIds \ {m} : doc'[k] = doc[k]
  BY SMTT(30) DEF Gone, IInv, TypeOK, Doc
<1>2. TagsAgree'
  BY <1>1 DEF IInv, TagsAgree
<1>3. OneExpiry'
  BY SMTT(30), <1>1 DEF IInv, OneExpiry
<1>4. BeliefHolds'
  BY <1>1 DEF IInv, BeliefHolds, TypeOK
<1>5. OrphanedClaimsRunOut'
  BY <1>1 DEF IInv, OrphanedClaimsRunOut
<1> QED
  BY <1>1, <1>2, <1>3, <1>4, <1>5

\* create() up to its first query keeps the invariant.
LEMMA CreateStartInv ==
  ASSUME IInv, TypeOK', NEW c \in Claims, CreateStart(c) PROVE IInv'
<1>1. PICK ttl \in ClaimTtls, g \in Graces :
        call' = [call EXCEPT ![c] = [@ EXCEPT !.pc = "list", !.exp = now + ttl,
                                              !.grace = g]]
  BY Zenon DEF CreateStart
<1>2. /\ call'[c].pc = "list" /\ call'[c].exp = now + ttl
      /\ call'[c].tnow = call[c].tnow
      /\ \A d \in Claims \ {c} : call'[d] = call[d]
  BY <1>1 DEF IInv, TypeOK, Call
<1>3. TimesPast'
  BY SMTT(30), <1>2, MongoClaimsAssumption
  DEF CreateStart, IInv, TimesPast, TypeOK, MongoClaimsAssumption
<1>4. TagsAgree' /\ OneExpiry' /\ BeliefHolds'
  BY <1>2 DEF CreateStart, IInv, TagsAgree, OneExpiry, BeliefHolds
<1>5. DocsSane' /\ OrphanedClaimsRunOut'
  BY DEF CreateStart, IInv, DocsSane, OrphanedClaimsRunOut
<1> QED
  BY <1>3, <1>4, <1>5 DEF IInv

\* The listing of create() keeps the invariant.
LEMMA ListInv ==
  ASSUME IInv, TypeOK', NEW c \in Claims, List(c) PROVE IInv'
<1>1. /\ call[c].pc = "list"
      /\ call'[c].pc \in {"done", "reread"}
      /\ call'[c].pc = "reread" => call'[c].exp = call[c].exp
      /\ call'[c].tnow \in {0, call[c].tnow}
      /\ \A d \in Claims \ {c} : call'[d] = call[d]
  <2>1. CASE Active = {}
    BY <2>1 DEF List, IInv, TypeOK, Call, Calling
  <2>2. CASE Active # {}
    BY <2>2 DEF List, IInv, TypeOK, Call
  <2> QED
    BY <2>1, <2>2
<1>2. TimesPast'
  BY SMTT(30), <1>1 DEF List, IInv, TimesPast, TypeOK
<1>3. TagsAgree' /\ OneExpiry' /\ BeliefHolds'
  BY <1>1 DEF List, IInv, TagsAgree, OneExpiry, BeliefHolds
<1>4. DocsSane' /\ OrphanedClaimsRunOut'
  BY DEF List, IInv, DocsSane, OrphanedClaimsRunOut
<1> QED
  BY SMTT(30), <1>2, <1>3, <1>4 DEF IInv

\* The second reading of the clock in create() keeps the invariant.
LEMMA RereadInv ==
  ASSUME IInv, TypeOK', NEW c \in Claims, Reread(c) PROVE IInv'
<1>1. TimesPast'
    BY SMTT(30) DEF Reread, IInv, TimesPast, TypeOK, Doc, Call, Pop
<1>2. TagsAgree'
    BY SMTT(30) DEF Reread, IInv, TagsAgree, TimesPast, TypeOK, Doc, Call
<1>3. OneExpiry'
    BY SMTT(30) DEF Reread, IInv, OneExpiry, TimesPast, TagsAgree, TypeOK, Doc, Call
<1>4. BeliefHolds'
    BY DEF Reread, IInv, BeliefHolds, TimesPast, TagsAgree, OneExpiry, TypeOK,
         Doc, Call
<1>5. DocsSane'
    BY DEF Reread, IInv, DocsSane, TimesPast, TypeOK, Doc, Call
<1>6. OrphanedClaimsRunOut'
    BY DEF Reread, IInv, OrphanedClaimsRunOut, TimesPast, TypeOK, Doc, Call
<1> QED
  BY Zenon, <1>1, <1>2, <1>3, <1>4, <1>5, <1>6 DEF IInv

\* A call that ends with nothing held (not found, abandoned) keeps the invariant.
LEMMA FinishInv ==
  ASSUME IInv, TypeOK', NEW c \in Claims, Finish(c),
         UNCHANGED <<now, doc, pop, popped>>
  PROVE  IInv'
<1>1. /\ call'[c].pc = "done" /\ call'[c].tnow = 0
      /\ held'[c] = {} /\ lease'[c] = 0
      /\ \A d \in Claims \ {c} : /\ call'[d] = call[d]
                                 /\ held'[d] = held[d] /\ lease'[d] = lease[d]
  BY SMTT(30) DEF Finish, Forget, Calling, IInv, TypeOK
<1>2. TimesPast'
  BY SMTT(30), <1>1 DEF IInv, TimesPast, TypeOK
<1>3. TagsAgree' /\ OneExpiry'
  BY SMTT(30), <1>1 DEF IInv, TagsAgree, OneExpiry
<1>4. BeliefHolds'
  BY <1>1 DEF IInv, BeliefHolds
<1>5. DocsSane' /\ OrphanedClaimsRunOut'
  BY DEF IInv, DocsSane, OrphanedClaimsRunOut
<1> QED
  BY SMTT(30), <1>2, <1>3, <1>4, <1>5 DEF IInv

\* get() tells the owner what the documents say, so it keeps the invariant.
LEMMA GetInv ==
  ASSUME IInv, TypeOK', NEW c \in Claims, Get(c) PROVE IInv'
<1>1. CASE Claimed(c) # {}
  <2>1. /\ call'[c].pc = "open" /\ call'[c].tnow = 0
        /\ held'[c] = Claimed(c)
        /\ \A d \in Claims \ {c} : /\ call'[d] = call[d]
                                   /\ held'[d] = held[d] /\ lease'[d] = lease[d]
    BY SMTT(30), <1>1 DEF Get, ReadClaim, Calling, IInv, TypeOK
  <2>2. PICK first \in Claimed(c) : lease'[c] = doc[first].ce
    BY SMTT(30), <1>1 DEF Get, ReadClaim, IInv, TypeOK
  <2>3. \A m \in Claimed(c) : doc[m].ce = lease'[c] /\ doc[m].e >= doc[m].ce
    BY SMTT(30), <2>2 DEF Get, ReadClaim, Claimed, Stored, IInv, OneExpiry, TagsAgree
  <2>4. TimesPast'
    BY SMTT(30), <2>1 DEF Get, ReadClaim, IInv, TimesPast, TypeOK
  <2>5. TagsAgree'
    BY SMTT(30), <2>1 DEF Get, ReadClaim, IInv, TagsAgree
  <2>6. OneExpiry'
    BY SMTT(30), <2>1 DEF Get, ReadClaim, IInv, OneExpiry
  <2>7. BeliefHolds'
    <3> SUFFICES ASSUME NEW d \in Claims
                 PROVE  /\ held'[d] # {} => call'[d].pc \in {"open", "uptag", "upextend"}
                        /\ call'[d].pc \in {"uptag", "upextend"} => lease'[d] <= call'[d].exp
                        /\ \A m \in held'[d] : lease'[d] > now' =>
                              /\ doc'[m].st # "unposted"
                              /\ doc'[m].cid = d
                              /\ doc'[m].ce >= lease'[d]
                              /\ doc'[m].st = "stored" => doc'[m].e >= lease'[d]
      BY SMTT(30) DEF BeliefHolds
    <3>1. CASE d = c
      <4>1. \A m \in Claimed(c) : /\ m \in MsgIds /\ Stored(m) /\ doc[m].cid = c
                                  /\ doc[m].ce \in Nat /\ doc[m].e \in Nat
        BY ZenonT(30), DocFields DEF Claimed, IInv
      <4> QED
        BY SMTT(30), <3>1, <2>1, <2>3, <4>1 DEF Get, ReadClaim, Stored
    <3>2. CASE d # c
      BY SMTT(30), <3>2, <2>1 DEF Get, ReadClaim, IInv, BeliefHolds
    <3> QED
      BY SMTT(30), <3>1, <3>2
  <2>8. DocsSane' /\ OrphanedClaimsRunOut'
    BY DEF Get, ReadClaim, IInv, DocsSane, OrphanedClaimsRunOut
  <2> QED
    BY SMTT(30), <2>4, <2>5, <2>6, <2>7, <2>8 DEF IInv
<1>2. CASE Claimed(c) = {}
  BY <1>2, FinishInv DEF Get, ReadClaim
<1> QED
  BY <1>1, <1>2

\* update() up to its first write keeps the invariant: the owner may count on the
\* shorter of its two leases.
LEMMA UpdateStartInv ==
  ASSUME IInv, TypeOK', NEW c \in Claims, UpdateStart(c) PROVE IInv'
<1>1. CASE Claimed(c) # {}
  <2>1. PICK ttl \in ClaimTtls, g \in Graces :
          /\ call' = [call EXCEPT ![c] =
                          [@ EXCEPT !.pc = "uptag", !.todo = MsgIds,
                                    !.exp = now + ttl, !.grace = g]]
          /\ lease' = [lease EXCEPT ![c] = IF now + ttl < @ THEN now + ttl ELSE @]
          /\ held' = held
    BY <1>1, Zenon DEF UpdateStart
  <2>2. /\ call'[c].pc = "uptag" /\ call'[c].todo = MsgIds
        /\ call'[c].exp = now + ttl /\ call'[c].tnow = call[c].tnow
        /\ \A d \in Claims \ {c} : call'[d] = call[d]
    BY SMTT(30), <2>1 DEF IInv, TypeOK, Call
  <2>3. /\ ttl \in Nat /\ now \in Nat
        /\ lease[c] \in Nat
    BY MongoClaimsAssumption DEF MongoClaimsAssumption, IInv, TypeOK
  <2>4. /\ lease'[c] <= now + ttl /\ lease'[c] <= lease[c]
        /\ \A d \in Claims \ {c} : lease'[d] = lease[d]
    BY <2>1, <2>3 DEF IInv, TypeOK
  <2>5. TimesPast'
    BY SMTT(30), <2>2, <2>3 DEF UpdateStart, IInv, TimesPast, TypeOK
  <2>6. TagsAgree'
    BY <2>2 DEF UpdateStart, IInv, TagsAgree
  <2>7. OneExpiry'
    BY SMTT(30), <2>2 DEF UpdateStart, IInv, OneExpiry
  <2>8. BeliefHolds'
    <3> SUFFICES ASSUME NEW d \in Claims
                 PROVE  /\ held'[d] # {} => call'[d].pc \in {"open", "uptag", "upextend"}
                        /\ call'[d].pc \in {"uptag", "upextend"} => lease'[d] <= call'[d].exp
                        /\ \A m \in held'[d] : lease'[d] > now' =>
                              /\ doc'[m].st # "unposted"
                              /\ doc'[m].cid = d
                              /\ doc'[m].ce >= lease'[d]
                              /\ doc'[m].st = "stored" => doc'[m].e >= lease'[d]
      BY DEF BeliefHolds
    <3>1. CASE d = c
      <4>1. \A m \in held[c] : doc[m].ce \in Nat /\ doc[m].e \in Nat
        BY DocFields DEF IInv, TypeOK
      <4>2. lease'[c] \in Nat
        BY DEF TypeOK
      <4> QED
        BY SMTT(30), <3>1, <2>1, <2>2, <2>3, <2>4, <4>1, <4>2 DEF UpdateStart, IInv, BeliefHolds
    <3>2. CASE d # c
      BY <3>2, <2>1, <2>2, <2>4 DEF UpdateStart, IInv, BeliefHolds
    <3> QED
      BY SMTT(30), <3>1, <3>2
  <2>9. DocsSane' /\ OrphanedClaimsRunOut'
    BY DEF UpdateStart, IInv, DocsSane, OrphanedClaimsRunOut
  <2> QED
    BY SMTT(30), <2>5, <2>6, <2>7, <2>8, <2>9 DEF IInv
<1>2. CASE Claimed(c) = {}
  BY SMTT(30), <1>2, FinishInv DEF UpdateStart
<1> QED
  BY <1>1, <1>2

\* delete() forgets the claim before the documents do.
LEMMA DeleteStartInv ==
  ASSUME IInv, TypeOK', NEW c \in Claims, DeleteStart(c) PROVE IInv'
<1>1. TimesPast'
    BY SMTT(30) DEF DeleteStart, Forget, IInv, TimesPast, TypeOK, Doc, Call, Pop
<1>2. TagsAgree'
    BY SMTT(30) DEF DeleteStart, Forget, IInv, TagsAgree, TimesPast, TypeOK, Doc, Call
<1>3. OneExpiry'
    BY SMTT(30) DEF DeleteStart, Forget, IInv, OneExpiry, TimesPast, TagsAgree, TypeOK,
         Doc, Call
<1>4. BeliefHolds'
    BY DEF DeleteStart, Forget, IInv, BeliefHolds, TimesPast, TagsAgree,
         OneExpiry, TypeOK, Doc, Call
<1>5. DocsSane'
    BY Zenon DEF DeleteStart, Forget, IInv, DocsSane, TimesPast, TypeOK, Doc, Call
<1>6. OrphanedClaimsRunOut'
    BY DEF DeleteStart, Forget, IInv, OrphanedClaimsRunOut, TimesPast, TypeOK,
         Doc, Call
<1> QED
  BY Zenon, <1>1, <1>2, <1>3, <1>4, <1>5, <1>6 DEF IInv

\* A call that dies wherever it stands keeps the invariant.
LEMMA AbandonInv ==
  ASSUME IInv, TypeOK', NEW c \in Claims, Abandon(c) PROVE IInv'
  BY FinishInv DEF Abandon

\* create()'s first update, which re-checks that the message is free, keeps the
\* invariant: no running lease loses the document.
LEMMA TagInv ==
  ASSUME IInv, TypeOK', NEW c \in Claims, NEW m \in MsgIds, Tag(c, m) PROVE IInv'
<1>1. TimesPast'
    BY SMTT(30) DEF Tag, Extending, Stored, IInv, TimesPast, TypeOK, Doc, Call, Pop
<1>2. TagsAgree'
    BY SMTT(30) DEF Tag, Extending, Stored, IInv, TagsAgree, TimesPast, TypeOK, Doc,
         Call
<1>3. OneExpiry'
    BY SMTT(30) DEF Tag, Extending, Stored, IInv, OneExpiry, TimesPast, TagsAgree,
         TypeOK, Doc, Call
<1>4. BeliefHolds'
    BY SMTT(30) DEF Tag, Extending, Stored, IInv, BeliefHolds, TimesPast, TagsAgree,
         OneExpiry, TypeOK, Doc, Call
<1>5. DocsSane'
    BY SMTT(30) DEF Tag, Extending, Stored, IInv, DocsSane, TimesPast, TypeOK, Doc, Call
<1>6. OrphanedClaimsRunOut'
    BY SMTT(30) DEF Tag, Extending, Stored, IInv, OrphanedClaimsRunOut, TimesPast,
         TypeOK, Doc, Call
<1> QED
  BY ZenonT(30), <1>1, <1>2, <1>3, <1>4, <1>5, <1>6 DEF IInv

\* The extension of message expiries keeps the invariant.
LEMMA ExtendInv ==
  ASSUME IInv, TypeOK', NEW c \in Claims, NEW m \in MsgIds, Extend(c, m) PROVE IInv'
<1>1. TimesPast'
    BY SMTT(30) DEF Extend, Visited, Stored, Calling, IInv, TimesPast, TypeOK, Doc,
         Call, Pop
<1>2. TagsAgree'
    BY SMTT(30) DEF Extend, Visited, Stored, Calling, IInv, TagsAgree, TimesPast,
         TypeOK, Doc, Call
<1>3. OneExpiry'
    BY SMTT(30) DEF Extend, Visited, Stored, Calling, IInv, OneExpiry, TimesPast,
         TagsAgree, TypeOK, Doc, Call
<1>4. BeliefHolds'
    BY SMTT(30) DEF Extend, Visited, Stored, Calling, IInv, BeliefHolds, TimesPast,
         TagsAgree, OneExpiry, TypeOK, Doc, Call
<1>5. DocsSane'
    BY SMTT(30) DEF Extend, Visited, Stored, Calling, IInv, DocsSane, TimesPast, TypeOK,
         Doc, Call
<1>6. OrphanedClaimsRunOut'
    BY SMTT(30) DEF Extend, Visited, Stored, Calling, IInv, OrphanedClaimsRunOut,
         TimesPast, TypeOK, Doc, Call
<1> QED
  BY SMTT(30), <1>1, <1>2, <1>3, <1>4, <1>5, <1>6 DEF IInv

\* update()'s first update keeps the invariant: it touches its own claim's
\* documents only.
LEMMA UpTagInv ==
  ASSUME IInv, TypeOK', NEW c \in Claims, NEW m \in MsgIds, UpTag(c, m) PROVE IInv'
<1>1. TimesPast'
    BY SMTT(30) DEF UpTag, Visited, Extending, Stored, IInv, TimesPast, TypeOK, Doc,
         Call, Pop
<1>2. TagsAgree'
    BY SMTT(30) DEF UpTag, Visited, Extending, Stored, IInv, TagsAgree, TimesPast,
         TypeOK, Doc, Call
<1>3. OneExpiry'
    BY SMTT(30) DEF UpTag, Visited, Extending, Stored, IInv, OneExpiry, TimesPast,
         TagsAgree, TypeOK, Doc, Call
<1>4. BeliefHolds'
    BY SMTT(30) DEF UpTag, Visited, Extending, Stored, IInv, BeliefHolds, TimesPast,
         TagsAgree, OneExpiry, TypeOK, Doc, Call
<1>5. DocsSane'
    BY DEF UpTag, Visited, Extending, Stored, IInv, DocsSane, TimesPast,
         TypeOK, Doc, Call
<1>6. OrphanedClaimsRunOut'
    BY DEF UpTag, Visited, Extending, Stored, IInv, OrphanedClaimsRunOut,
         TimesPast, TypeOK, Doc, Call
<1> QED
  BY <1>1, <1>2, <1>3, <1>4, <1>5, <1>6 DEF IInv

\* _unclaim() keeps the invariant: it touches its own claim's documents only.
LEMMA UnclaimInv ==
  ASSUME IInv, TypeOK', NEW c \in Claims, NEW m \in MsgIds, Unclaim(c, m) PROVE IInv'
<1>1. /\ call[c].pc = "untag" /\ call'[c].pc \in {"untag", "done"}
      /\ call'[c].tnow \in {0, call[c].tnow}
      /\ \A d \in Claims \ {c} : call'[d] = call[d]
  BY DEF Unclaim, Visited, Calling, IInv, TypeOK, Call
<1>2. /\ \A k \in MsgIds \ {m} : doc'[k] = doc[k]
      /\ doc'[m].st = doc[m].st
      /\ \/ doc'[m] = doc[m]
         \/ doc[m].cid = c /\ doc'[m].cid = NoClaim /\ doc[m].st = "stored"
  BY DEF Unclaim, Stored, IInv, TypeOK, Doc
<1>3. TimesPast'
  BY SMTT(30), <1>1 DEF Unclaim, IInv, TimesPast, TypeOK
<1>4. TagsAgree'
  BY SMTT(30), <1>1, <1>2, MongoClaimsAssumption DEF MongoClaimsAssumption, IInv, TagsAgree
<1>5. OneExpiry'
  BY SMTT(30), <1>1, <1>2, MongoClaimsAssumption DEF MongoClaimsAssumption, IInv, OneExpiry
<1>6. BeliefHolds'
  BY <1>1, <1>2 DEF Unclaim, IInv, BeliefHolds, TypeOK
<1>7. DocsSane'
  BY <1>2, ZenonT(30) DEF Unclaim, IInv, DocsSane
<1>8. OrphanedClaimsRunOut'
  BY <1>2 DEF Unclaim, IInv, OrphanedClaimsRunOut
<1> QED
  BY <1>3, <1>4, <1>5, <1>6, <1>7, <1>8 DEF IInv

\* post() keeps the invariant.
LEMMA PostInv ==
  ASSUME IInv, TypeOK', NEW m \in MsgIds, Post(m) PROVE IInv'
<1>1. /\ doc[m].st = "unposted" /\ doc'[m].st = "stored" /\ doc'[m].cid = NoClaim
      /\ \A k \in MsgIds \ {m} : doc'[k] = doc[k]
  BY DEF Post, IInv, TypeOK
<1>2. UNCHANGED <<now, call, held, lease, pop, popped>> /\ NoClaim \notin Claims
  BY MongoClaimsAssumption DEF Post, MongoClaimsAssumption
<1>2a. TimesPast /\ TagsAgree /\ OneExpiry
  BY Zenon DEF IInv
<1>2b. TimesPast'
  BY Zenon, <1>2, <1>2a DEF TimesPast
<1>3. TagsAgree' /\ OneExpiry'
  BY SMTT(30), <1>1, <1>2, <1>2a DEF TagsAgree, OneExpiry
<1>4. BeliefHolds'
  BY SMTT(30), <1>1 DEF Post, IInv, BeliefHolds, TypeOK
<1>5. DocsSane' /\ OrphanedClaimsRunOut'
  BY SMTT(30), <1>1 DEF Post, IInv, DocsSane, OrphanedClaimsRunOut
<1> QED
  BY Zenon, <1>2b, <1>3, <1>4, <1>5 DEF IInv

\* A step that only reads, or only ends a deletion or a pop, keeps the invariant.
LEMMA ReadOnlyInv ==
  ASSUME IInv, TypeOK', UNCHANGED <<now, doc, call, held, lease, popped>>,
         \A p \in Poppers : pop'[p].tnow \in {pop[p].tnow, now}
  PROVE  IInv'
<1>0. /\ TimesPast /\ TagsAgree /\ OneExpiry /\ BeliefHolds /\ DocsSane
      /\ OrphanedClaimsRunOut /\ now \in Nat
  BY ZenonT(30) DEF IInv, TypeOK
<1>1. TimesPast'
  BY SMTT(30), <1>0 DEF TimesPast
<1>2. TagsAgree' /\ OneExpiry'
  BY ZenonT(30), <1>0 DEF TagsAgree, OneExpiry
<1>3. BeliefHolds' /\ DocsSane' /\ OrphanedClaimsRunOut'
  BY SMTT(30), <1>0 DEF BeliefHolds, DocsSane, OrphanedClaimsRunOut
<1> QED
  BY ZenonT(30), <1>1, <1>2, <1>3 DEF IInv

\* Removing a document keeps the invariant; a pop removes only messages whose
\* claim has run out.
LEMMA GoneInv ==
  ASSUME IInv, TypeOK', NEW m \in MsgIds, Stored(m), Gone(m),
         UNCHANGED <<now, call, held, lease>>,
         \A p \in Poppers : pop'[p].tnow = pop[p].tnow,
         popped' = popped \/ (popped' = popped \cup {m} /\ doc[m].ce <= now)
  PROVE  IInv'
<1>1. TimesPast'
  BY SMTT(30) DEF IInv, TimesPast
<1>2. DocsSane'
  BY GoneRest DEF IInv, DocsSane, Stored
<1> QED
  BY SMTT(30), <1>1, <1>2, GoneRest DEF IInv

\* The passing of time keeps the invariant.
LEMMA TickInv ==
  ASSUME IInv, TypeOK', Tick PROVE IInv'
<1>1. ClaimTtls \subseteq Nat /\ now \in Nat /\ now' = now + 1
  BY SMTT(30), MongoClaimsAssumption DEF MongoClaimsAssumption, IInv, TypeOK, Tick
<1>2. TimesPast'
  <2>1. \A c \in Claims : call[c].exp \in Nat /\ call[c].tnow \in Nat
    BY SMTT(30), CallFields DEF IInv
  <2>2. \A p \in Poppers : pop[p].tnow \in Nat
    BY DEF IInv, TypeOK, Pop
  <2>3. ASSUME NEW c \in Claims, NEW ttl \in ClaimTtls, call[c].exp <= now + ttl
        PROVE  call[c].exp <= now + 1 + ttl
    BY SMTT(30), <1>1, <2>1, <2>3
  <2> QED
    BY SMTT(30), <1>1, <2>1, <2>2, <2>3 DEF Tick, IInv, TimesPast
<1>3. TagsAgree' /\ OneExpiry'
  BY SMTT(30) DEF Tick, IInv, TagsAgree, OneExpiry
<1>4. BeliefHolds'
  BY SMTT(30), <1>1 DEF Tick, IInv, BeliefHolds, TypeOK
<1>5. DocsSane'
  BY SMTT(30), <1>1, DocFields DEF Tick, IInv, DocsSane
<1>6. OrphanedClaimsRunOut'
  <2>1. ASSUME NEW m \in MsgIds, NEW ttl \in ClaimTtls, doc[m].ce <= now + ttl
        PROVE  doc[m].ce <= now + 1 + ttl
    BY SMTT(30), <1>1, <2>1, DocFields DEF IInv
  <2> QED
    BY SMTT(30), <1>1, <2>1 DEF Tick, IInv, OrphanedClaimsRunOut
<1> QED
  BY SMTT(30), <1>2, <1>3, <1>4, <1>5, <1>6 DEF IInv

\* Every step keeps the strengthened invariant.
LEMMA NextIInv == IInv /\ [Next]_vars => IInv'
<1> SUFFICES ASSUME IInv, [Next]_vars PROVE IInv'
  OBVIOUS
<1>1. TypeOK'
  BY Zenon, NextTypeOK DEF IInv
<1>2. ASSUME NEW c \in Claims, ClaimStep(c) PROVE IInv'
  BY Zenon, <1>1, <1>2, CreateStartInv, ListInv, RereadInv, GetInv, UpdateStartInv,
     DeleteStartInv, AbandonInv, TagInv, ExtendInv, UpTagInv, UnclaimInv
  DEF ClaimStep
<1>3. ASSUME NEW m \in MsgIds, BulkDelete(m) \/ ExpireDoc(m) PROVE IInv'
  BY ZenonT(30), <1>1, <1>3, GoneInv DEF BulkDelete, ExpireDoc
<1>4. ASSUME NEW d \in Deleters, NEW m \in MsgIds, NEW c \in Claims \cup {NoClaim},
             DeleteMsg(d, m, c)
      PROVE  IInv'
  BY <1>1, <1>4, ReadOnlyInv DEF DeleteMsg
<1>5. ASSUME NEW d \in Deleters, DeleteReread(d) PROVE IInv'
  BY <1>1, <1>5, ReadOnlyInv DEF DeleteReread
<1>6. ASSUME NEW d \in Deleters, DeleteRemove(d) PROVE IInv'
  <2>1. del[d].m \in MsgIds
    BY SMTT(30), <1>6 DEF DeleteRemove, IInv, TypeOK, NotDeleting, Del
  <2>2. CASE Stored(del[d].m)
    BY SMTT(30), <1>1, <1>6, <2>1, <2>2, GoneInv DEF DeleteRemove
  <2>3. CASE ~Stored(del[d].m)
    BY ZenonT(30), <1>1, <1>6, <2>3, ReadOnlyInv DEF DeleteRemove
  <2> QED
    BY ZenonT(30), <2>2, <2>3
<1>7. ASSUME NEW p \in Poppers, PopStart(p) PROVE IInv'
  <2>1. pop \in [Poppers -> Pop]
    BY Zenon DEF IInv, TypeOK
  <2>2. \A q \in Poppers : pop'[q].tnow \in {pop[q].tnow, now}
    BY <1>7, <2>1 DEF PopStart
  <2>3. UNCHANGED <<now, doc, call, held, lease, popped>>
    BY <1>7 DEF PopStart
  <2> QED
    BY ZenonT(30), <1>1, <2>2, <2>3, ReadOnlyInv
<1>8. ASSUME NEW p \in Poppers, PopOne(p) PROVE IInv'
  <2> DEFINE free == {m \in MsgIds : Stored(m) /\ doc[m].ce <= pop[p].tnow}
  <2>1. \A q \in Poppers : pop'[q].tnow = pop[q].tnow
    BY <1>8 DEF PopOne, IInv, TypeOK, Pop
  <2>2. CASE free = {}
    BY <1>1, <1>8, <2>1, <2>2, ReadOnlyInv DEF PopOne
  <2>3. CASE free # {}
    <3>1. PICK m \in free : Gone(m) /\ popped' = popped \cup {m}
      BY SMTT(30), <1>8, <2>3 DEF PopOne
    <3>2. m \in MsgIds /\ Stored(m) /\ doc[m].ce <= now
      BY SMTT(30), DocFields DEF IInv, TimesPast, TypeOK, Pop
    <3> QED
      BY <1>1, <1>8, <2>1, <3>1, <3>2, GoneInv DEF PopOne
  <2> QED
    BY <2>2, <2>3
<1>9. CASE UNCHANGED vars
  BY ZenonT(30), <1>1, <1>9, ReadOnlyInv DEF vars
<1> QED
  BY Zenon, <1>1, <1>2, <1>3, <1>4, <1>5, <1>6, <1>7, <1>8, <1>9, PostInv, TickInv
  DEF Next

-------------------------------------------------------------------------------
\* Refinement: a step on documents is a step on leases.

\* An empty queue is a queue without leases.
LEMMA InitLease == Init => Lease!Init
  BY SMTT(30) DEF Init, Lease!Init

\* A step that leaves claims and removals alone is invisible to the leases.
LEMMA SameLease ==
  ASSUME UNCHANGED now,
         \A m \in MsgIds : /\ doc'[m].cid = doc[m].cid
                           /\ doc[m].cid # NoClaim => doc'[m].ce = doc[m].ce
                           /\ doc'[m].st = "gone" <=> doc[m].st = "gone"
  PROVE  UNCHANGED Lease!vars
  BY DEF Lease!vars

\* Writing the claim of one stored document is leasing that message.
LEMMA LeaseStep ==
  ASSUME IInv, TypeOK', UNCHANGED now, NEW m \in MsgIds, doc[m].st = "stored",
         NEW c \in Claims \cup {NoClaim},
         doc'[m].st = "stored", doc'[m].cid = c,
         \A k \in MsgIds \ {m} : doc'[k] = doc[k]
  PROVE  Lease!Lease(m, c)
<1>1. \A k \in MsgIds : doc'[k].ce \in Nat
  BY SMTT(30) DEF TypeOK, Doc
<1> QED
  BY <1>1, ZenonT(30) DEF Lease!Lease

\* Removing a document is removing the message.
LEMMA RemoveStep ==
  ASSUME IInv, NEW m \in MsgIds, Gone(m), UNCHANGED now
  PROVE  Lease!Remove(m)
<1>1. /\ doc'[m].st = "gone" /\ doc'[m].cid = doc[m].cid /\ doc'[m].ce = doc[m].ce
      /\ \A k \in MsgIds \ {m} : doc'[k] = doc[k]
  BY SMTT(30) DEF Gone, IInv, TypeOK, Doc
<1> QED
  BY <1>1 DEF Lease!Remove

\* Every step on documents is a step on leases, or none: tagging acquires,
\* re-tagging renews, untagging releases, removals of any kind remove.
LEMMA NextLease == IInv /\ TypeOK' /\ [Next]_vars => [Lease!Next]_Lease!vars
<1> SUFFICES ASSUME IInv, TypeOK', [Next]_vars
             PROVE  Lease!Next \/ UNCHANGED Lease!vars
  BY SMTT(30)
<1>1. ASSUME UNCHANGED <<now, doc>> PROVE UNCHANGED Lease!vars
  BY SMTT(30), <1>1 DEF Lease!vars
<1>2. ASSUME NEW c \in Claims, NEW m \in MsgIds, Tag(c, m)
      PROVE  Lease!Next \/ UNCHANGED Lease!vars
  <2>1. CASE Stored(m) /\ doc[m].ce <= call[c].tnow
    <3>1. /\ doc'[m].st = "stored" /\ doc'[m].cid = c
          /\ \A k \in MsgIds \ {m} : doc'[k] = doc[k]
      <4>1. doc \in [MsgIds -> Doc]
        BY ZenonT(30) DEF IInv, TypeOK
      <4> QED
        BY SMTT(30), <1>2, <2>1, <4>1 DEF Tag, Stored
    <3>2. doc[m].ce <= now
      BY SMTT(30), <2>1, DocFields, CallFields DEF IInv, TimesPast, TypeOK
    <3>3. Lease!Acquire(m, c)
      BY <1>2, <2>1, <3>1, <3>2, LeaseStep DEF Tag, Stored, Lease!Acquire, Lease!Free
    <3> QED
      BY SMTT(30), <3>3 DEF Lease!Next
  <2>2. CASE ~(Stored(m) /\ doc[m].ce <= call[c].tnow)
    BY SMTT(30), <1>1, <1>2, <2>2 DEF Tag
  <2> QED
    BY <2>1, <2>2
<1>3. ASSUME NEW c \in Claims, NEW m \in MsgIds, Extend(c, m)
      PROVE  UNCHANGED Lease!vars
  <2>1. \A k \in MsgIds : /\ doc'[k].cid = doc[k].cid /\ doc'[k].ce = doc[k].ce
                          /\ doc'[k].st = doc[k].st
    BY <1>3 DEF Extend, IInv, TypeOK, Doc
  <2> QED
    BY SMTT(30), <1>3, <2>1, SameLease DEF Extend
<1>4. ASSUME NEW c \in Claims, NEW m \in MsgIds, UpTag(c, m)
      PROVE  Lease!Next \/ UNCHANGED Lease!vars
  <2>1. CASE Stored(m) /\ doc[m].cid = c
    <3>1. /\ doc'[m].st = "stored" /\ doc'[m].cid = c
          /\ \A k \in MsgIds \ {m} : doc'[k] = doc[k]
      BY <1>4, <2>1 DEF UpTag, Stored, IInv, TypeOK, Doc
    <3>2. Lease!Renew(m, c)
      BY <1>4, <2>1, <3>1, LeaseStep DEF UpTag, Stored, Lease!Renew
    <3> QED
      BY Zenon, <3>2 DEF Lease!Next
  <2>2. CASE ~(Stored(m) /\ doc[m].cid = c)
    BY Zenon, <1>1, <1>4, <2>2 DEF UpTag
  <2> QED
    BY <2>1, <2>2
<1>5. ASSUME NEW c \in Claims, NEW m \in MsgIds, Unclaim(c, m)
      PROVE  Lease!Next \/ UNCHANGED Lease!vars
  <2>1. CASE Stored(m) /\ doc[m].cid = c
    <3>1. /\ doc'[m].st = "stored" /\ doc'[m].cid = NoClaim
          /\ \A k \in MsgIds \ {m} : doc'[k] = doc[k]
      BY SMTT(30), <1>5, <2>1 DEF Unclaim, Stored, IInv, TypeOK, Doc
    <3>2. Lease!Release(m, c)
      BY Zenon, <1>5, <2>1, <3>1, LeaseStep DEF Unclaim, Stored, Lease!Release
    <3> QED
      BY <3>2 DEF Lease!Next
  <2>2. CASE ~(Stored(m) /\ doc[m].cid = c)
    BY ZenonT(30), <1>1, <1>5, <2>2 DEF Unclaim
  <2> QED
    BY <2>1, <2>2
<1>6. ASSUME NEW m \in MsgIds, Post(m) PROVE UNCHANGED Lease!vars
  <2>1. /\ doc[m].st = "unposted" /\ doc[m].cid = NoClaim
        /\ doc'[m].st = "stored" /\ doc'[m].cid = NoClaim
        /\ \A k \in MsgIds \ {m} : doc'[k] = doc[k]
    <3>1. doc \in [MsgIds -> Doc] /\ DocsSane
      BY Zenon DEF IInv, TypeOK
    <3> QED
      BY SMTT(30), <1>6, <3>1 DEF Post, DocsSane
  <2> QED
    BY SMTT(30), <1>6, <2>1, SameLease DEF Post
<1>7. ASSUME NEW m \in MsgIds, Gone(m), UNCHANGED now PROVE Lease!Next
  BY SMTT(30), <1>7, RemoveStep DEF Lease!Next
<1>8. ASSUME NEW m \in MsgIds, BulkDelete(m) \/ ExpireDoc(m) PROVE Lease!Next
  BY SMTT(30), <1>7, <1>8 DEF BulkDelete, ExpireDoc
<1>9. ASSUME NEW d \in Deleters, DeleteRemove(d)
      PROVE  Lease!Next \/ UNCHANGED Lease!vars
  <2>1. del[d].m \in MsgIds
    BY <1>9 DEF DeleteRemove, IInv, TypeOK, NotDeleting, Del
  <2> QED
    BY ZenonT(30), <1>1, <1>7, <1>9, <2>1 DEF DeleteRemove
<1>10. ASSUME NEW p \in Poppers, PopOne(p)
       PROVE  Lease!Next \/ UNCHANGED Lease!vars
  BY SMTT(30), <1>1, <1>7, <1>10 DEF PopOne
<1>11. CASE Tick
  BY SMTT(30), <1>11 DEF Tick, Lease!Next, Lease!Advance
<1>12. ASSUME NEW c \in Claims,
              CreateStart(c) \/ List(c) \/ Reread(c) \/ Get(c) \/ UpdateStart(c)
              \/ DeleteStart(c) \/ Abandon(c)
       PROVE  UNCHANGED Lease!vars
  BY <1>1, <1>12, Zenon
  DEF CreateStart, List, Reread, Get, ReadClaim, UpdateStart, DeleteStart, Abandon
<1>13. ASSUME NEW d \in Deleters, NEW m \in MsgIds, NEW c \in Claims \cup {NoClaim},
              DeleteMsg(d, m, c) \/ DeleteReread(d)
       PROVE  UNCHANGED Lease!vars
  BY SMTT(30), <1>1, <1>13 DEF DeleteMsg, DeleteReread
<1>14. ASSUME NEW p \in Poppers, PopStart(p) PROVE UNCHANGED Lease!vars
  BY <1>1, <1>14 DEF PopStart
<1>15. CASE UNCHANGED vars
  BY Zenon, <1>1, <1>15 DEF vars
<1>16. ASSUME NEW d \in Deleters, DeleteReread(d) PROVE UNCHANGED Lease!vars
  BY <1>1, <1>16 DEF DeleteReread
<1> QED
  BY SMTT(30), <1>2, <1>3, <1>4, <1>5, <1>6, <1>8, <1>9, <1>10, <1>11, <1>12, <1>13,
     <1>14, <1>15, <1>16
  DEF Next, ClaimStep

-------------------------------------------------------------------------------
\* The state of the MongoDB claim and message controllers keeps its type.
THEOREM TypeCorrect == Spec => []TypeOK
<1>1. Init => TypeOK
  BY InitIInv DEF IInv
<1> QED
  BY <1>1, NextTypeOK, PTL DEF Spec

\* The strengthened invariant holds in every reachable state.
THEOREM Invariance == Spec => []IInv
  BY InitIInv, NextIInv, PTL DEF Spec

\* The strengthened invariant implies the four safety invariants.
LEMMA IInvSafe ==
  IInv => LeaseExclusive /\ PoppedNotHeld /\ HeldOutlivesLease /\ OrphanedClaimsRunOut
<1> SUFFICES ASSUME IInv
             PROVE  LeaseExclusive /\ PoppedNotHeld /\ HeldOutlivesLease
                    /\ OrphanedClaimsRunOut
  BY SMTT(30)
<1>1. now \in Nat /\ \A c \in Claims : lease[c] \in Nat /\ held[c] \subseteq MsgIds
  BY SMTT(30) DEF IInv, TypeOK
<1>2. LeaseExclusive
  BY SMTT(30), <1>1 DEF LeaseExclusive, IInv, BeliefHolds
<1>3. PoppedNotHeld
  <2> SUFFICES ASSUME NEW c \in Claims, NEW m \in held[c] \cap popped, lease[c] > now
               PROVE  FALSE
    BY SMTT(30), <1>1 DEF PoppedNotHeld
  <2>1. doc[m].ce <= now /\ doc[m].ce >= lease[c] /\ doc[m].ce \in Nat
    BY SMTT(30), <1>1, DocFields DEF IInv, DocsSane, BeliefHolds
  <2> QED
    BY SMTT(30), <1>1, <2>1
<1>4. HeldOutlivesLease
  BY DEF HeldOutlivesLease, Stored, IInv, BeliefHolds
<1>5. OrphanedClaimsRunOut
  BY DEF IInv
<1> QED
  BY <1>2, <1>3, <1>4, <1>5

\* Two claims whose leases both run never hold one message: what create(),
\* update(), get() and delete() of mongodb/claims.py promise together.
THEOREM OneHolder == Spec => []LeaseExclusive
  BY Invariance, IInvSafe, PTL

\* pop() of mongodb/messages.py never hands out what a running lease holds.
THEOREM PopRespectsLeases == Spec => []PoppedNotHeld
  BY Invariance, IInvSafe, PTL

\* A message does not expire while the lease on it runs, because create() and
\* update() extend its expiry before the owner is told of the lease.
THEOREM LeasedMessagesLive == Spec => []HeldOutlivesLease
  BY Invariance, IInvSafe, PTL

\* The claim on any message, orphaned by a dead call or not, runs out within one
\* claim TTL.
THEOREM OrphansRunOut == Spec => []OrphanedClaimsRunOut
  BY Invariance, IInvSafe, PTL

\* The MongoDB claim controller implements the exclusive lease of ClaimLease.
THEOREM Refinement == Spec => ImplementsLease
<1>1. IInv /\ IInv' /\ [Next]_vars => [Lease!Next]_Lease!vars
  BY NextLease DEF IInv
<1> QED
  BY InitLease, Invariance, <1>1, PTL DEF Spec, ImplementsLease, Lease!Spec

\* A step on leases takes no running lease over.
LEMMA LeaseKept ==
  TypeOK /\ [Lease!Next]_Lease!vars => [\A m \in MsgIds : Lease!Kept(m)]_Lease!vars
<1> SUFFICES ASSUME TypeOK, Lease!Next, NEW m \in MsgIds PROVE Lease!Kept(m)
  OBVIOUS
<1>1. ASSUME NEW k \in MsgIds, NEW c \in Claims,
             Lease!Acquire(k, c) \/ Lease!Renew(k, c) \/ Lease!Release(k, c)
      PROVE  Lease!Kept(m)
  <2>1. CASE k = m
    <3>1. doc[m].ce \in Nat /\ now \in Nat
      BY SMTT(30), DocFields DEF TypeOK
    <3>2. CASE Lease!Acquire(m, c)
      BY SMTT(30), <3>1, <3>2 DEF Lease!Acquire, Lease!Lease, Lease!Free, Lease!Kept
    <3>3. CASE Lease!Renew(m, c)
      BY SMTT(30), <3>3 DEF Lease!Renew, Lease!Lease, Lease!Kept
    <3>4. CASE Lease!Release(m, c)
      BY <3>4 DEF Lease!Release, Lease!Lease, Lease!Kept
    <3> QED
      BY SMTT(30), <1>1, <2>1, <3>2, <3>3, <3>4
  <2>2. CASE k # m
    <3>1. PICK x : Lease!Lease(k, x)
      BY SMTT(30), <1>1 DEF Lease!Acquire, Lease!Renew, Lease!Release
    <3> QED
      BY <2>2, <3>1, Zenon DEF Lease!Lease, Lease!Kept
  <2> QED
    BY SMTT(30), <2>1, <2>2
<1>2. ASSUME NEW k \in MsgIds, Lease!Remove(k) PROVE Lease!Kept(m)
  BY SMTT(30), <1>2 DEF Lease!Remove, Lease!Kept
<1>3. CASE Lease!Advance
  BY <1>3 DEF Lease!Advance, Lease!Kept
<1> QED
  BY Zenon, <1>1, <1>2, <1>3 DEF Lease!Next

\* No step of another claim takes over a message whose claim has not run out.
THEOREM NoLiveTakeover == Spec => LiveClaimKept
  BY Refinement, TypeCorrect, LeaseKept, PTL
  DEF ImplementsLease, Lease!Spec, LiveClaimKept, Lease!NoTakeover
===============================================================================
