--------------------------- MODULE SwiftClaimsProofs --------------------------
(* Proofs about SwiftClaims, for any number of messages, claims and deleters, *)
(* any TTLs, limits and page size, and any bound of the clock.                *)
EXTENDS SwiftClaims, TLAPS

\* What a call in flight may count on: there is something left to claim while it
\* lists, only a message read without a claim is put with one, and what a release
\* puts back had not expired when it was read.
CallSane(r) ==
    /\ r.pc \in {"list", "look", "put"} => r.left > 0 /\ r.seen = NoClaim
    /\ r.pc \in {"put", "back"} => r.mark \in Msgs
    /\ r.pc = "back" => r.end > 0

\* The header names the claim that the content names, a name that was not drawn
\* has no object, and a purge deletes from the container that it listed.
ObjectsSane ==
    /\ \A m \in Msgs : obj[m].meta = obj[m].claim_id
    /\ \A m \in Msgs \ posted : obj[m] = NoObject

PurgeSane ==
    /\ purge.pc = "msgs" => purge.ids \subseteq Msgs
    /\ purge.pc = "claims" => purge.ids \subseteq Claims

\* The part of the inductive invariant that repeated releases do not disturb.
Basics ==
    /\ TypeOK
    /\ ObjectsSane
    /\ \A c \in Claims : CallSane(call[c])
    /\ PurgeSane
    /\ now > 0

\* The messages in a client's hands, and those its call in flight has yet to
\* record, to renew or to release, name its claim.  A release works on messages
\* that the client has given up, and puts back what it read under its own id.
Owned(c) ==
    /\ \A m \in told[c] : obj[m].claim_id = c
    /\ call[c].pc \in {"list", "look", "put", "record", "find", "back"}
          => \A m \in call[c].ids : obj[m].claim_id = c
    /\ call[c].pc \in {"open", "renew"} => cobj[c].ids \subseteq told[c]
    /\ call[c].pc = "renew" => call[c].ids \subseteq told[c]
    /\ call[c].pc \in {"find", "back"} => told[c] = {}
    /\ call[c].pc = "back" => call[c].seen = c /\ call[c].mark \notin call[c].ids

\* The inductive invariant of clients that do not repeat a release.
IInv == Basics /\ \A c \in Claims : Owned(c)

-------------------------------------------------------------------------------
\* The fields of a call have their types.
LEMMA CallFields ==
  ASSUME TypeOK, NEW c \in Claims
  PROVE  /\ call[c] \in Call
         /\ call[c].cttl \in Nat /\ call[c].grace \in Nat /\ call[c].ttl \in Nat
         /\ call[c].end \in Nat /\ call[c].left \in Nat /\ call[c].limit \in Nat
         /\ call[c].page \subseteq Msgs /\ call[c].ids \subseteq Msgs
         /\ call[c].seen \in Claims \cup {NoClaim}
  BY DEF TypeOK, Call

\* The fields of an object have their types.
LEMMA ObjFields ==
  ASSUME TypeOK, NEW m \in Msgs
  PROVE  /\ obj[m] \in Object
         /\ obj[m].claim_id \in Claims \cup {NoClaim} /\ obj[m].ttl \in Nat
         /\ obj[m].end \in Nat
  BY DEF TypeOK, Object

\* A stored object has a name that was drawn.
LEMMA StoredPosted ==
  ASSUME TypeOK, ObjectsSane, NEW m \in Msgs, Stored(m)
  PROVE  m \in posted /\ obj[m].end # 0
  BY ObjFields DEF TypeOK, ObjectsSane, Stored, NoObject

\* An idle call is a call, and so is one that begins anew with some ids.
LEMMA IdleCallType == IdleCall \in Call
  BY DEF IdleCall, Call

LEMMA FreshCall ==
  ASSUME NEW pc \in {"bulk", "open", "find", "drop", "closed"}, NEW ids \in SUBSET Msgs
  PROVE  /\ [IdleCall EXCEPT !.pc = pc, !.ids = ids] \in Call
         /\ CallSane([IdleCall EXCEPT !.pc = pc, !.ids = ids])
         /\ [IdleCall EXCEPT !.pc = pc] \in Call
         /\ CallSane([IdleCall EXCEPT !.pc = pc])
<1>1. /\ [IdleCall EXCEPT !.pc = pc, !.ids = ids] \in Call
      /\ [IdleCall EXCEPT !.pc = pc] \in Call
  BY IdleCallType, Zenon DEF Call
<1>2. /\ [IdleCall EXCEPT !.pc = pc, !.ids = ids].pc = pc
      /\ [IdleCall EXCEPT !.pc = pc].pc = pc
  BY IdleCallType DEF Call
<1> QED
  BY <1>1, <1>2 DEF CallSane

\* Writing the state of one call keeps the calls well typed and sane.
LEMMA CallSet ==
  ASSUME Basics, NEW c \in Claims, NEW r \in Call, CallSane(r),
         call' = [call EXCEPT ![c] = r]
  PROVE  call' \in [Claims -> Call] /\ \A d \in Claims : CallSane(call[d])'
<1>1. call' \in [Claims -> Call]
  BY DEF Basics, TypeOK
<1>2. ASSUME NEW d \in Claims PROVE CallSane(call'[d])
  <2>1. CASE d = c
    BY <2>1 DEF Basics, TypeOK
  <2>2. CASE d # c
    BY Zenon, <2>2 DEF Basics, TypeOK
  <2> QED BY <2>1, <2>2
<1> QED
  BY <1>1, <1>2 DEF CallSane

\* A step that changes one call only keeps the basic invariant.
LEMMA CallStep ==
  ASSUME Basics, NEW c \in Claims, NEW r \in Call, CallSane(r),
         call' = [call EXCEPT ![c] = r],
         UNCHANGED <<now, cont, obj, cobj, del, purge, posted, told>>
  PROVE  Basics'
  BY CallSet DEF Basics, TypeOK, ObjectsSane, PurgeSane, NoObject

\* Writing one object keeps the objects well typed and sane.
LEMMA ObjSet ==
  ASSUME Basics, NEW m \in Msgs, NEW r \in Object, r.meta = r.claim_id,
         m \notin posted' => r = NoObject, posted \subseteq posted',
         obj' = [obj EXCEPT ![m] = r]
  PROVE  obj' \in [Msgs -> Object] /\ ObjectsSane'
<1>1. obj' \in [Msgs -> Object]
  BY DEF Basics, TypeOK
<1>2. ASSUME NEW k \in Msgs PROVE obj'[k].meta = obj'[k].claim_id
  BY DEF Basics, TypeOK, ObjectsSane
<1>3. ASSUME NEW k \in Msgs \ posted' PROVE obj'[k] = NoObject
  BY DEF Basics, TypeOK, ObjectsSane
<1> QED
  BY <1>1, <1>2, <1>3 DEF ObjectsSane, NoObject

\* Deleting an object keeps the objects well typed and sane.
LEMMA GoneSet ==
  ASSUME Basics, NEW m \in Msgs, obj' = Gone(m), posted' = posted
  PROVE  obj' \in [Msgs -> Object] /\ ObjectsSane'
<1>1. [obj[m] EXCEPT !.end = 0] \in Object
  BY ObjFields DEF Basics, Object
<1>2. [obj[m] EXCEPT !.end = 0].meta = [obj[m] EXCEPT !.end = 0].claim_id
  BY ObjFields DEF Basics, ObjectsSane, Object
<1>3. m \notin posted => [obj[m] EXCEPT !.end = 0] = NoObject
  BY DEF Basics, ObjectsSane, NoObject
<1> QED
  BY <1>1, <1>2, <1>3, ObjSet, Zenon DEF Gone
-------------------------------------------------------------------------------
\* post() draws a new name, and stores an object or loses it.
LEMMA PostBasics ==
  ASSUME Basics, NEW m \in Msgs, Post(m) \/ PostLost(m) PROVE Basics'
<1>1. CASE Post(m)
  <2>1. PICK ttl \in MsgTtls :
          obj' = [obj EXCEPT ![m] = [claim_id |-> NoClaim, ttl |-> ttl,
                                     meta |-> NoClaim, end |-> now + ttl]]
    BY <1>1, Zenon DEF Post
  <2>2. ttl \in Nat /\ now + ttl \in Nat
    BY SwiftClaimsAssumption DEF SwiftClaimsAssumption, Basics, TypeOK
  <2>3. [claim_id |-> NoClaim, ttl |-> ttl, meta |-> NoClaim, end |-> now + ttl]
          \in Object
    BY <2>2 DEF Object
  <2>4. posted' = posted \cup {m}
    BY <1>1 DEF Post
  <2>5. obj' \in [Msgs -> Object] /\ ObjectsSane'
    BY <2>1, <2>3, <2>4, ObjSet, Zenon
  <2>6. posted' \subseteq Msgs
    BY Zenon, <2>4 DEF Basics, TypeOK
  <2> QED
    BY <1>1, <2>5, <2>6 DEF Basics, TypeOK, Post, PurgeSane, CallSane
<1>2. CASE PostLost(m)
  BY <1>2 DEF Basics, TypeOK, PostLost, ObjectsSane, PurgeSane, CallSane
<1> QED
  BY Zenon, <1>1, <1>2

\* A creation or pop begins with a limit to fill.
LEMMA CreateBasics ==
  ASSUME Basics, NEW c \in Claims, Create(c) PROVE Basics'
<1>1. PICK pop \in BOOLEAN, n \in Limits, ttl \in ClaimTtls, grace \in Graces :
        call' = [call EXCEPT ![c] =
                   [IdleCall EXCEPT !.pc = "list", !.pop = pop, !.cttl = ttl,
                                    !.grace = grace, !.left = n, !.limit = n]]
  BY ZenonT(30) DEF Create
<1> DEFINE r == [IdleCall EXCEPT !.pc = "list", !.pop = pop, !.cttl = ttl,
                                 !.grace = grace, !.left = n, !.limit = n]
<1>2. n \in Nat /\ n > 0 /\ ttl \in Nat /\ grace \in Nat
  BY SwiftClaimsAssumption DEF SwiftClaimsAssumption
<1>3. r \in Call
  BY <1>2, IdleCallType, Zenon DEF Call
<1>4. r.left = n /\ r.seen = NoClaim /\ r.pc = "list"
  BY DEF IdleCall
<1> HIDE DEF r
<1>5. call' = [call EXCEPT ![c] = r]
  BY <1>1 DEF r
<1>6. CallSane(r)
  BY <1>2, <1>4 DEF CallSane
<1> QED
  BY <1>3, <1>5, <1>6, CallStep, Zenon DEF Create

\* A page of names.
LEMMA ListPageBasics ==
  ASSUME Basics, NEW c \in Claims, ListPage(c) PROVE Basics'
<1> DEFINE page == Listing(call[c].mark, 2 * call[c].limit)
           pc == IF page = {} THEN "record" ELSE "look"
           r == [call[c] EXCEPT !.pc = pc, !.page = page]
<1>1. page \in SUBSET Msgs /\ pc \in {"record", "look"}
  BY DEF Listing
<1>2. call[c].pc = "list" /\ call' = [call EXCEPT ![c] = r]
  BY DEF ListPage
<1>3. call[c].left > 0 /\ call[c].seen = NoClaim /\ call[c] \in Call
  BY <1>2, CallFields DEF Basics, CallSane
<1> HIDE DEF page, pc
<1>4. r \in Call
  BY <1>1, <1>3, Zenon DEF Call
<1>5. r.pc = pc /\ r.left = call[c].left /\ r.seen = call[c].seen
  BY <1>3 DEF Call
<1>6. CallSane(r)
  BY <1>1, <1>3, <1>5 DEF CallSane
<1> HIDE DEF r
<1> QED
  BY <1>2, <1>4, <1>6, CallStep, Zenon DEF ListPage

\* After a message a creation goes on in its loop only with something left.
LEMMA AfterMessageLeft ==
  ASSUME NEW left \in Nat, NEW page
  PROVE  /\ AfterMessage(left, page) \in {"record", "list", "look"}
         /\ AfterMessage(left, page) # "record" => left > 0
  BY DEF AfterMessage

\* A message is read.
LEMMA LookBasics ==
  ASSUME Basics, NEW c \in Claims, Look(c) PROVE Basics'
<1>1. PICK m \in call[c].page :
        LET rest == call[c].page \ {m}
            free == Stored(m) /\ obj[m].claim_id = NoClaim
        IN  call' = [call EXCEPT ![c] =
               [call[c] EXCEPT
                   !.pc = IF free THEN "put" ELSE AfterMessage(call[c].left, rest),
                   !.page = rest, !.mark = m,
                   !.ttl = IF free THEN obj[m].ttl ELSE 0]]
  BY Zenon DEF Look
<1> DEFINE rest == call[c].page \ {m}
           free == Stored(m) /\ obj[m].claim_id = NoClaim
           pc == IF free THEN "put" ELSE AfterMessage(call[c].left, rest)
           ttl == IF free THEN obj[m].ttl ELSE 0
           r == [call[c] EXCEPT !.pc = pc, !.page = rest, !.mark = m, !.ttl = ttl]
<1>2. m \in Msgs /\ m \in Nat /\ rest \in SUBSET Msgs
  BY CallFields, SwiftClaimsAssumption, Zenon DEF SwiftClaimsAssumption, Basics
<1>3. ttl \in Nat
  BY Zenon, <1>2, ObjFields DEF Basics
<1>4. pc \in {"record", "list", "look", "put"}
  BY AfterMessageLeft, CallFields DEF Basics
<1>5. call[c].left > 0 /\ call[c].seen = NoClaim /\ call[c] \in Call
  BY CallFields DEF Basics, CallSane, Look
<1>6. call' = [call EXCEPT ![c] = r]
  BY <1>1
<1> HIDE DEF rest, pc, ttl
<1>7. r \in Call
  BY <1>2, <1>3, <1>4, <1>5, Zenon DEF Call
<1>8. r.pc = pc /\ r.left = call[c].left /\ r.seen = call[c].seen /\ r.mark = m
  BY <1>5 DEF Call
<1>9. CallSane(r)
  BY <1>2, <1>4, <1>5, <1>8 DEF CallSane
<1> HIDE DEF r
<1> QED
  BY <1>6, <1>7, <1>9, CallStep, Zenon DEF Look

\* A message is put back with the claim's id, or left to another.
LEMMA PutBasics ==
  ASSUME Basics, NEW c \in Claims, Put(c) PROVE Basics'
<1> DEFINE m == call[c].mark
           ttl == IF call[c].ttl > call[c].cttl + call[c].grace
                  THEN call[c].ttl ELSE call[c].cttl + call[c].grace
           left == call[c].left - 1
           o == [claim_id |-> c, ttl |-> ttl, meta |-> c, end |-> now + ttl]
           pc == AfterMessage(left, call[c].page)
           ids == IF Matches(c, m) THEN call[c].ids \cup {m} ELSE call[c].ids
           r == [call[c] EXCEPT !.pc = pc, !.left = left, !.ttl = 0, !.ids = ids]
<1>1. /\ obj' = IF Matches(c, m) THEN [obj EXCEPT ![m] = o] ELSE obj
      /\ call' = [call EXCEPT ![c] = r]
      /\ UNCHANGED <<now, cont, cobj, del, purge, posted, told>>
  BY Zenon DEF Put
<1>2. m \in Msgs /\ left \in Nat /\ call[c].seen = NoClaim /\ call[c] \in Call
  BY CallFields DEF Basics, CallSane, Put
<1>3. ttl \in Nat /\ now + ttl \in Nat
  BY CallFields DEF Basics, TypeOK
<1>4. ids \in SUBSET Msgs
  BY <1>2, CallFields DEF Basics
<1>5. pc \in {"record", "list", "look"} /\ (pc # "record" => left > 0)
  BY Zenon, <1>2, AfterMessageLeft
<1>6. o \in Object /\ o.meta = o.claim_id
  BY Zenon, <1>3 DEF Object
<1>7. Matches(c, m) => m \in posted
  BY <1>2, StoredPosted DEF Matches, Basics
<1> HIDE DEF m, left, o, pc, ids
<1>8. obj' \in [Msgs -> Object] /\ ObjectsSane'
  <2>1. CASE Matches(c, m)
    BY <1>1, <1>2, <1>6, <1>7, <2>1, ObjSet, Zenon
  <2>2. CASE ~Matches(c, m)
    BY <1>1, <2>2 DEF Basics, TypeOK, ObjectsSane, NoObject
  <2> QED BY <2>1, <2>2
<1>9. r \in Call
  BY <1>2, <1>4, <1>5, ZenonT(30) DEF Call
<1>10. r.pc = pc /\ r.left = left /\ r.seen = call[c].seen
  BY <1>2 DEF Call
<1>11. CallSane(r)
  BY <1>2, <1>5, <1>10 DEF CallSane
<1> HIDE DEF r
<1>12. call' \in [Claims -> Call] /\ \A d \in Claims : CallSane(call[d])'
  BY <1>1, <1>9, <1>11, CallSet, Zenon
<1> QED
  BY <1>1, <1>8, <1>12 DEF Basics, TypeOK, PurgeSane

\* The claim object is written.
LEMMA RecordBasics ==
  ASSUME Basics, NEW c \in Claims, Record(c) PROVE Basics'
<1> DEFINE o == [ids |-> call[c].ids, end |-> now + call[c].cttl]
           r == IF call[c].pop
                THEN [IdleCall EXCEPT !.pc = "bulk", !.ids = call[c].ids]
                ELSE [IdleCall EXCEPT !.pc = "open"]
<1>1. /\ cobj' = [cobj EXCEPT ![c] = o]
      /\ told' = [told EXCEPT ![c] = call[c].ids]
      /\ call' = [call EXCEPT ![c] = r]
      /\ UNCHANGED <<now, cont, obj, del, purge, posted>>
  BY DEF Record
<1>2. call[c].ids \in SUBSET Msgs /\ now + call[c].cttl \in Nat
  BY CallFields DEF Basics, TypeOK
<1>3. o \in ClaimObject
  BY <1>2 DEF ClaimObject
<1>4. r \in Call /\ CallSane(r)
  BY <1>2, FreshCall, Zenon
<1> HIDE DEF o, r
<1>5. call' \in [Claims -> Call] /\ \A d \in Claims : CallSane(call[d])'
  BY <1>1, <1>4, CallSet, Zenon
<1>6. cobj' \in [Claims -> ClaimObject] /\ told' \in [Claims -> SUBSET Msgs]
  BY <1>1, <1>2, <1>3 DEF Basics, TypeOK
<1> QED
  BY <1>1, <1>5, <1>6 DEF Basics, TypeOK, PurgeSane, ObjectsSane, NoObject

\* A pop deletes what it claimed, one object after the other.
LEMMA PopDeleteBasics ==
  ASSUME Basics, NEW c \in Claims, PopDelete(c) PROVE Basics'
<1>1. CASE call[c].ids = {}
  BY <1>1, FreshCall, CallStep, Zenon DEF PopDelete
<1>2. CASE call[c].ids # {}
  <2>1. PICK m \in call[c].ids :
          /\ call' = [call EXCEPT ![c] = [call[c] EXCEPT !.ids = call[c].ids \ {m}]]
          /\ obj' = Gone(m)
    BY <1>2 DEF PopDelete
  <2> DEFINE r == [call[c] EXCEPT !.ids = call[c].ids \ {m}]
  <2>2. m \in Msgs /\ call[c] \in Call /\ call[c].ids \ {m} \in SUBSET Msgs
    BY CallFields DEF Basics
  <2>3. r \in Call /\ r.pc = "bulk"
    BY <2>2 DEF PopDelete, Call
  <2>4. CallSane(r)
    BY <2>3 DEF CallSane
  <2> HIDE DEF r
  <2>5. call' \in [Claims -> Call] /\ \A d \in Claims : CallSane(call[d])'
    BY <2>1, <2>3, <2>4, CallSet, Zenon DEF r
  <2>6. obj' \in [Msgs -> Object] /\ ObjectsSane'
    BY <2>1, <2>2, GoneSet DEF PopDelete
  <2> QED
    BY <2>5, <2>6 DEF Basics, TypeOK, PurgeSane, PopDelete
<1> QED
  BY <1>1, <1>2

\* A renewal reads the claim object.
LEMMA RenewBasics ==
  ASSUME Basics, NEW c \in Claims, Renew(c) PROVE Basics'
<1>1. PICK ttl \in ClaimTtls :
        call' = [call EXCEPT ![c] = [IdleCall EXCEPT !.pc = "renew", !.cttl = ttl,
                                                     !.ids = cobj[c].ids]]
  BY Zenon DEF Renew
<1> DEFINE r == [IdleCall EXCEPT !.pc = "renew", !.cttl = ttl, !.ids = cobj[c].ids]
<1>2. ttl \in Nat /\ cobj[c].ids \in SUBSET Msgs
  BY SwiftClaimsAssumption DEF SwiftClaimsAssumption, Basics, TypeOK, ClaimObject
<1>3. r \in Call
  BY <1>2, IdleCallType, Zenon DEF Call
<1>4. r.pc = "renew"
  BY IdleCallType DEF Call
<1>5. CallSane(r)
  BY <1>4 DEF CallSane
<1> HIDE DEF r
<1> QED
  BY <1>1, <1>3, <1>5, CallStep, Zenon DEF Renew, r

\* A renewal writes the claim object.
LEMMA RenewPutBasics ==
  ASSUME Basics, NEW c \in Claims, RenewPut(c) PROVE Basics'
<1>1. [ids |-> call[c].ids, end |-> now + call[c].cttl] \in ClaimObject
  BY CallFields DEF Basics, TypeOK, ClaimObject
<1>2. cobj' \in [Claims -> ClaimObject]
  BY <1>1 DEF RenewPut, Basics, TypeOK
<1>3. call' \in [Claims -> Call] /\ \A d \in Claims : CallSane(call[d])'
  BY FreshCall, CallSet, Zenon DEF RenewPut
<1> QED
  BY Zenon, <1>2, <1>3 DEF Basics, TypeOK, PurgeSane, ObjectsSane, NoObject, RenewPut

\* A release reads the claim object.
LEMMA ReleaseBasics ==
  ASSUME Basics, NEW c \in Claims, Release(c) PROVE Basics'
<1>1. cobj[c].ids \in SUBSET Msgs
  BY DEF Basics, TypeOK, ClaimObject
<1>2. call' \in [Claims -> Call] /\ \A d \in Claims : CallSane(call[d])'
  BY <1>1, FreshCall, CallSet, Zenon DEF Release
<1>3. told' \in [Claims -> SUBSET Msgs]
  BY DEF Release, Basics, TypeOK
<1> QED
  BY Zenon, <1>2, <1>3 DEF Basics, TypeOK, PurgeSane, ObjectsSane, NoObject, Release

\* A release reads a message.
LEMMA FindBasics ==
  ASSUME Basics, NEW c \in Claims, Find(c) PROVE Basics'
<1>1. CASE call[c].ids = {}
  BY <1>1, FreshCall, CallStep, Zenon DEF Find
<1>2. CASE call[c].ids # {}
  <2>1. PICK m \in call[c].ids :
           call' = [call EXCEPT ![c] =
              IF Stored(m)
              THEN [call[c] EXCEPT !.pc = "back", !.mark = m,
                                   !.ids = call[c].ids \ {m},
                                   !.seen = obj[m].claim_id, !.ttl = obj[m].ttl,
                                   !.end = obj[m].end]
              ELSE [call[c] EXCEPT !.ids = call[c].ids \ {m}]]
    BY <1>2, Zenon DEF Find
  <2> DEFINE ids == call[c].ids \ {m}
             r == [call[c] EXCEPT !.pc = "back", !.mark = m, !.ids = ids,
                                  !.seen = obj[m].claim_id, !.ttl = obj[m].ttl,
                                  !.end = obj[m].end]
             s == [call[c] EXCEPT !.ids = ids]
  <2>2. m \in Msgs /\ m \in Nat /\ call[c] \in Call /\ ids \in SUBSET Msgs
    BY CallFields, SwiftClaimsAssumption, Zenon DEF SwiftClaimsAssumption, Basics
  <2>3. /\ obj[m].claim_id \in Claims \cup {NoClaim}
        /\ obj[m].ttl \in Nat /\ obj[m].end \in Nat
    BY <2>2, ObjFields DEF Basics
  <2>4. call' = [call EXCEPT ![c] = IF Stored(m) THEN r ELSE s]
    BY <2>1
  <2> HIDE DEF ids
  <2>5. r \in Call
    BY <2>2, <2>3, Zenon DEF Call
  <2>6. s \in Call
    BY <2>2, Zenon DEF Call
  <2>7. r.pc = "back" /\ r.mark = m /\ r.end = obj[m].end /\ s.pc = "find"
    BY <2>2, Zenon DEF Call, Find
  <2>8. (Stored(m) => CallSane(r)) /\ CallSane(s)
    BY <2>2, <2>3, <2>7 DEF CallSane, Stored, Basics, TypeOK
  <2> HIDE DEF r, s
  <2> QED
    BY <2>4, <2>5, <2>6, <2>8, CallStep, Zenon DEF Find
<1> QED
  BY Zenon, <1>1, <1>2

\* A release puts a message back.
LEMMA PutBackBasics ==
  ASSUME Basics, NEW c \in Claims, PutBack(c) PROVE Basics'
<1> DEFINE m == call[c].mark
           o == [claim_id |-> NoClaim, ttl |-> call[c].ttl, meta |-> NoClaim,
                 end |-> call[c].end]
<1>1. /\ obj' = [obj EXCEPT ![m] = o]
      /\ call' = [call EXCEPT ![c] = [IdleCall EXCEPT !.pc = "find", !.ids = call[c].ids]]
      /\ UNCHANGED <<now, cont, cobj, del, purge, posted, told>>
  BY DEF PutBack
<1>2. m \in Msgs
  BY DEF Basics, CallSane, PutBack
<1>3. m \in posted
  BY <1>2, StoredPosted DEF Basics, PutBack, Matches
<1>4. o \in Object /\ o.meta = o.claim_id
  BY CallFields DEF Basics, Object
<1> HIDE DEF m, o
<1>5. obj' \in [Msgs -> Object] /\ ObjectsSane'
  BY <1>1, <1>2, <1>3, <1>4, ObjSet, Zenon
<1>6. call' \in [Claims -> Call] /\ \A d \in Claims : CallSane(call[d])'
  BY <1>1, CallFields, FreshCall, CallSet, Zenon DEF Basics
<1> QED
  BY <1>1, <1>5, <1>6 DEF Basics, TypeOK, PurgeSane

\* A release deletes the claim object.
LEMMA DropBasics ==
  ASSUME Basics, NEW c \in Claims, Drop(c) PROVE Basics'
<1>1. cobj' \in [Claims -> ClaimObject]
  BY DEF Drop, Basics, TypeOK, NoClaimObject, ClaimObject
<1>2. call' \in [Claims -> Call] /\ \A d \in Claims : CallSane(call[d])'
  BY FreshCall, CallSet, Zenon DEF Drop
<1> QED
  BY Zenon, <1>1, <1>2 DEF Basics, TypeOK, PurgeSane, ObjectsSane, NoObject, Drop

\* A call ends where it is.
LEMMA AbortBasics ==
  ASSUME Basics, NEW c \in Claims, Abort(c) PROVE Basics'
<1>1. PICK pc \in {"open", "closed"} :
        call' = [call EXCEPT ![c] = [IdleCall EXCEPT !.pc = pc]]
  BY DEF Abort
<1> QED
  BY <1>1, FreshCall, CallStep, Zenon DEF Abort

\* Deletions, purges and time.
LEMMA OtherBasics ==
  ASSUME Basics,
         \/ \E d \in Deleters : DeleteCheck(d) \/ Delete(d)
         \/ Purge \/ PurgeObject \/ PurgeContainer \/ Tick
  PROVE  Basics'
<1>1. ASSUME NEW d \in Deleters, DeleteCheck(d) PROVE Basics'
  BY SMTT(30), <1>1 DEF DeleteCheck, Basics, TypeOK, PurgeSane, ObjectsSane, NoObject, CallSane
<1>2. ASSUME NEW d \in Deleters, Delete(d) PROVE Basics'
  <2>1. del[d] \in Msgs
    BY <1>2 DEF Delete, Basics, TypeOK
  <2>2. obj' \in [Msgs -> Object] /\ ObjectsSane'
    BY SMTT(30), <1>2, <2>1, GoneSet DEF Delete
  <2> QED
    BY <1>2, <2>2 DEF Delete, Basics, TypeOK, PurgeSane, CallSane
<1>3. CASE Purge
  <2>1. Listing(0, PageSize) \subseteq Msgs
    BY DEF Listing
  <2> QED
    BY <1>3, <2>1
    DEF Purge, Basics, TypeOK, PurgeSane, ObjectsSane, NoObject, CallSane
<1>4. CASE PurgeObject
  <2>1. CASE purge.pc = "msgs"
    <3>1. PICK m \in purge.ids :
            obj' = Gone(m) /\ purge' = [purge EXCEPT !.ids = purge.ids \ {m}]
      BY <1>4, <2>1 DEF PurgeObject
    <3>2. m \in Msgs
      BY Zenon, <2>1, <3>1 DEF Basics, PurgeSane
    <3>3. obj' \in [Msgs -> Object] /\ ObjectsSane'
      BY <1>4, <3>1, <3>2, GoneSet DEF PurgeObject
    <3>4. /\ purge' \in [pc : {"idle", "msgs", "claims"},
                         ids : (SUBSET Msgs) \cup (SUBSET Claims)]
          /\ PurgeSane'
      BY <2>1, <3>1 DEF Basics, TypeOK, PurgeSane
    <3> QED
      BY <1>4, <2>1, <3>3, <3>4 DEF PurgeObject, Basics, TypeOK, CallSane
  <2>2. CASE purge.pc = "claims"
    <3>1. PICK c \in purge.ids :
            /\ cobj' = [cobj EXCEPT ![c] = NoClaimObject]
            /\ purge' = [purge EXCEPT !.ids = purge.ids \ {c}]
      BY <1>4, <2>2 DEF PurgeObject
    <3>2. cobj' \in [Claims -> ClaimObject]
      BY <3>1, Zenon DEF Basics, TypeOK, NoClaimObject, ClaimObject
    <3>3. /\ purge' \in [pc : {"idle", "msgs", "claims"},
                         ids : (SUBSET Msgs) \cup (SUBSET Claims)]
          /\ PurgeSane'
      BY Zenon, <2>2, <3>1 DEF Basics, TypeOK, PurgeSane
    <3> QED
      BY <1>4, <2>2, <3>2, <3>3
      DEF PurgeObject, Basics, TypeOK, ObjectsSane, NoObject, CallSane
  <2> QED
    BY Zenon, <1>4, <2>1, <2>2 DEF PurgeObject
<1>5. CASE PurgeContainer
  <2>1. cont' \in BOOLEAN
    BY <1>5, ZenonT(30) DEF PurgeContainer, Basics, TypeOK
  <2>2. /\ purge' \in [pc : {"idle", "msgs", "claims"},
                       ids : (SUBSET Msgs) \cup (SUBSET Claims)]
        /\ PurgeSane'
    BY SMTT(30), <1>5 DEF PurgeContainer, PurgeSane
  <2> QED
    BY Zenon, <1>5, <2>1, <2>2
    DEF PurgeContainer, Basics, TypeOK, ObjectsSane, NoObject, CallSane
<1>6. CASE Tick
  BY <1>6 DEF Tick, Basics, TypeOK, PurgeSane, ObjectsSane, NoObject, CallSane
<1> QED
  BY Zenon, <1>1, <1>2, <1>3, <1>4, <1>5, <1>6

\* The basic invariant holds of an empty queue, and every step keeps it.
LEMMA InitBasics == Init => Basics
<1> SUFFICES ASSUME Init PROVE Basics
  OBVIOUS
<1>1. TypeOK
  BY IdleCallType, Zenon DEF Init, TypeOK, NoObject, Object, NoClaimObject, ClaimObject
<1>2. CallSane(IdleCall)
  BY DEF IdleCall, CallSane
<1>3. ObjectsSane /\ PurgeSane /\ now > 0
  BY DEF Init, ObjectsSane, PurgeSane, NoObject
<1> QED
  BY <1>1, <1>2, <1>3 DEF Init, Basics

LEMMA NextBasics == Basics /\ [Next]_vars => Basics'
<1> SUFFICES ASSUME Basics, [Next]_vars PROVE Basics'
  OBVIOUS
<1>1. CASE Next
  BY ZenonT(30), <1>1, PostBasics, CreateBasics, ListPageBasics, LookBasics, PutBasics,
     RecordBasics, PopDeleteBasics, RenewBasics, RenewPutBasics, ReleaseBasics,
     FindBasics, PutBackBasics, DropBasics, AbortBasics, OtherBasics
  DEF Next
<1>2. CASE UNCHANGED vars
  BY SMTT(30), <1>2 DEF vars, Basics, TypeOK, ObjectsSane, PurgeSane, NoObject, CallSane
<1> QED
  BY <1>1, <1>2

-------------------------------------------------------------------------------
\* A claim is undisturbed by a step that leaves its call, what its client was
\* told and the messages that name it alone.
LEMMA OwnedFrame ==
  ASSUME TypeOK, NEW d \in Claims, Owned(d),
         told'[d] = told[d], call'[d] = call[d], cobj'[d].ids \subseteq cobj[d].ids,
         \A m \in Msgs : obj[m].claim_id = d => obj'[m].claim_id = d
  PROVE  Owned(d)'
<1>1. told[d] \subseteq Msgs /\ call[d].ids \subseteq Msgs
  BY SMTT(30), CallFields DEF TypeOK
<1> QED
  BY SMTT(30), <1>1 DEF Owned

\* No object of another claim changes hands when a new message is stored ...
LEMMA PostOwned ==
  ASSUME IInv, NEW m \in Msgs, Post(m) \/ PostLost(m), NEW d \in Claims
  PROVE  Owned(d)'
<1>1. \A k \in Msgs : obj[k].claim_id = d => obj'[k].claim_id = d
  <2>1. CASE Post(m)
    <3>1. PICK ttl \in MsgTtls :
            obj' = [obj EXCEPT ![m] = [claim_id |-> NoClaim, ttl |-> ttl,
                                       meta |-> NoClaim, end |-> now + ttl]]
      BY <2>1, Zenon DEF Post
    <3>2. obj[m].claim_id = NoClaim
      BY <2>1 DEF Post, IInv, Basics, ObjectsSane, NoObject
    <3> QED
      BY <3>1, <3>2, SwiftClaimsAssumption
      DEF SwiftClaimsAssumption, IInv, Basics, TypeOK
  <2>2. CASE PostLost(m)
    BY <2>2 DEF PostLost
  <2> QED BY <2>1, <2>2
<1> QED
  BY <1>1, OwnedFrame DEF Post, PostLost, IInv, Basics

\* ... or when an object is deleted.
LEMMA GoneTags ==
  ASSUME TypeOK, NEW m \in Msgs, obj' = Gone(m)
  PROVE  \A k \in Msgs : obj'[k].claim_id = obj[k].claim_id
<1> SUFFICES ASSUME NEW k \in Msgs PROVE obj'[k].claim_id = obj[k].claim_id
  OBVIOUS
<1>1. [obj[m] EXCEPT !.end = 0].claim_id = obj[m].claim_id
  BY ObjFields DEF Object
<1> QED
  BY SMTT(30), <1>1 DEF Gone, TypeOK

\* A claim is undisturbed by what another claim's call does to its own state.
LEMMA CallFrame ==
  ASSUME IInv, NEW c \in Claims, NEW d \in Claims \ {c}, NEW r,
         call' = [call EXCEPT ![c] = r],
         UNCHANGED <<obj, cobj, told>>
  PROVE  Owned(d)'
<1>1. call'[d] = call[d]
  BY DEF IInv, Basics, TypeOK
<1> QED
  BY <1>1, OwnedFrame DEF IInv, Basics

\* The steps of a creation before it records its claim, except the put.
LEMMA ListOwned ==
  ASSUME IInv, NEW c \in Claims, Create(c) \/ ListPage(c) \/ Look(c), NEW d \in Claims
  PROVE  Owned(d)'
<1>1. PICK r : call' = [call EXCEPT ![c] = r]
  BY Zenon DEF Create, ListPage, Look
<1>2. UNCHANGED <<obj, cobj, told>>
  BY Zenon DEF Create, ListPage, Look
<1>3. CASE d # c
  BY <1>1, <1>2, <1>3, CallFrame, ZenonT(30)
<1>4. CASE d = c
  <2>1. /\ call'[c].ids \in {{}, call[c].ids}
        /\ call'[c].pc \in {"list", "look", "put", "record"}
        /\ call'[c].ids # {} => call[c].pc \in {"list", "look"}
    <3>1. CASE Create(c)
      <4>1. PICK pop \in BOOLEAN, n \in Limits, ttl \in ClaimTtls, grace \in Graces :
              call' = [call EXCEPT ![c] =
                [IdleCall EXCEPT !.pc = "list", !.pop = pop, !.cttl = ttl,
                                 !.grace = grace, !.left = n, !.limit = n]]
        BY <3>1, ZenonT(30) DEF Create
      <4>2. call'[c] = [IdleCall EXCEPT !.pc = "list", !.pop = pop, !.cttl = ttl,
                                 !.grace = grace, !.left = n, !.limit = n]
        BY <4>1 DEF IInv, Basics, TypeOK
      <4>3. call'[c].pc = "list" /\ call'[c].ids = {}
        BY <4>2 DEF IdleCall
      <4> QED BY <4>3
    <3>2. CASE ListPage(c)
      <4>1. /\ call[c].pc = "list" /\ call'[c].ids = call[c].ids
            /\ call'[c].pc \in {"record", "look"}
        BY SMTT(30), <3>2, CallFields DEF ListPage, Call, IInv, Basics, TypeOK
      <4> QED BY <4>1
    <3>3. CASE Look(c)
      <4>1. PICK m \in call[c].page :
              LET rest == call[c].page \ {m}
                  free == Stored(m) /\ obj[m].claim_id = NoClaim
              IN  call' = [call EXCEPT ![c] =
                    [call[c] EXCEPT
                       !.pc = IF free THEN "put" ELSE AfterMessage(call[c].left, rest),
                       !.page = rest, !.mark = m,
                       !.ttl = IF free THEN obj[m].ttl ELSE 0]]
        BY <3>3, Zenon DEF Look
      <4> DEFINE free == Stored(m) /\ obj[m].claim_id = NoClaim
                 pc == IF free THEN "put"
                       ELSE AfterMessage(call[c].left, call[c].page \ {m})
      <4>2. call'[c].pc = pc /\ call'[c].ids = call[c].ids
        BY <4>1, CallFields DEF Call, IInv, Basics, TypeOK
      <4>3. pc \in {"put", "record", "list", "look"} /\ call[c].pc = "look"
        BY <3>3, CallFields, AfterMessageLeft, Zenon DEF IInv, Basics, Look
      <4> QED
        BY <4>2, <4>3
    <3> QED BY SMTT(30), <3>1, <3>2, <3>3
  <2> QED
    BY SMTT(30), <1>2, <1>4, <2>1 DEF Owned, IInv
<1> QED
  BY <1>3, <1>4

\* A put takes only a message that no claim holds.
LEMMA PutOwned ==
  ASSUME IInv, NEW c \in Claims, Put(c), NEW d \in Claims PROVE Owned(d)'
<1> DEFINE m == call[c].mark
<1>1. m \in Msgs /\ call[c].seen = NoClaim /\ call[c] \in Call /\ call[c].left > 0
  BY CallFields DEF IInv, Basics, CallSane, Put
<1>2. \A k \in Msgs \ {m} : obj'[k] = obj[k]
  BY ZenonT(30), <1>1 DEF Put, IInv, Basics, TypeOK
<1>3. \/ Matches(c, m) /\ obj[m].claim_id = NoClaim /\ obj'[m].claim_id = c
         /\ call'[c].ids = call[c].ids \cup {m}
      \/ obj' = obj /\ call'[c].ids = call[c].ids
  BY SMTT(30), <1>1 DEF Put, Matches, IInv, Basics, TypeOK, Call
<1>4. \A k \in Msgs : obj[k].claim_id \in Claims => obj'[k].claim_id = obj[k].claim_id
  BY <1>2, <1>3, SwiftClaimsAssumption DEF SwiftClaimsAssumption
<1>5. cobj' = cobj /\ told' = told
  BY DEF Put
<1>6. CASE d # c
  <2>1. call'[d] = call[d]
    BY <1>6 DEF Put, IInv, Basics, TypeOK
  <2> QED
    BY <1>4, <1>5, <2>1, OwnedFrame DEF IInv, Basics
<1>7. CASE d = c
  <2>1. call'[c].pc = AfterMessage(call[c].left - 1, call[c].page)
    BY SMTT(30), <1>1 DEF Put, IInv, Basics, TypeOK, Call
  <2>2. call'[c].pc \in {"record", "list", "look"}
    BY SMTT(30), <1>1, <2>1, CallFields, AfterMessageLeft DEF IInv, Basics
  <2>3. \A k \in call[c].ids \cup told[c] : k \in Msgs /\ obj[k].claim_id = c
    BY SMTT(30), CallFields DEF IInv, Basics, TypeOK, Owned, Put
  <2>4. \A k \in call'[c].ids \cup told[c] : obj'[k].claim_id = c
    BY SMTT(30), <1>3, <1>4, <2>3
  <2> QED
    BY Zenon, <1>5, <1>7, <2>2, <2>4 DEF Owned
<1> QED
  BY Zenon, <1>6, <1>7

\* A client is told of messages that name its claim.
LEMMA RecordOwned ==
  ASSUME IInv, NEW c \in Claims, Record(c), NEW d \in Claims PROVE Owned(d)'
<1>1. CASE d # c
  <2>1. call'[d] = call[d] /\ told'[d] = told[d] /\ cobj'[d] = cobj[d] /\ obj' = obj
    BY <1>1 DEF Record, IInv, Basics, TypeOK
  <2> QED
    BY <2>1, OwnedFrame DEF IInv, Basics
<1>2. CASE d = c
  <2>1. told'[c] = call[c].ids /\ cobj'[c].ids = call[c].ids /\ obj' = obj
    BY DEF Record, IInv, Basics, TypeOK
  <2>2. call'[c].pc \in {"bulk", "open"}
    BY DEF Record, IInv, Basics, TypeOK, IdleCall
  <2> QED
    BY <1>2, <2>1, <2>2 DEF Owned, IInv, Record
<1> QED
  BY <1>1, <1>2

\* A pop deletes objects, which keep the id in their content.
LEMMA PopDeleteOwned ==
  ASSUME IInv, NEW c \in Claims, PopDelete(c), NEW d \in Claims PROVE Owned(d)'
<1>1. \A k \in Msgs : obj'[k].claim_id = obj[k].claim_id
  BY CallFields, GoneTags DEF PopDelete, IInv, Basics
<1>2. cobj' = cobj /\ told' = told
  BY DEF PopDelete
<1>3. CASE d # c
  <2>1. call'[d] = call[d]
    BY ZenonT(30), <1>3 DEF PopDelete, IInv, Basics, TypeOK
  <2> QED
    BY Zenon, <1>1, <1>2, <2>1, OwnedFrame DEF IInv, Basics
<1>4. CASE d = c
  <2>1. call'[c].pc \in {"bulk", "closed"}
    BY CallFields DEF PopDelete, IInv, Basics, TypeOK, IdleCall, Call
  <2> QED
    BY SMTT(30), <1>1, <1>2, <1>4, <2>1 DEF Owned, IInv, Basics, TypeOK
<1> QED
  BY <1>3, <1>4

\* A renewal writes back the list of messages that it read.
LEMMA RenewOwned ==
  ASSUME IInv, NEW c \in Claims, Renew(c) \/ RenewPut(c), NEW d \in Claims
  PROVE  Owned(d)'
<1>1. obj' = obj /\ told' = told
  BY Zenon DEF Renew, RenewPut
<1>2. CASE d # c
  <2>1. call'[d] = call[d] /\ cobj'[d] = cobj[d]
    BY <1>2, ZenonT(30) DEF Renew, RenewPut, IInv, Basics, TypeOK
  <2> QED
    BY <1>1, <2>1, OwnedFrame DEF IInv, Basics
<1>3. CASE d = c /\ Renew(c)
  <2>1. PICK ttl : call' = [call EXCEPT ![c] =
                     [IdleCall EXCEPT !.pc = "renew", !.cttl = ttl, !.ids = cobj[c].ids]]
    BY <1>3, Zenon DEF Renew
  <2>2. call'[c] = [IdleCall EXCEPT !.pc = "renew", !.cttl = ttl, !.ids = cobj[c].ids]
    BY <2>1 DEF IInv, Basics, TypeOK
  <2>3. call'[c].pc = "renew" /\ call'[c].ids = cobj[c].ids
    BY <2>2 DEF IdleCall
  <2>4. call[c].pc = "open" /\ cobj' = cobj
    BY <1>3, ZenonT(30) DEF Renew
  <2> QED
    BY <1>1, <1>3, <2>3, <2>4 DEF Owned, IInv
<1>4. CASE d = c /\ RenewPut(c)
  <2>1. /\ call'[c].pc = "open" /\ cobj'[c].ids = call[c].ids /\ call[c].pc = "renew"
    BY <1>4 DEF RenewPut, IInv, Basics, TypeOK, IdleCall
  <2> QED
    BY <1>1, <1>4, <2>1 DEF Owned, IInv
<1> QED
  BY <1>2, <1>3, <1>4

\* A release starts from the messages its client gives up.
LEMMA ReleaseOwned ==
  ASSUME IInv, NEW c \in Claims, Release(c), NEW d \in Claims PROVE Owned(d)'
<1>1. obj' = obj /\ cobj' = cobj
  BY SMTT(30) DEF Release
<1>2. CASE d # c
  <2>1. call'[d] = call[d] /\ told'[d] = told[d]
    BY Zenon, <1>2 DEF Release, IInv, Basics, TypeOK
  <2> QED
    BY <1>1, <2>1, OwnedFrame DEF IInv, Basics
<1>3. CASE d = c
  <2>1. /\ call'[c].pc = "find" /\ call'[c].ids = cobj[c].ids /\ told'[c] = {}
        /\ call[c].pc = "open"
    BY DEF Release, IInv, Basics, TypeOK, IdleCall
  <2> QED
    BY <1>1, <1>3, <2>1 DEF Owned, IInv
<1> QED
  BY <1>2, <1>3

\* What a release reads of a message names its own claim.
LEMMA FindOwned ==
  ASSUME IInv, NEW c \in Claims, Find(c), NEW d \in Claims PROVE Owned(d)'
<1>1. UNCHANGED <<obj, cobj, told>>
  BY Zenon DEF Find
<1>2. PICK r : call' = [call EXCEPT ![c] = r]
  BY Zenon DEF Find
<1>3. CASE d # c
  BY <1>1, <1>2, <1>3, CallFrame, Zenon
<1>4. CASE d = c
  <2>1. call[c] \in Call /\ call[c].pc = "find" /\ told[c] = {}
    BY CallFields, ZenonT(30) DEF Find, IInv, Basics, Owned
  <2>2. \A m \in call[c].ids : obj[m].claim_id = c
    BY SMTT(30), <2>1 DEF IInv, Owned
  <2>3. CASE call[c].ids = {}
    <3>1. call'[c].pc = "drop"
      BY SMTT(30), <2>3 DEF Find, IInv, Basics, TypeOK, IdleCall
    <3> QED
      BY <1>1, <1>4, <2>1, <3>1 DEF Owned
  <2>4. CASE call[c].ids # {}
    <3>1. \E m \in call[c].ids :
             /\ call'[c].ids = call[c].ids \ {m}
             /\ \/ call'[c].pc = "find"
                \/ /\ call'[c].pc = "back"
                   /\ call'[c].mark = m /\ call'[c].seen = obj[m].claim_id
      <4>1. PICK m \in call[c].ids :
               call' = [call EXCEPT ![c] =
                  IF Stored(m)
                  THEN [call[c] EXCEPT !.pc = "back", !.mark = m,
                                       !.ids = call[c].ids \ {m},
                                       !.seen = obj[m].claim_id, !.ttl = obj[m].ttl,
                                       !.end = obj[m].end]
                  ELSE [call[c] EXCEPT !.ids = call[c].ids \ {m}]]
        BY <2>4, Zenon DEF Find
      <4>2. CASE Stored(m)
        BY SMTT(30), <2>1, <4>1, <4>2 DEF IInv, Basics, TypeOK, Call
      <4>3. CASE ~Stored(m)
        BY SMTT(30), <2>1, <4>1, <4>3 DEF IInv, Basics, TypeOK, Call
      <4> QED
        BY <4>2, <4>3
    <3> QED
      BY ZenonT(30), <1>1, <1>4, <2>1, <2>2, <3>1 DEF Owned
  <2> QED BY <2>3, <2>4
<1> QED
  BY <1>3, <1>4

\* A release puts back only a message that names its own claim.
LEMMA PutBackOwned ==
  ASSUME IInv, NEW c \in Claims, PutBack(c), NEW d \in Claims PROVE Owned(d)'
<1> DEFINE m == call[c].mark
<1>1. m \in Msgs /\ call[c].seen = c /\ m \notin call[c].ids /\ told[c] = {}
  BY DEF IInv, Basics, CallSane, Owned, PutBack
<1>2. \A k \in Msgs \ {m} : obj'[k] = obj[k]
  BY Zenon, <1>1 DEF PutBack, IInv, Basics, TypeOK
<1>3. obj[m].claim_id = c
  BY <1>1 DEF PutBack, Matches
<1>4. cobj' = cobj /\ told' = told
  BY SMTT(30) DEF PutBack
<1>5. CASE d # c
  <2>1. call'[d] = call[d]
    BY <1>5 DEF PutBack, IInv, Basics, TypeOK
  <2>2. \A k \in Msgs : obj[k].claim_id = d => obj'[k].claim_id = d
    BY Zenon, <1>2, <1>3, <1>5
  <2> QED
    BY Zenon, <1>4, <2>1, <2>2, OwnedFrame DEF IInv, Basics
<1>6. CASE d = c
  <2>1. call'[c].pc = "find" /\ call'[c].ids = call[c].ids
    BY Zenon DEF PutBack, IInv, Basics, TypeOK, IdleCall
  <2>2. \A k \in call[c].ids : k \in Msgs \ {m} /\ obj[k].claim_id = c
    BY <1>1, CallFields DEF IInv, Basics, Owned, PutBack
  <2> QED
    BY Zenon, <1>1, <1>2, <1>4, <1>6, <2>1, <2>2 DEF Owned
<1> QED
  BY <1>5, <1>6

\* The claim object goes last.
LEMMA DropOwned ==
  ASSUME IInv, NEW c \in Claims, Drop(c), NEW d \in Claims PROVE Owned(d)'
<1>1. obj' = obj /\ told' = told
  BY SMTT(30) DEF Drop
<1>2. CASE d # c
  <2>1. call'[d] = call[d] /\ cobj'[d] = cobj[d]
    BY SMTT(30), <1>2 DEF Drop, IInv, Basics, TypeOK
  <2> QED
    BY <1>1, <2>1, OwnedFrame DEF IInv, Basics
<1>3. CASE d = c
  <2>1. call'[c].pc = "closed"
    BY DEF Drop, IInv, Basics, TypeOK, IdleCall
  <2> QED
    BY <1>1, <1>3, <2>1 DEF Owned, IInv
<1> QED
  BY <1>2, <1>3

\* A call that ends half-way leaves its client what it was told, and a client
\* that does not repeat a release has given its messages up.
LEMMA AbortOwned ==
  ASSUME IInv, ~Retry, NEW c \in Claims, Abort(c), NEW d \in Claims PROVE Owned(d)'
<1>1. UNCHANGED <<obj, cobj, told>>
  BY DEF Abort
<1>2. PICK r : call' = [call EXCEPT ![c] = r]
  BY DEF Abort
<1>3. CASE d # c
  BY <1>1, <1>2, <1>3, CallFrame, Zenon
<1>4. CASE d = c
  <2>1. \/ call' = [call EXCEPT ![c] = [IdleCall EXCEPT !.pc = "closed"]]
        \/ /\ call' = [call EXCEPT ![c] = [IdleCall EXCEPT !.pc = "open"]]
           /\ call[c].pc = "renew"
    BY DEF Abort
  <2>2. \/ call'[c].pc = "closed"
        \/ call'[c].pc = "open" /\ call[c].pc = "renew"
    BY <2>1 DEF IInv, Basics, TypeOK, IdleCall
  <2> QED
    BY <1>1, <1>4, <2>2 DEF Owned, IInv
<1> QED
  BY <1>3, <1>4

\* Deletions and purges leave every content alone, and a purge empties claims.
LEMMA OtherOwned ==
  ASSUME IInv, NEW d \in Claims,
         \/ \E x \in Deleters : DeleteCheck(x) \/ Delete(x)
         \/ Purge \/ PurgeObject \/ PurgeContainer \/ Tick
  PROVE  Owned(d)'
<1>1. call' = call /\ told' = told
  BY DEF DeleteCheck, Delete, Purge, PurgeObject, PurgeContainer, Tick
<1>2. \A k \in Msgs : obj'[k].claim_id = obj[k].claim_id
  <2>1. obj' = obj \/ \E m \in Msgs : obj' = Gone(m)
    BY DEF DeleteCheck, Delete, Purge, PurgeObject, PurgeContainer, Tick, IInv,
           Basics, TypeOK, PurgeSane
  <2> QED
    BY Zenon, <2>1, GoneTags DEF IInv, Basics
<1>3. cobj'[d].ids \subseteq cobj[d].ids
  <2>1. cobj' = cobj \/ \E c \in Claims : cobj' = [cobj EXCEPT ![c] = NoClaimObject]
    BY DEF DeleteCheck, Delete, Purge, PurgeObject, PurgeContainer, Tick, IInv,
           Basics, PurgeSane
  <2> QED
    BY <2>1 DEF IInv, Basics, TypeOK, NoClaimObject
<1> QED
  BY Zenon, <1>1, <1>2, <1>3, OwnedFrame DEF IInv, Basics

\* Every step keeps the invariant, unless releases are repeated.
LEMMA NextIInv == ~Retry /\ IInv /\ [Next]_vars => IInv'
<1> SUFFICES ASSUME ~Retry, IInv, [Next]_vars PROVE IInv'
  OBVIOUS
<1>1. Basics'
  BY NextBasics DEF IInv
<1>2. ASSUME NEW d \in Claims PROVE Owned(d)'
  <2>1. CASE Next
    BY ZenonT(30), <2>1, PostOwned, ListOwned, PutOwned, RecordOwned, PopDeleteOwned, RenewOwned,
       ReleaseOwned, FindOwned, PutBackOwned, DropOwned, AbortOwned, OtherOwned
    DEF Next
  <2>2. CASE UNCHANGED vars
    BY SMTT(30), <2>2 DEF vars, IInv, Owned
  <2> QED BY Zenon, <2>1, <2>2
<1> QED
  BY <1>1, <1>2 DEF IInv

-------------------------------------------------------------------------------
\* Nothing is claimed in an empty queue.
LEMMA InitIInv == Init => IInv
<1> SUFFICES ASSUME Init PROVE \A c \in Claims : Owned(c)
  BY InitBasics DEF IInv
<1> QED
  BY DEF Init, Owned, IdleCall, NoClaimObject

\* The state of messages, claims and calls in Swift is well typed in every
\* reachable state.
THEOREM TypeCorrect == Spec => []TypeOK
<1>1. Basics => TypeOK
  BY DEF Basics
<1> QED
  BY InitBasics, NextBasics, <1>1, PTL DEF Spec

\* The claimed count of stats(), taken from headers, is the number of messages
\* that claim creation would skip by their content.
THEOREM CountsAgree == Spec => []StatsAgree
<1>1. ASSUME Basics PROVE StatsAgree
  <2>1. {m \in Msgs : Stored(m) /\ obj[m].meta # NoClaim}
          = {m \in Msgs : Stored(m) /\ obj[m].claim_id # NoClaim}
    BY <1>1 DEF Basics, ObjectsSane
  <2> QED
    BY SMTT(30), <2>1 DEF StatsAgree, StatsClaimed
<1> QED
  BY InitBasics, NextBasics, <1>1, PTL DEF Spec

\* The inductive invariant holds of clients that do not repeat a release that
\* failed half-way.
LEMMA Invariance == ~Retry => (Spec => []IInv)
<1> SUFFICES ASSUME ~Retry PROVE Spec => []IInv
  OBVIOUS
<1>1. IInv /\ [Next]_vars => IInv'
  BY NextIInv
<1> QED
  BY InitIInv, <1>1, PTL DEF Spec

\* What claim creation or pop returned to one client is returned to no other
\* until the first one gives it up.
THEOREM OneClaim == ~Retry => (Spec => []ClaimedOnce)
<1>1. IInv => ClaimedOnce
  BY SMTT(30) DEF IInv, Owned, ClaimedOnce
<1> QED
  BY Invariance, <1>1, PTL

\* A client that has not released its claim reads only messages that name it.
THEOREM OwnMessages == ~Retry => (Spec => []ReadsOwn)
<1>1. IInv => ReadsOwn
  BY DEF IInv, Owned, ReadsOwn
<1> QED
  BY Invariance, <1>1, PTL

-------------------------------------------------------------------------------
\* The end of a lease in Swift is beyond the clock.
LEMMA NeverEnds == MaxTime + 1 \in Nat
  BY SMTT(30), SwiftClaimsAssumption DEF SwiftClaimsAssumption

\* An empty queue is a queue without leases.
LEMMA InitLease == Init => Lease!Init
  BY SMTT(30) DEF Init, Lease!Init, NoObject

\* A step that changes neither contents nor deletions is invisible to the leases.
LEMMA SameLease ==
  ASSUME UNCHANGED <<now, posted>>,
         \A m \in Msgs : /\ obj'[m].claim_id = obj[m].claim_id
                         /\ obj'[m].end = 0 <=> obj[m].end = 0,
         posted \subseteq Msgs
  PROVE  UNCHANGED Lease!vars
  BY SMTT(30) DEF Lease!vars

\* Writing the claim id into one object is leasing that message.
LEMMA LeaseStep ==
  ASSUME Basics, UNCHANGED <<now, posted>>, NEW m \in Msgs,
         NEW x \in Claims \cup {NoClaim},
         obj[m].end # 0, obj'[m].end # 0, obj'[m].claim_id = x,
         \A k \in Msgs \ {m} : obj'[k] = obj[k]
  PROVE  Lease!Lease(m, x)
<1>1. \A k \in Msgs : k # m => obj'[k] = obj[k]
  BY Zenon
<1>2. posted \subseteq Msgs
  BY SMTT(30) DEF Basics, TypeOK
<1>3. {k \in posted : obj[k].end = 0}' = {k \in posted : obj[k].end = 0}
  BY <1>1, <1>2
<1>4. [k \in Msgs |-> obj'[k].claim_id]
        = [[k \in Msgs |-> obj[k].claim_id] EXCEPT ![m] = x]
  BY <1>1, Zenon
<1> QED
  BY Zenon, <1>1, <1>3, <1>4, NeverEnds DEF Lease!Lease

\* Deleting an object removes its message.
LEMMA RemoveStep ==
  ASSUME Basics, UNCHANGED <<now, posted>>, NEW m \in Msgs, obj' = Gone(m)
  PROVE  Lease!Remove(m) \/ UNCHANGED Lease!vars
<1>1. \A k \in Msgs : obj'[k].claim_id = obj[k].claim_id
  BY GoneTags DEF Basics
<1>2. /\ obj'[m].end = 0
      /\ \A k \in Msgs : k # m => obj'[k] = obj[k]
  BY ObjFields DEF Gone, Basics, TypeOK, Object
<1>3. posted \subseteq Msgs
  BY Zenon DEF Basics, TypeOK
<1>4. CASE m \in posted
  <2>1. {k \in posted : obj[k].end = 0}' = {k \in posted : obj[k].end = 0} \cup {m}
    BY Zenon, <1>2, <1>3, <1>4
  <2> QED
    BY Zenon, <1>1, <2>1 DEF Lease!Remove
<1>5. CASE m \notin posted
  <2>1. {k \in posted : obj[k].end = 0}' = {k \in posted : obj[k].end = 0}
    BY SMTT(30), <1>2, <1>3, <1>5
  <2> QED
    BY <1>1, <2>1 DEF Lease!vars
<1> QED
  BY ZenonT(30), <1>4, <1>5

\* Every step on objects is a step on leases, or none.
LEMMA NextLease == Basics /\ [Next]_vars => [Lease!Next]_Lease!vars
<1> SUFFICES ASSUME Basics, [Next]_vars
             PROVE  Lease!Next \/ UNCHANGED Lease!vars
  OBVIOUS
<1>1. ASSUME UNCHANGED <<now, obj, posted>> PROVE UNCHANGED Lease!vars
  BY <1>1 DEF Lease!vars
<1>2. ASSUME NEW m \in Msgs, Lease!Remove(m) \/ UNCHANGED Lease!vars
      PROVE  Lease!Next \/ UNCHANGED Lease!vars
  BY SMTT(30), <1>2 DEF Lease!Next
<1>3. ASSUME NEW m \in Msgs, Post(m) PROVE UNCHANGED Lease!vars
  <2>1. PICK ttl \in MsgTtls :
          obj' = [obj EXCEPT ![m] = [claim_id |-> NoClaim, ttl |-> ttl,
                                     meta |-> NoClaim, end |-> now + ttl]]
    BY <1>3, Zenon DEF Post
  <2>2. now + ttl # 0
    BY SMTT(30), SwiftClaimsAssumption DEF SwiftClaimsAssumption, Basics, TypeOK
  <2>3. /\ obj'[m].end # 0 /\ obj'[m].claim_id = obj[m].claim_id
        /\ \A k \in Msgs : k # m => obj'[k] = obj[k]
    BY SMTT(30), <1>3, <2>1, <2>2 DEF Post, Basics, TypeOK, ObjectsSane, NoObject
  <2>4. {k \in posted : obj[k].end = 0}' = {k \in posted : obj[k].end = 0}
    BY ZenonT(30), <1>3, <2>3 DEF Post, Basics, TypeOK
  <2> QED
    BY <1>3, <2>3, <2>4 DEF Post, Lease!vars
<1>4. ASSUME NEW m \in Msgs, PostLost(m) PROVE Lease!Remove(m)
  <2>1. obj[m].end = 0
    BY SMTT(30), <1>4 DEF PostLost, Basics, ObjectsSane, NoObject
  <2>2. {k \in posted : obj[k].end = 0}' = {k \in posted : obj[k].end = 0} \cup {m}
    BY <1>4, <2>1 DEF PostLost
  <2> QED
    BY SMTT(30), <1>4, <2>2 DEF PostLost, Lease!Remove
<1>5. ASSUME NEW c \in Claims, Put(c) PROVE Lease!Next \/ UNCHANGED Lease!vars
  <2>1. PICK m \in Msgs : m = call[c].mark
    BY <1>5 DEF Basics, CallSane, Put
  <2>2. CASE Matches(c, m)
    <3>1. obj[m].claim_id = NoClaim /\ obj[m].end # 0
      BY Zenon, <1>5, <2>2, StoredPosted DEF Matches, Basics, CallSane, Put
    <3>2. PICK ttl \in Nat :
            obj' = [obj EXCEPT ![m] = [claim_id |-> c, ttl |-> ttl,
                                       meta |-> c, end |-> now + ttl]]
      <4> DEFINE ttl == IF call[c].ttl > call[c].cttl + call[c].grace
                        THEN call[c].ttl ELSE call[c].cttl + call[c].grace
      <4>1. ttl \in Nat
        BY CallFields DEF Basics
      <4>2. obj' = [obj EXCEPT ![m] = [claim_id |-> c, ttl |-> ttl,
                                       meta |-> c, end |-> now + ttl]]
        BY Zenon, <1>5, <2>1, <2>2 DEF Put
      <4> HIDE DEF ttl
      <4> QED
        BY <4>1, <4>2, Zenon
    <3>3. now + ttl # 0
      BY SMTT(30) DEF Basics, TypeOK
    <3>4. /\ obj'[m].claim_id = c /\ obj'[m].end # 0
          /\ \A k \in Msgs \ {m} : obj'[k] = obj[k]
      BY Zenon, <3>2, <3>3 DEF Basics, TypeOK
    <3>5. Lease!Lease(m, c)
      BY ZenonT(30), <1>5, <3>1, <3>4, LeaseStep DEF Put
    <3>6. Lease!Acquire(m, c)
      BY <3>1, <3>5 DEF Lease!Acquire, Lease!Free
    <3> QED
      BY Zenon, <3>6 DEF Lease!Next
  <2>3. CASE ~Matches(c, m)
    BY Zenon, <1>1, <1>5, <2>1, <2>3 DEF Put
  <2> QED BY Zenon, <2>2, <2>3
<1>6. ASSUME NEW c \in Claims, PopDelete(c) PROVE Lease!Next \/ UNCHANGED Lease!vars
  BY Zenon, <1>1, <1>2, <1>6, RemoveStep, CallFields DEF PopDelete, Basics
<1>7. ASSUME NEW c \in Claims, PutBack(c) PROVE Lease!Next \/ UNCHANGED Lease!vars
  <2>1. PICK m \in Msgs, x \in Claims \cup {NoClaim} :
          m = call[c].mark /\ x = call[c].seen
    BY ZenonT(30), <1>7, CallFields DEF Basics, CallSane, PutBack
  <2>2. obj[m].claim_id = x /\ obj[m].end # 0 /\ call[c].end # 0
    BY SMTT(30), <1>7, <2>1, StoredPosted, CallFields DEF Matches, Basics, CallSane, PutBack
  <2>3. /\ obj'[m].claim_id = NoClaim /\ obj'[m].end # 0
        /\ \A k \in Msgs \ {m} : obj'[k] = obj[k]
    BY <1>7, <2>1, <2>2 DEF PutBack, Basics, TypeOK
  <2>4. UNCHANGED <<now, posted>>
    BY SMTT(30), <1>7 DEF PutBack
  <2>5. Lease!Lease(m, NoClaim)
    BY <2>2, <2>3, <2>4, LeaseStep
  <2>6. CASE x \in Claims
    <3>1. Lease!Release(m, x)
      BY SMTT(30), <2>2, <2>5 DEF Lease!Release
    <3> QED
      BY <2>6, <3>1 DEF Lease!Next
  <2>7. CASE x = NoClaim
    <3>1. \A k \in Msgs : /\ obj'[k].claim_id = obj[k].claim_id
                          /\ obj'[k].end = 0 <=> obj[k].end = 0
      BY SMTT(30), <2>2, <2>3, <2>7
    <3> QED
      BY Zenon, <2>4, <3>1, SameLease DEF Basics, TypeOK
  <2> QED BY Zenon, <2>6, <2>7
<1>8. ASSUME NEW d \in Deleters, Delete(d) PROVE Lease!Next \/ UNCHANGED Lease!vars
  BY <1>2, <1>8, RemoveStep DEF Delete, Basics, TypeOK
<1>9. ASSUME PurgeObject PROVE Lease!Next \/ UNCHANGED Lease!vars
  BY ZenonT(30), <1>1, <1>2, <1>9, RemoveStep DEF PurgeObject, Basics, PurgeSane
<1>10. ASSUME Tick PROVE Lease!Next
  BY <1>10 DEF Tick, Lease!Next, Lease!Advance
<1>11. ASSUME \/ \E c \in Claims :
                    \/ Create(c) \/ ListPage(c) \/ Look(c) \/ Record(c) \/ Renew(c)
                    \/ RenewPut(c) \/ Release(c) \/ Find(c) \/ Drop(c) \/ Abort(c)
              \/ \E d \in Deleters : DeleteCheck(d)
              \/ Purge \/ PurgeContainer \/ UNCHANGED vars
       PROVE  UNCHANGED <<now, obj, posted>>
  BY <1>11, ZenonT(30)
  DEF Create, ListPage, Look, Record, Renew, RenewPut, Release, Find, Drop, Abort,
      DeleteCheck, Purge, PurgeContainer, vars
<1> QED
  BY Zenon, <1>1, <1>2, <1>3, <1>4, <1>5, <1>6, <1>7, <1>8, <1>9, <1>10, <1>11 DEF Next

\* The Swift claim controller implements the exclusive lease of ClaimLease, also
\* when releases are repeated: a conditional put acquires, a release releases,
\* and every deletion removes.
THEOREM Refinement == Spec => Implements
  BY InitLease, InitBasics, NextBasics, NextLease, PTL DEF Spec, Implements, Lease!Spec
===============================================================================
