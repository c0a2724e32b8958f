--------------------------- MODULE ControlPlaneProofs -------------------------
(* Proofs about ControlPlane: the replies of pools and flavors on MongoDB, the  *)
(* last pool of a flavor, what a patch may create, and what a walk through the  *)
(* pool listing is given.                                                       *)
EXTENDS ControlPlane, TLAPS

\* What the later steps of a request were handed by the first.
Args(r) ==
    /\ r.pc = "pool_create" => r.name \in Pools /\ r.arg \in Record
    /\ r.pc = "pool_remove" => r.name \in Pools
    /\ r.pc = "pool_update" => r.name \in Pools /\ r.arg \in Patch
    /\ r.pc = "flavor_write" => r.name \in Flavors /\ r.arg \in Groups
    /\ r.pc = "flavor_update" => r.name \in Flavors /\ r.arg \in Groups \cup {None}

\* A check nobody disturbed still holds.
Checked(a) ==
    call[a].pc = "pool_remove" /\ calm[a] /\ ~sql =>
        ~(call[a].name \in Stored /\ LastOfUsedGroup(call[a].name))

\* A walk misses nothing that comes before its marker.
Walked(r) ==
    r.pc = "walk" =>
        /\ r.due \subseteq Stored
        /\ ~sql => \A x \in r.due : x <= r.marker => x \in r.got

IInv ==
    /\ TypeOK /\ RepliesMapped
    /\ \A a \in Admins : Args(call[a]) /\ Checked(a) /\ Walked(call[a])

\* The steps of the three action properties.
KeepsLastPool ==
    \A a \in Admins :
        call[a].pc = "pool_remove" /\ call'[a].pc = "idle" /\ calm[a] /\ ~sql =>
            \A f \in Flavors :
                flavors[f] # None /\ InGroup(flavors[f]) # {} => InGroup(flavors[f])' # {}

CreatesByPut ==
    /\ \A x \in Pools : pools[x] = None /\ pools'[x] # None =>
          \E a \in Admins : call[a].pc = "pool_create" /\ call[a].name = x
    /\ \A f \in Flavors : flavors[f] = None /\ flavors'[f] # None =>
          \E a \in Admins : call[a].pc = "flavor_write" /\ call[a].name = f

ListsAll ==
    \A a \in Admins :
        call[a].pc = "walk" /\ call'[a].pc = "idle" /\ ~sql => call[a].due \subseteq call[a].got

\* A reply that leaves RepliesMapped as it is.
Mapped(op, status) ==
    op \in Kinds /\ (status = 500 => sql \/ op \notin {"put", "delete", "put_flavor"})

Good == IInv' /\ KeepsLastPool /\ CreatesByPut /\ ListsAll

-------------------------------------------------------------------------------
(* Types.                                                                       *)

LEMMA IdleType == Idle \in Call /\ Idle.pc = "idle"
BY Zenon DEF Idle, Call

LEMMA IdleFields == Idle.marker = 0 /\ Idle.due = {} /\ Idle.got = {}
BY DEF Idle

LEMMA IInvTypes ==
  ASSUME IInv
  PROVE  /\ sql \in BOOLEAN
         /\ pools \in [Pools -> Record \cup {None}]
         /\ flavors \in [Flavors -> Groups \cup {None}]
         /\ rows \subseteq Groups
         /\ call \in [Admins -> Call]
         /\ calm \in [Admins -> BOOLEAN]
         /\ error \in Kinds
BY DEF IInv, TypeOK

LEMMA IInvCall ==
  ASSUME IInv, NEW a \in Admins
  PROVE  call[a] \in Call /\ Args(call[a]) /\ Walked(call[a]) /\ Checked(a)
BY DEF IInv, TypeOK

LEMMA StoredRecord ==
  ASSUME IInv, NEW x \in Stored
  PROVE  x \in Pools /\ pools[x] \in Record
BY IInvTypes DEF Stored

LEMMA Replies ==
  /\ Mapped("put1", 400) /\ Mapped("put1", 500)
  /\ Mapped("put", 400) /\ Mapped("put", 201) /\ Mapped("put", 409)
  /\ Mapped("delete1", 204) /\ Mapped("delete1", 500)
  /\ Mapped("delete", 204) /\ Mapped("delete", 403)
  /\ Mapped("put_flavor1", 500) /\ Mapped("put_flavor", 400) /\ Mapped("put_flavor", 201)
  /\ Mapped("delete_flavor", 204)
  /\ \A status : /\ Mapped("patch", status) /\ Mapped("patch_flavor", status)
                 /\ Mapped("list", status) /\ Mapped("get", status)
BY DEF Mapped, Kinds

\* A request that is not in the middle of anything needs nothing.
LEMMA IdleFits == Args(Idle) /\ Walked(Idle)
BY IdleType DEF Args, Walked

-------------------------------------------------------------------------------
(* Steps that write no record.                                                  *)

LEMMA NoWrite ==
  ASSUME IInv, NEW a \in Admins, NEW r \in Call,
         UNCHANGED <<sql, pools, flavors, rows>>,
         call' = [call EXCEPT ![a] = r],
         Args(r), Walked(r),
         calm' \in [Admins -> BOOLEAN],
         \A b \in Admins \ {a} : calm'[b] = calm[b],
         r.pc = "pool_remove" /\ ~sql => ~(r.name \in Stored /\ LastOfUsedGroup(r.name)),
         error' \in Kinds,
         ~sql => error' \notin {"put", "delete", "put_flavor"},
         call[a].pc = "walk" /\ r.pc = "idle" /\ ~sql => call[a].due \subseteq call[a].got
  PROVE  Good
<1> USE IInvTypes
<1>1. call' \in [Admins -> Call] /\ call'[a] = r /\ \A b \in Admins \ {a} : call'[b] = call[b]
  OBVIOUS
<1>2. Stored' = Stored /\ \A g : InGroup(g)' = InGroup(g)
  BY DEF Stored, InGroup
<1>3. \A x : LastOfUsedGroup(x)' <=> LastOfUsedGroup(x)
  BY <1>2 DEF LastOfUsedGroup
<1>4. TypeOK'
  BY <1>1, <1>2 DEF IInv, TypeOK
<1>5. RepliesMapped'
  BY DEF RepliesMapped
<1>6. \A b \in Admins : Args(call[b])'
  BY <1>1, IInvCall DEF Args
<1>7. \A b \in Admins : Walked(call[b])'
  BY <1>1, <1>2, IInvCall DEF Walked
<1>8. \A b \in Admins : Checked(b)'
  BY <1>1, <1>2, <1>3, IInvCall DEF Checked
<1>9. IInv'
  BY <1>4, <1>5, <1>6, <1>7, <1>8 DEF IInv
<1>10. KeepsLastPool /\ CreatesByPut
  BY <1>2 DEF KeepsLastPool, CreatesByPut
<1>11. ListsAll
  BY <1>1 DEF ListsAll
<1> QED
  BY <1>9, <1>10, <1>11 DEF Good

\* A request that begins and goes on.
LEMMA GoStep ==
  ASSUME IInv, NEW a \in Admins, call[a].pc = "idle",
         NEW pc \in {"pool_create", "pool_remove", "pool_update", "flavor_write", "flavor_update"},
         NEW name \in Pools \cup Flavors,
         NEW arg \in Record \cup Patch \cup Groups \cup {None},
         NEW v2 \in BOOLEAN,
         Go(a, pc, name, arg, v2),
         pc = "pool_create" => name \in Pools /\ arg \in Record,
         pc = "pool_remove" => name \in Pools,
         pc = "pool_update" => name \in Pools /\ arg \in Patch,
         pc = "flavor_write" => name \in Flavors /\ arg \in Groups,
         pc = "flavor_update" => name \in Flavors /\ arg \in Groups \cup {None},
         pc = "pool_remove" /\ ~sql => ~(name \in Stored /\ LastOfUsedGroup(name))
  PROVE  Good
<1> DEFINE r == [Idle EXCEPT !.pc = pc, !.name = name, !.arg = arg, !.v2 = v2]
<1>1. name \in Pools \cup Flavors \cup {None}
  OBVIOUS
<1>2. r \in Call
  BY <1>1, IdleType, ZenonT(30) DEF Call
<1>3. r.pc = pc /\ r.name = name /\ r.arg = arg
  BY DEF Idle
<1>4. Args(r) /\ Walked(r)
  BY <1>3 DEF Args, Walked
<1>5. /\ call' = [call EXCEPT ![a] = r]
      /\ calm' = [calm EXCEPT ![a] = (pc = "pool_remove")]
      /\ UNCHANGED <<sql, pools, flavors, rows>>
      /\ error' = error
  BY DEF Go
<1> HIDE DEF r
<1>6. calm' \in [Admins -> BOOLEAN] /\ \A b \in Admins \ {a} : calm'[b] = calm[b]
  BY <1>5, IInvTypes, Zenon
<1>7. error' \in Kinds /\ (~sql => error' \notin {"put", "delete", "put_flavor"})
  BY <1>5 DEF IInv, TypeOK, RepliesMapped
<1>8. call[a].pc # "walk"
  OBVIOUS
<1>9. r.pc = "pool_remove" /\ ~sql => ~(r.name \in Stored /\ LastOfUsedGroup(r.name))
  BY <1>3
<1> QED
  BY <1>2, <1>4, <1>5, <1>6, <1>7, <1>8, <1>9, NoWrite, Zenon

\* The end of a request that is not a walk, without a write.
LEMMA EndStep ==
  ASSUME IInv, NEW a \in Admins, call[a].pc # "walk",
         NEW op, NEW status, End(a, op, status), Mapped(op, status),
         UNCHANGED <<sql, pools, flavors, rows, calm>>
  PROVE  Good
<1>1. call' = [call EXCEPT ![a] = Idle] /\ error' = IF status = 500 THEN op ELSE "none"
  BY DEF End
<1>2. error' \in Kinds /\ (~sql => error' \notin {"put", "delete", "put_flavor"})
  <2>1. CASE status = 500
    BY <1>1, <2>1 DEF Mapped
  <2>2. CASE status # 500
    <3>1. error' = "none"
      BY <1>1, <2>2, Zenon
    <3> QED
      BY <3>1 DEF Kinds
  <2> QED
    BY <2>1, <2>2
<1>3. calm' \in [Admins -> BOOLEAN] /\ \A b \in Admins \ {a} : calm'[b] = calm[b]
  BY IInvTypes
<1>4. Idle.pc # "pool_remove"
  BY IdleType
<1> QED
  BY <1>1, <1>2, <1>3, <1>4, IdleType, IdleFits, NoWrite, ZenonT(30)

LEMMA AnswerStep ==
  ASSUME IInv, NEW a \in Admins, NEW op, NEW status, Answer(a, op, status),
         Mapped(op, status)
  PROVE  Good
<1>1. call[a].pc # "walk" /\ End(a, op, status) /\ UNCHANGED <<sql, pools, flavors, rows, calm>>
  BY DEF Answer
<1> QED
  BY <1>1, EndStep

-------------------------------------------------------------------------------
(* Steps that write a record, but for the removal of a pool.                    *)

LEMMA Write ==
  ASSUME IInv, NEW a \in Admins, NEW r \in Call, UNCHANGED sql,
         call[a].pc \notin {"walk", "pool_remove"},
         call' = [call EXCEPT ![a] = r],
         Args(r), r.pc \notin {"walk", "pool_remove"},
         Disturb(a),
         pools' \in [Pools -> Record \cup {None}],
         flavors' \in [Flavors -> Groups \cup {None}],
         rows' \subseteq Groups,
         \A x \in Pools : pools[x] # None => pools'[x] # None,
         (\A x, y \in Stored : pools[x].uri = pools[y].uri => x = y)',
         CreatesByPut,
         error' \in Kinds,
         ~sql => error' \notin {"put", "delete", "put_flavor"}
  PROVE  Good
<1> USE IInvTypes
<1>1. call' \in [Admins -> Call] /\ call'[a] = r /\ \A b \in Admins \ {a} : call'[b] = call[b]
  OBVIOUS
<1>2. Stored \subseteq Stored'
  BY DEF Stored
<1>3. calm' = [b \in Admins |-> FALSE]
  BY DEF Disturb
<1>4. calm' \in [Admins -> BOOLEAN] /\ \A b \in Admins : ~calm'[b]
  BY <1>3
<1>5. TypeOK'
  BY <1>1, <1>4 DEF TypeOK
<1>6. RepliesMapped'
  BY DEF RepliesMapped
<1>7. \A b \in Admins : Args(call[b])'
  BY <1>1, IInvCall DEF Args
<1>8. \A b \in Admins : Walked(call[b])'
  BY <1>1, <1>2, IInvCall DEF Walked
<1>9. \A b \in Admins : Checked(b)'
  BY <1>4 DEF Checked
<1>10. IInv'
  BY <1>5, <1>6, <1>7, <1>8, <1>9 DEF IInv
<1>11. KeepsLastPool
  BY <1>1 DEF KeepsLastPool
<1>12. ListsAll
  BY <1>1 DEF ListsAll
<1> QED
  BY <1>10, <1>11, <1>12 DEF Good

\* The same for a request that ends.
LEMMA WriteEnd ==
  ASSUME IInv, NEW a \in Admins, UNCHANGED sql,
         call[a].pc \notin {"walk", "pool_remove"},
         NEW op, NEW status, End(a, op, status), Mapped(op, status),
         Disturb(a),
         pools' \in [Pools -> Record \cup {None}],
         flavors' \in [Flavors -> Groups \cup {None}],
         rows' \subseteq Groups,
         \A x \in Pools : pools[x] # None => pools'[x] # None,
         (\A x, y \in Stored : pools[x].uri = pools[y].uri => x = y)',
         CreatesByPut
  PROVE  Good
<1>1. call' = [call EXCEPT ![a] = Idle] /\ error' = IF status = 500 THEN op ELSE "none"
  BY DEF End
<1>2. error' \in Kinds /\ (~sql => error' \notin {"put", "delete", "put_flavor"})
  <2>1. CASE status = 500
    BY <1>1, <2>1 DEF Mapped
  <2>2. CASE status # 500
    <3>1. error' = "none"
      BY <1>1, <2>2, Zenon
    <3> QED
      BY <3>1 DEF Kinds
  <2> QED
    BY <2>1, <2>2
<1>3. Idle.pc \notin {"walk", "pool_remove"}
  BY IdleType
<1> QED
  BY <1>1, <1>2, <1>3, IdleType, IdleFits, Write, ZenonT(30)

\* What a write of the record r of pool x does, when its URI is not taken.
LEMMA PutRecord ==
  ASSUME IInv, NEW x \in Pools, NEW r \in Record, ~TakenUri(x, r.uri),
         pools' = [pools EXCEPT ![x] = r]
  PROVE  /\ pools' \in [Pools -> Record \cup {None}]
         /\ \A y \in Pools : pools[y] # None => pools'[y] # None
         /\ \A y \in Pools \ {x} : pools'[y] = pools[y]
         /\ (\A y, z \in Stored : pools[y].uri = pools[z].uri => y = z)'
<1> USE IInvTypes
<1>1. pools' \in [Pools -> Record \cup {None}]
  OBVIOUS
<1>2. pools'[x] = r /\ \A y \in Pools \ {x} : pools'[y] = pools[y]
  OBVIOUS
<1>3. r # None
  BY ControlPlaneAssumption
<1>4. \A y \in Stored' : y = x \/ (y \in Stored \ {x} /\ pools'[y] = pools[y])
  BY <1>2 DEF Stored
<1>5. \A y \in Stored \ {x} : pools[y].uri # r.uri
  BY DEF TakenUri
<1>6. \A y, z \in Stored : pools[y].uri = pools[z].uri => y = z
  BY DEF IInv, TypeOK
<1>7. \A y, z \in Stored' : pools'[y].uri = pools'[z].uri => y = z
  BY <1>2, <1>4, <1>5, <1>6
<1> QED
  BY <1>1, <1>2, <1>3, <1>7

\* Pools that are left alone stay as they are.
LEMMA SamePools ==
  ASSUME IInv, UNCHANGED pools
  PROVE  /\ pools' \in [Pools -> Record \cup {None}]
         /\ \A y \in Pools : pools[y] # None => pools'[y] # None
         /\ (\A y, z \in Stored : pools[y].uri = pools[z].uri => y = z)'
BY DEF IInv, TypeOK, Stored

-------------------------------------------------------------------------------
(* The actions of pools.                                                        *)

LEMMA PutPoolStep ==
  ASSUME IInv, NEW a \in Admins, PutPoolV1(a) \/ PutPoolV11(a) \/ PutPoolV2(a)
  PROVE  Good
<1>1. call[a].pc = "idle"
  BY Zenon DEF PutPoolV1, PutPoolV11, PutPoolV2
<1>2. ASSUME NEW x \in Pools, NEW r \in Record, Go(a, "pool_create", x, r, FALSE)  PROVE Good
  BY <1>1, <1>2, GoStep, Zenon
<1>3. ASSUME Answer(a, "put1", 400) \/ Answer(a, "put1", 500) \/ Answer(a, "put", 400)
      PROVE  Good
  <2>1. Mapped("put1", 400) /\ Mapped("put1", 500) /\ Mapped("put", 400)
    BY Replies
  <2>2. PICK op, status : Answer(a, op, status) /\ Mapped(op, status)
    BY <1>3, <2>1
  <2> QED
    BY <2>2, AnswerStep, Zenon
<1>4. CASE PutPoolV1(a)
  <2>1. PICK x \in Pools, r \in Record :
           \/ Answer(a, "put1", 400) \/ Answer(a, "put1", 500)
           \/ Go(a, "pool_create", x, r, FALSE)
    BY <1>4, ZenonT(30) DEF PutPoolV1
  <2> QED
    BY <1>2, <1>3, <2>1, ZenonT(30)
<1>5. CASE PutPoolV11(a)
  <2>1. PICK x \in Pools, r \in Record :
           Answer(a, "put", 400) \/ Go(a, "pool_create", x, r, FALSE)
    BY <1>5, ZenonT(30) DEF PutPoolV11
  <2> QED
    BY <1>2, <1>3, <2>1, ZenonT(30)
<1>6. CASE PutPoolV2(a)
  <2>1. PICK x \in Pools, r \in Record :
           Answer(a, "put", 400) \/ Go(a, "pool_create", x, r, FALSE)
    BY <1>6, ZenonT(30) DEF PutPoolV2
  <2> QED
    BY <1>2, <1>3, <2>1, Zenon
<1> QED
  BY <1>4, <1>5, <1>6

LEMMA PoolCreateStep ==
  ASSUME IInv, NEW a \in Admins, PoolCreate(a)
  PROVE  Good
<1> DEFINE x == call[a].name
           r == call[a].arg
<1> USE IInvTypes
<1>1. call[a].pc = "pool_create" /\ x \in Pools /\ r \in Record
  BY IInvCall DEF PoolCreate, Args
<1>pc. call[a].pc \notin {"walk", "pool_remove"}
  BY <1>1
<1>2. Disturb(a) /\ UNCHANGED <<sql, flavors>>
  BY DEF PoolCreate
<1>3. flavors' \in [Flavors -> Groups \cup {None}]
  BY <1>2
<1>4. r.group \in Groups \cup {None} /\ r.uri \in Uris
  BY <1>1 DEF Record
<1>5. rows' \subseteq Groups
  BY <1>4 DEF PoolCreate, SqlCreate, MongoCreate
<1> HIDE DEF r
<1>6. ASSUME UNCHANGED pools, NEW status, End(a, "put", status), Mapped("put", status)
      PROVE  Good
  <2>1. CreatesByPut
    BY <1>2, <1>6 DEF CreatesByPut
  <2> QED
    BY <1>pc, <1>2, <1>3, <1>5, <1>6, <2>1, SamePools, WriteEnd, Zenon
<1>7. ASSUME NEW q \in Record, q.uri = r.uri, ~TakenUri(x, r.uri),
             pools' = [pools EXCEPT ![x] = q], End(a, "put", 201)
      PROVE  Good
  <2>1. /\ pools' \in [Pools -> Record \cup {None}]
        /\ \A y \in Pools : pools[y] # None => pools'[y] # None
        /\ \A y \in Pools \ {x} : pools'[y] = pools[y]
        /\ (\A y, z \in Stored : pools[y].uri = pools[z].uri => y = z)'
    BY <1>1, <1>7, PutRecord, Zenon
  <2>2. CreatesByPut
    BY <1>1, <1>2, <2>1 DEF CreatesByPut
  <2>3. Mapped("put", 201)
    BY Replies
  <2> QED
    BY <1>pc, <1>2, <1>3, <1>5, <1>7, <2>1, <2>2, WriteEnd, <2>3, ZenonT(30)
<1>8. CASE sql
  <2>1. SqlCreate(a, x, r)
    BY <1>8 DEF PoolCreate, r
  <2>2. CASE x \notin Stored /\ ~TakenUri(x, r.uri)
    BY <1>1, <1>7, <2>1, <2>2 DEF SqlCreate
  <2>3. CASE x \in Stored /\ ~TakenUri(x, r.uri)
    <3> DEFINE q == IF r.group = None THEN [r EXCEPT !.group = pools[x].group] ELSE r
    <3>1. pools[x] \in Record
      BY SMTT(30), <2>3, StoredRecord
    <3>2. pools[x].group \in Groups \cup {None}
      BY <3>1 DEF Record
    <3>3. q \in Record /\ q.uri = r.uri
      BY <1>1, <3>2 DEF Record
    <3>4. End(a, "put", 201) /\ pools' = [pools EXCEPT ![x] = q]
      BY <2>1, <2>3 DEF SqlCreate
    <3> QED
      BY <1>7, <2>3, <3>3, <3>4, Zenon
  <2>4. CASE TakenUri(x, r.uri)
    <3>1. End(a, "put", 500) /\ UNCHANGED pools
      BY <2>1, <2>4 DEF SqlCreate
    <3>2. Mapped("put", 500)
      BY <1>8 DEF Mapped, Kinds
    <3> QED
      BY <1>6, <3>1, <3>2, ZenonT(30)
  <2> QED
    BY <2>2, <2>3, <2>4
<1>9. CASE ~sql
  <2>1. MongoCreate(a, x, r)
    BY <1>9 DEF PoolCreate, r
  <2>2. CASE TakenUri(x, r.uri)
    <3>1. End(a, "put", 409) /\ UNCHANGED pools
      BY <2>1, <2>2 DEF MongoCreate
    <3>2. Mapped("put", 409)
      BY Replies
    <3> QED
      BY <1>6, <3>1, <3>2, ZenonT(30)
  <2>3. CASE ~TakenUri(x, r.uri)
    <3>1. End(a, "put", 201) /\ pools' = [pools EXCEPT ![x] = r]
      BY <2>1, <2>3 DEF MongoCreate
    <3> QED
      BY <1>1, <1>7, <2>3, <3>1, Zenon
  <2> QED
    BY <2>2, <2>3
<1> QED
  BY <1>2, <1>8, <1>9

LEMMA DeletePoolStep ==
  ASSUME IInv, NEW a \in Admins, DeletePoolV1(a) \/ DeletePoolV11(a) \/ DeletePoolV2(a)
  PROVE  Good
<1>1. call[a].pc = "idle"
  BY DEF DeletePoolV1, DeletePoolV11, DeletePoolV2
<1>2. PICK x \in Pools : \/ DeletePool(a, "delete1", x, 500)
                         \/ DeletePool(a, "delete", x, 403)
  BY DEF DeletePoolV1, DeletePoolV11, DeletePoolV2
<1>3. \/ \E op \in {"delete", "delete1"} : Answer(a, op, 204)
      \/ Answer(a, "delete", 403)
      \/ Answer(a, "delete1", 500)
      \/ /\ Go(a, "pool_remove", x, None, FALSE)
         /\ ~sql => ~(x \in Stored /\ LastOfUsedGroup(x))
  BY <1>2, ZenonT(30) DEF DeletePool
<1>4. ASSUME NEW op \in {"delete", "delete1"}, Answer(a, op, 204)  PROVE Good
  <2>1. Mapped(op, 204)
    BY Replies
  <2> QED
    BY <1>4, <2>1, AnswerStep, Zenon
<1>5. CASE Answer(a, "delete", 403)
  <2>1. Mapped("delete", 403)
    BY Replies
  <2> QED
    BY <1>5, AnswerStep, <2>1, ZenonT(30)
<1>6. CASE Answer(a, "delete1", 500)
  <2>1. Mapped("delete1", 500)
    BY Replies
  <2> QED
    BY <1>6, AnswerStep, <2>1, ZenonT(30)
<1>7. CASE /\ Go(a, "pool_remove", x, None, FALSE)
           /\ ~sql => ~(x \in Stored /\ LastOfUsedGroup(x))
  BY <1>1, <1>7, GoStep, Zenon
<1> QED
  BY <1>3, <1>4, <1>5, <1>6, <1>7, ZenonT(30)

LEMMA PoolRemoveStep ==
  ASSUME IInv, NEW a \in Admins, PoolRemove(a)
  PROVE  Good
<1> DEFINE x == call[a].name
<1> USE IInvTypes
<1>1. call[a].pc = "pool_remove" /\ x \in Pools
  BY IInvCall DEF PoolRemove, Args
<1>2. /\ pools' = [pools EXCEPT ![x] = None]
      /\ call' = [b \in Admins |-> IF b = a THEN Idle ELSE [call[b] EXCEPT !.due = @ \ {x}]]
      /\ error' = "none"
      /\ calm' = [b \in Admins |-> FALSE]
      /\ UNCHANGED <<sql, flavors, rows>>
  BY DEF PoolRemove, Disturb
<1> HIDE DEF x
<1>3. /\ pools' \in [Pools -> Record \cup {None}]
      /\ pools'[x] = None /\ \A y \in Pools \ {x} : pools'[y] = pools[y]
  BY <1>1, <1>2
<1>4. Stored' = Stored \ {x} /\ \A y \in Stored' : pools'[y] = pools[y]
  BY <1>1, <1>3 DEF Stored
<1>5. ASSUME NEW b \in Admins \ {a}
      PROVE  /\ call'[b] \in Call
             /\ call'[b].pc = call[b].pc /\ call'[b].name = call[b].name
             /\ call'[b].arg = call[b].arg /\ call'[b].marker = call[b].marker
             /\ call'[b].got = call[b].got /\ call'[b].due = call[b].due \ {x}
  <2>1. PICK r \in Call : r = call[b]
    OBVIOUS
  <2>2. call'[b] = [r EXCEPT !.due = r.due \ {x}]
    BY <1>2, <2>1
  <2>3. r.due \ {x} \in SUBSET Pools
    BY DEF Call
  <2>4. [r EXCEPT !.due = r.due \ {x}] \in Call
    BY <2>3, Zenon DEF Call
  <2> QED
    BY <2>1, <2>2, <2>4 DEF Call
<1>6. call'[a] = Idle
  BY <1>2
<1>7. call' \in [Admins -> Call]
  <2>1. \A b \in Admins : call'[b] \in Call
    BY <1>5, <1>6, IdleType
  <2>2. call' = [b \in Admins |-> call'[b]]
    BY <1>2
  <2> QED
    BY <2>1, <2>2, Zenon
<1>8. TypeOK'
  <2>1. calm' \in [Admins -> BOOLEAN]
    BY <1>2
  <2>2. \A y, z \in Stored : pools[y].uri = pools[z].uri => y = z
    BY DEF IInv, TypeOK
  <2>3. \A y, z \in Stored' : pools'[y].uri = pools'[z].uri => y = z
    BY <1>4, <2>2
  <2> QED
    BY <1>2, <1>3, <1>7, <2>1, <2>3 DEF TypeOK, Kinds
<1>9. RepliesMapped'
  BY SMTT(30), <1>2 DEF RepliesMapped
<1>10. \A b \in Admins : Args(call[b])'
  BY <1>5, <1>6, IInvCall, IdleFits DEF Args
<1>11. \A b \in Admins : Walked(call[b])'
  <2>1. Walked(call[a])'
    BY SMTT(30), <1>6, IdleType DEF Walked
  <2>2. ASSUME NEW b \in Admins \ {a} PROVE Walked(call[b])'
    <3>1. Walked(call[b]) /\ sql' = sql
      BY SMTT(30), <1>2, IInvCall
    <3>2. /\ call'[b].pc = call[b].pc /\ call'[b].marker = call[b].marker
          /\ call'[b].got = call[b].got /\ call'[b].due = call[b].due \ {x}
      BY <1>5
    <3> QED
      BY <1>4, <3>1, <3>2 DEF Walked
  <2> QED
    BY <2>1, <2>2
<1>12. \A b \in Admins : Checked(b)'
  BY SMTT(30), <1>2 DEF Checked
<1>13. IInv'
  BY <1>8, <1>9, <1>10, <1>11, <1>12 DEF IInv
<1>14. KeepsLastPool
  <2> SUFFICES ASSUME calm[a], ~sql, NEW f \in Flavors, flavors[f] # None,
                      InGroup(flavors[f]) # {}
               PROVE  InGroup(flavors[f])' # {}
    BY <1>5, IdleType DEF KeepsLastPool
  <2>1. PICK y \in InGroup(flavors[f]) : TRUE
    OBVIOUS
  <2>2. flavors'[f] = flavors[f]
    BY <1>2
  <2>3. ASSUME NEW z \in InGroup(flavors[f]), z # x  PROVE InGroup(flavors[f])' # {}
    BY SMTT(30), <1>4, <2>2, <2>3 DEF InGroup
  <2>4. CASE InGroup(flavors[f]) = {x}
    <3>1. x \in Stored /\ pools[x].group = flavors[f]
      BY <2>4 DEF InGroup
    <3>2. LastOfUsedGroup(x)
      BY <2>4, <3>1 DEF LastOfUsedGroup
    <3> QED
      BY <1>1, <3>1, <3>2, IInvCall DEF Checked, x
  <2> QED
    BY SMTT(30), <2>3, <2>4
<1>15. CreatesByPut
  BY SMTT(30), <1>1, <1>2, <1>3 DEF CreatesByPut
<1>16. ListsAll
  BY <1>1, <1>5 DEF ListsAll
<1> QED
  BY <1>13, <1>14, <1>15, <1>16 DEF Good

LEMMA PatchPoolStep ==
  ASSUME IInv, NEW a \in Admins, PatchPoolV1(a) \/ PatchPoolV11(a) \/ PatchPoolV2(a)
  PROVE  Good
<1>1. call[a].pc = "idle"
  BY Zenon DEF PatchPoolV1, PatchPoolV11, PatchPoolV2
<1>2. PICK x \in Pools, r \in Patch, v2 \in BOOLEAN :
          PatchPool(a, x, r, v2) \/ Answer(a, "patch", 400)
  BY ZenonT(30) DEF PatchPoolV1, PatchPoolV11, PatchPoolV2
<1>3. \/ \E status \in {400, 404, 500} : Answer(a, "patch", status)
      \/ Go(a, "pool_update", x, r, v2)
  BY <1>2 DEF PatchPool
<1>4. ASSUME NEW status \in {400, 404, 500}, Answer(a, "patch", status)  PROVE Good
  <2>1. Mapped("patch", status)
    BY Replies
  <2> QED
    BY <1>4, AnswerStep, <2>1, ZenonT(30)
<1>5. CASE Go(a, "pool_update", x, r, v2)
  BY SMTT(30), <1>1, <1>5, GoStep
<1> QED
  BY <1>3, <1>4, <1>5

LEMMA PoolUpdateStep ==
  ASSUME IInv, NEW a \in Admins, PoolUpdate(a)
  PROVE  Good
<1> DEFINE x == call[a].name
           r == call[a].arg
<1> USE IInvTypes
<1>1. call[a].pc = "pool_update" /\ x \in Pools /\ r \in Patch
  BY IInvCall DEF PoolUpdate, Args
<1>2. Disturb(a) /\ UNCHANGED <<sql, flavors>>
  BY DEF PoolUpdate
<1>3. flavors' \in [Flavors -> Groups \cup {None}]
  BY <1>2
<1>4. r.group \in Groups \cup {None} /\ r.uri \in Uris \cup {None}
  BY <1>1 DEF Patch
<1>5. rows' \subseteq Groups
  BY <1>4 DEF PoolUpdate
<1>6. call[a].pc \notin {"walk", "pool_remove"}
  BY <1>1
<1> HIDE DEF r
<1>7. ASSUME UNCHANGED pools, NEW status, End(a, "patch", status)
      PROVE  Good
  <2>1. CreatesByPut
    BY <1>2, <1>7 DEF CreatesByPut
  <2>2. Mapped("patch", status)
    BY Replies
  <2> QED
    BY <1>2, <1>3, <1>5, <1>6, <1>7, <2>1, SamePools, WriteEnd, <2>2, Zenon
<1>8. CASE x \notin Stored
  <2>1. End(a, "patch", 404) /\ UNCHANGED pools
    BY <1>8 DEF PoolUpdate
  <2> QED
    BY <1>7, <2>1, Zenon
<1>9. CASE x \in Stored /\ r.uri # None /\ TakenUri(x, r.uri)
  <2>1. End(a, "patch", 500) /\ UNCHANGED pools
    BY <1>9 DEF PoolUpdate, r
  <2> QED
    BY <1>7, <2>1, ZenonT(30)
<1>10. CASE x \in Stored /\ ~(r.uri # None /\ TakenUri(x, r.uri))
  <2> DEFINE q == Patched(pools[x], r)
  <2>1. /\ pools' = [pools EXCEPT ![x] = q]
        /\ \/ /\ call' = [call EXCEPT ![a] = [call[a] EXCEPT !.pc = "pool_get"]]
              /\ UNCHANGED error
           \/ End(a, "patch", 200)
    BY <1>10 DEF PoolUpdate, r
  <2>2. pools[x] \in Record /\ pools[x] # None
    BY SMTT(30), <1>10, StoredRecord DEF Stored
  <2>3. pools[x].group \in Groups \cup {None} /\ pools[x].uri \in Uris
    BY SMTT(30), <2>2 DEF Record
  <2>4. q \in Record /\ q.uri = IF r.uri = None THEN pools[x].uri ELSE r.uri
    BY SMTT(30), <1>4, <2>3 DEF Patched, Record
  <2>5. ~TakenUri(x, pools[x].uri)
    BY SMTT(30), <1>10 DEF TakenUri, IInv, TypeOK
  <2>6. ~TakenUri(x, q.uri)
    BY <1>10, <2>4, <2>5
  <2> HIDE DEF q
  <2>7. /\ pools' \in [Pools -> Record \cup {None}]
        /\ \A y \in Pools : pools[y] # None => pools'[y] # None
        /\ \A y \in Pools \ {x} : pools'[y] = pools[y]
        /\ (\A y, z \in Stored : pools[y].uri = pools[z].uri => y = z)'
    BY <1>1, <2>1, <2>4, <2>6, PutRecord, Zenon
  <2>8. CreatesByPut
    BY <1>2, <2>2, <2>7 DEF CreatesByPut
  <2>9. CASE End(a, "patch", 200)
    <3>1. Mapped("patch", 200)
      BY Replies
    <3> QED
      BY <1>2, <1>3, <1>5, <1>6, <2>7, <2>8, <2>9, WriteEnd, <3>1, ZenonT(30)
  <2>10. CASE /\ call' = [call EXCEPT ![a] = [call[a] EXCEPT !.pc = "pool_get"]]
              /\ UNCHANGED error
    <3>1. PICK c \in Call : c = call[a]
      OBVIOUS
    <3> DEFINE d == [c EXCEPT !.pc = "pool_get"]
    <3>2. d \in Call
      BY Zenon DEF Call
    <3>3. d.pc = "pool_get"
      BY DEF Call
    <3>4. call' = [call EXCEPT ![a] = d]
      BY <2>10, <3>1
    <3> HIDE DEF d
    <3>5. Args(d) /\ d.pc \notin {"walk", "pool_remove"}
      BY <3>3 DEF Args
    <3>6. error' \in Kinds /\ (~sql => error' \notin {"put", "delete", "put_flavor"})
      BY <2>10 DEF IInv, TypeOK, RepliesMapped
    <3> QED
      BY <1>1, <1>2, <1>3, <1>5, <2>7, <2>8, <3>2, <3>4, <3>5, <3>6, Write, Zenon
  <2> QED
    BY <2>1, <2>9, <2>10
<1> QED
  BY <1>8, <1>9, <1>10

LEMMA PoolGetStep ==
  ASSUME IInv, NEW a \in Admins, PoolGet(a)
  PROVE  Good
<1> DEFINE status == IF call[a].name \in Stored THEN 200 ELSE 404
<1>1. /\ call[a].pc # "walk" /\ End(a, "patch", status)
      /\ UNCHANGED <<sql, pools, flavors, rows, calm>>
  BY DEF PoolGet
<1> HIDE DEF status
<1>2. Mapped("patch", status)
  BY Replies
<1> QED
  BY <1>1, EndStep, <1>2, Zenon

-------------------------------------------------------------------------------
(* The walk through the listing.                                                *)

LEMMA EmptySize == Cardinality({}) = 0
<1> DEFINE size == [T \in SUBSET {} |-> 0]
           Sizes(f) == f = [T \in SUBSET {} |->
                              IF T = {} THEN 0 ELSE 1 + f[T \ {CHOOSE x : x \in T}]]
<1>1. Sizes(size)
  OBVIOUS
<1>2. Sizes(CHOOSE f : Sizes(f))
  BY <1>1, Zenon
<1>3. (CHOOSE f : Sizes(f))[{}] = 0
  BY <1>2, Zenon
<1> QED
  BY <1>3, Zenon DEF Cardinality

LEMMA NamesAreNumbers == Stored \subseteq Int /\ \A x \in Pools \cup {0} : x \in Int
<1>1. Pools \subseteq Nat \ {0}
  BY ControlPlaneAssumption, Zenon
<1>2. Nat \subseteq Int
  OBVIOUS
<1>3. \A x \in Pools : x \in Int
  BY <1>1, <1>2, Zenon
<1>4. Stored \subseteq Int
  BY <1>3, Zenon DEF Stored
<1>5. 0 \in Int
  OBVIOUS
<1> QED
  BY <1>3, <1>4, <1>5, Zenon

\* An empty page is the last one.
LEMMA EmptyPage ==
  ASSUME NEW marker, NEW limit \in Nat \ {0}, {} \in Pages(marker, limit)
  PROVE  \A x \in Stored : ~(x > marker)
<1>1. Cardinality({}) # limit
  BY EmptySize
<1>2. {} = {x \in Stored : x > marker}
  BY <1>1 DEF Pages
<1> QED
  BY <1>2

LEMMA ListPoolsStep ==
  ASSUME IInv, NEW a \in Admins, ListPools(a)
  PROVE  Good
<1> DEFINE walk == IF call[a].pc = "walk" THEN call[a]
                   ELSE [Idle EXCEPT !.pc = "walk", !.due = Stored]
<1> USE IInvTypes
<1>1. /\ call[a].pc \in {"idle", "walk"}
      /\ UNCHANGED <<sql, pools, flavors, rows, calm>>
  BY Zenon DEF ListPools
<1>2. PICK limit \in 1..Cardinality(Pools) : \E page \in Pages(walk.marker, limit) :
              IF page = {}
              THEN End(a, "list", 200)
              ELSE \E last \in page :
                     /\ sql \/ \A x \in page : x <= last
                     /\ call' = [call EXCEPT ![a] = [walk EXCEPT !.marker = last,
                                                               !.got = @ \cup page]]
                     /\ error' = "none"
  BY Zenon DEF ListPools
<1>3. PICK page \in Pages(walk.marker, limit) :
              IF page = {}
              THEN End(a, "list", 200)
              ELSE \E last \in page :
                     /\ sql \/ \A x \in page : x <= last
                     /\ call' = [call EXCEPT ![a] = [walk EXCEPT !.marker = last,
                                                               !.got = @ \cup page]]
                     /\ error' = "none"
  BY <1>2, Zenon
<1>4. PICK w \in Call : w = walk
  <2>1. Stored \in SUBSET Pools
    BY DEF Stored
  <2>2. CASE call[a].pc = "walk"
    BY <2>2
  <2>3. CASE call[a].pc # "walk"
    <3>1. [Idle EXCEPT !.pc = "walk", !.due = Stored] \in Call
      BY <2>1, IdleType, Zenon DEF Call
    <3> QED
      BY <2>3, <3>1
  <2> QED
    BY <2>2, <2>3
<1>5. w.pc = "walk" /\ Walked(w)
  <2>1. CASE call[a].pc = "walk"
    BY <1>4, <2>1, IInvCall
  <2>2. CASE call[a].pc # "walk"
    <3>1. w.pc = "walk" /\ w.due = Stored /\ w.marker = 0
      BY <1>4, <2>2 DEF Idle
    <3>2. \A x \in Stored : ~(x <= 0)
      BY ControlPlaneAssumption DEF Stored
    <3> QED
      BY <3>1, <3>2 DEF Walked
  <2> QED
    BY <2>1, <2>2
<1>6. call[a].pc = "walk" => w = call[a]
  BY <1>4
<1> HIDE DEF walk
<1>7. calm' \in [Admins -> BOOLEAN] /\ \A b \in Admins \ {a} : calm'[b] = calm[b]
  BY <1>1
<1>8. w.marker \in Int /\ Stored \subseteq Int
  <2>1. w.marker \in Pools \cup {0}
    BY DEF Call
  <2> QED
    BY <2>1, NamesAreNumbers
<1>9. CASE page = {}
  <2>1. call' = [call EXCEPT ![a] = Idle] /\ error' = "none"
    BY <1>3, <1>9 DEF End
  <2>2. limit \in Nat \ {0}
    OBVIOUS
  <2>3. \A x \in Stored : ~(x > w.marker)
    <3>1. {} \in Pages(w.marker, limit)
      BY <1>3, <1>4, <1>9, Zenon
    <3> QED
      BY <2>2, <3>1, EmptyPage, Zenon
  <2>4. call[a].pc = "walk" /\ ~sql => call[a].due \subseteq call[a].got
    <3> SUFFICES ASSUME call[a].pc = "walk", ~sql, NEW x \in w.due  PROVE x \in w.got
      BY <1>6
    <3>1. x \in Stored /\ (x <= w.marker => x \in w.got)
      BY <1>5 DEF Walked
    <3>2. x <= w.marker
      BY <1>8, <2>3, <3>1
    <3> QED
      BY <3>1, <3>2
  <2>5. Idle.pc # "pool_remove"
    BY IdleType
  <2> QED
    <3>1. error' \in Kinds /\ (~sql => error' \notin {"put", "delete", "put_flavor"})
      BY <2>1 DEF Kinds
    <3> QED
      BY <1>1, <1>7, <2>1, <2>4, <2>5, <3>1, IdleType, IdleFits, NoWrite, Zenon
<1>10. CASE page # {}
  <2>1. PICK last \in page :
                     /\ sql \/ \A x \in page : x <= last
                     /\ call' = [call EXCEPT ![a] = [w EXCEPT !.marker = last,
                                                              !.got = @ \cup page]]
                     /\ error' = "none"
    BY <1>3, <1>4, <1>10, Zenon
  <2>2. /\ page \subseteq Stored
        /\ ~sql => \A x \in page, y \in {z \in Stored : z > w.marker} \ page : x < y
    BY <1>3, <1>4, Zenon DEF Pages
  <2> DEFINE r == [w EXCEPT !.marker = last, !.got = w.got \cup page]
  <2>3. call' = [call EXCEPT ![a] = r]
    BY <2>1
  <2>4. r \in Call
    <3>1. last \in Pools \cup {0} /\ w.got \cup page \in SUBSET Pools
      BY <2>2 DEF Call, Stored
    <3> QED
      BY <3>1, Zenon DEF Call
  <2>5. r.pc = "walk" /\ r.due = w.due /\ r.marker = last /\ r.got = w.got \cup page
    BY <1>5 DEF Call
  <2> HIDE DEF r
  <2>6. Args(r)
    BY <2>5 DEF Args
  <2>7. Walked(r)
    <3> SUFFICES ASSUME ~sql, NEW x \in w.due, x <= last, x \notin w.got
                 PROVE  x \in page
      BY <1>5, <2>5 DEF Walked
    <3>1. x \in Stored /\ ~(x <= w.marker)
      BY <1>5 DEF Walked
    <3>2. x > w.marker
      BY SMTT(30), <1>8, <3>1
    <3>3. CASE x \notin page
      <4>1. last < x
        BY <2>2, <3>1, <3>2, <3>3
      <4> QED
        BY SMTT(30), <1>8, <2>2, <3>1, <4>1
    <3> QED
      BY <3>3
  <2>8. error' \in Kinds /\ (~sql => error' \notin {"put", "delete", "put_flavor"})
    BY <2>1 DEF Kinds
  <2> QED
    BY <1>1, <1>7, <2>3, <2>4, <2>5, <2>6, <2>7, <2>8, NoWrite, Zenon
<1> QED
  BY SMTT(30), <1>9, <1>10

LEMMA ReadPoolsStep ==
  ASSUME IInv, NEW a \in Admins,
         \/ ListPoolsV1(a) \/ ListPoolsV11(a) \/ ListPoolsV2(a)
         \/ GetPoolV1(a) \/ GetPoolV11(a) \/ GetPoolV2(a)
  PROVE  Good
<1>1. \/ ListPools(a)
      \/ Answer(a, "list", 400)
      \/ \E status \in {200, 404} : Answer(a, "get", status)
  BY DEF ListPoolsV1, ListPoolsV11, ListPoolsV2, GetPoolV1, GetPoolV11, GetPoolV2, GetPool
<1>2. CASE Answer(a, "list", 400)
  <2>1. Mapped("list", 400)
    BY Replies
  <2> QED
    BY <1>2, AnswerStep, <2>1, ZenonT(30)
<1>3. ASSUME NEW status \in {200, 404}, Answer(a, "get", status)  PROVE Good
  <2>1. Mapped("get", status)
    BY Replies
  <2> QED
    BY <1>3, AnswerStep, <2>1, ZenonT(30)
<1> QED
  BY <1>1, <1>2, <1>3, ListPoolsStep

-------------------------------------------------------------------------------
(* The actions of flavors.                                                      *)

LEMMA PutFlavorStep ==
  ASSUME IInv, NEW a \in Admins, PutFlavorV11(a) \/ PutFlavorV2(a)
  PROVE  Good
<1>1. call[a].pc = "idle"
  BY DEF PutFlavorV11, PutFlavorV2
<1>2. ASSUME Answer(a, "put_flavor", 400) \/ Answer(a, "put_flavor1", 500)  PROVE Good
  <2>1. Mapped("put_flavor", 400) /\ Mapped("put_flavor1", 500)
    BY Replies
  <2>2. PICK op, status : Answer(a, op, status) /\ Mapped(op, status)
    BY <1>2, <2>1
  <2> QED
    BY <2>2, AnswerStep, Zenon
<1>3. ASSUME NEW f \in Flavors, NEW g \in Groups, PutFlavor(a, f, g)  PROVE Good
  <2>1. CASE Go(a, "flavor_write", f, g, FALSE)
    BY <1>1, <2>1, GoStep, Zenon
  <2>2. CASE Answer(a, "put_flavor", 400)
    BY <1>2, <2>2
  <2> QED
    BY <1>3, <2>1, <2>2, Zenon DEF PutFlavor
<1>4. CASE PutFlavorV11(a)
  <2>1. PICK f \in Flavors, g \in Groups : PutFlavor(a, f, g) \/ Answer(a, "put_flavor1", 500)
    BY <1>4 DEF PutFlavorV11
  <2> QED
    BY <1>2, <1>3, <2>1
<1>5. CASE PutFlavorV2(a)
  BY <1>3, <1>5 DEF PutFlavorV2
<1> QED
  BY <1>4, <1>5

LEMMA FlavorWriteStep ==
  ASSUME IInv, NEW a \in Admins, FlavorWrite(a)
  PROVE  Good
<1> USE IInvTypes
<1>1. call[a].pc = "flavor_write" /\ call[a].name \in Flavors /\ call[a].arg \in Groups
  BY IInvCall DEF FlavorWrite, Args
<1>2. Disturb(a) /\ UNCHANGED <<sql, pools, rows>>
  BY DEF FlavorWrite
<1>3. \/ End(a, "put_flavor", 500) /\ sql /\ UNCHANGED flavors
      \/ /\ End(a, "put_flavor", 201)
         /\ flavors' = [flavors EXCEPT ![call[a].name] = call[a].arg]
  BY DEF FlavorWrite, SqlRefuses
<1>4. flavors' \in [Flavors -> Groups \cup {None}]
  BY SMTT(30), <1>1, <1>3
<1>5. CreatesByPut
  BY <1>1, <1>2, <1>3 DEF CreatesByPut
<1>6. PICK status : End(a, "put_flavor", status) /\ Mapped("put_flavor", status)
  <2>1. sql => Mapped("put_flavor", 500)
    BY DEF Mapped, Kinds
  <2>2. Mapped("put_flavor", 201)
    BY Replies
  <2>3. CASE End(a, "put_flavor", 500) /\ sql
    BY <2>1, <2>3
  <2>4. CASE End(a, "put_flavor", 201)
    BY SMTT(30), <2>2, <2>4
  <2> QED
    BY <1>3, <2>3, <2>4
<1>7. rows' \subseteq Groups /\ call[a].pc \notin {"walk", "pool_remove"}
  BY <1>1, <1>2
<1> QED
  BY <1>2, <1>4, <1>5, <1>6, <1>7, SamePools, WriteEnd, ZenonT(30)

LEMMA DeleteFlavorStep ==
  ASSUME IInv, NEW a \in Admins, DeleteFlavorV11(a) \/ DeleteFlavorV2(a)
  PROVE  Good
<1> USE IInvTypes
<1>1. DeleteFlavor(a)
  BY DEF DeleteFlavorV11, DeleteFlavorV2
<1>2. PICK f \in Flavors : flavors' = [flavors EXCEPT ![f] = None]
  BY <1>1, Zenon DEF DeleteFlavor
<1>3. /\ call[a].pc = "idle" /\ End(a, "delete_flavor", 204)
      /\ Disturb(a) /\ UNCHANGED <<sql, pools, rows>>
  BY <1>1 DEF DeleteFlavor
<1>4. flavors' \in [Flavors -> Groups \cup {None}]
  BY SMTT(30), <1>2
<1>5. CreatesByPut
  BY <1>2, <1>3 DEF CreatesByPut
<1>6. rows' \subseteq Groups /\ call[a].pc \notin {"walk", "pool_remove"}
  BY <1>3
<1>7. Mapped("delete_flavor", 204)
  BY Replies
<1> QED
  BY <1>3, <1>4, <1>5, <1>6, SamePools, WriteEnd, <1>7, ZenonT(30)

LEMMA PatchFlavorStep ==
  ASSUME IInv, NEW a \in Admins, PatchFlavorV11(a) \/ PatchFlavorV2(a)
  PROVE  Good
<1>1. call[a].pc = "idle"
  BY Zenon DEF PatchFlavorV11, PatchFlavorV2
<1>2. \/ \E f \in Flavors, g \in Groups \cup {None}, v2 \in BOOLEAN :
            Go(a, "flavor_update", f, g, v2)
      \/ \E status : Answer(a, "patch_flavor", status)
  <2>1. CASE PatchFlavorV11(a)
    BY <2>1, ZenonT(30) DEF PatchFlavorV11
  <2>2. CASE PatchFlavorV2(a)
    BY <2>2, ZenonT(30) DEF PatchFlavorV2
  <2> QED
    BY <2>1, <2>2
<1>3. ASSUME NEW status, Answer(a, "patch_flavor", status)  PROVE Good
  <2>1. Mapped("patch_flavor", status)
    BY SMTT(30), Replies
  <2> QED
    BY <1>3, AnswerStep, <2>1, Zenon
<1>4. ASSUME NEW f \in Flavors, NEW g \in Groups \cup {None}, NEW v2 \in BOOLEAN,
             Go(a, "flavor_update", f, g, v2)
      PROVE  Good
  BY <1>1, <1>4, GoStep
<1> QED
  BY <1>2, <1>3, <1>4

LEMMA FlavorUpdateStep ==
  ASSUME IInv, NEW a \in Admins, FlavorUpdate(a)
  PROVE  Good
<1> DEFINE f == call[a].name
           g == call[a].arg
<1> USE IInvTypes
<1>1. call[a].pc = "flavor_update" /\ f \in Flavors /\ g \in Groups \cup {None}
  BY IInvCall DEF FlavorUpdate, Args
<1>2. Disturb(a) /\ UNCHANGED <<sql, pools, rows>>
  BY DEF FlavorUpdate
<1>3. \/ UNCHANGED flavors
      \/ flavors[f] # None /\ flavors' = [flavors EXCEPT ![f] = IF g = None THEN flavors[f] ELSE g]
  BY DEF FlavorUpdate
<1>4. \/ \E status \in {200, 404, 500} : End(a, "patch_flavor", status)
      \/ /\ call' = [call EXCEPT ![a] = [call[a] EXCEPT !.pc = "flavor_get"]]
         /\ UNCHANGED error
  BY DEF FlavorUpdate
<1>5. flavors' \in [Flavors -> Groups \cup {None}]
  BY <1>1, <1>3
<1>6. CreatesByPut
  BY <1>1, <1>2, <1>3 DEF CreatesByPut
<1>7. rows' \subseteq Groups
  BY <1>2
<1>8. ASSUME NEW status, End(a, "patch_flavor", status)  PROVE Good
  <2>1. call[a].pc \notin {"walk", "pool_remove"}
    BY SMTT(30), <1>1
  <2>2. Mapped("patch_flavor", status)
    BY Replies
  <2> QED
    BY <1>2, <1>5, <1>6, <1>7, <1>8, <2>1, SamePools, WriteEnd, <2>2, Zenon
<1>9. CASE /\ call' = [call EXCEPT ![a] = [call[a] EXCEPT !.pc = "flavor_get"]]
           /\ UNCHANGED error
  <2>1. PICK c \in Call : c = call[a]
    OBVIOUS
  <2> DEFINE d == [c EXCEPT !.pc = "flavor_get"]
  <2>2. d \in Call
    BY Zenon DEF Call
  <2>3. d.pc = "flavor_get"
    BY DEF Call
  <2>4. call' = [call EXCEPT ![a] = d]
    BY SMTT(30), <1>9, <2>1
  <2> HIDE DEF d
  <2>5. Args(d) /\ d.pc \notin {"walk", "pool_remove"}
    BY <2>3 DEF Args
  <2>6. error' \in Kinds /\ (~sql => error' \notin {"put", "delete", "put_flavor"})
    BY SMTT(30), <1>9 DEF IInv, TypeOK, RepliesMapped
  <2> QED
    BY <1>1, <1>2, <1>5, <1>6, <1>7, <2>2, <2>4, <2>5, <2>6, SamePools, Write, Zenon
<1> QED
  BY <1>4, <1>8, <1>9

LEMMA ReadFlavorsStep ==
  ASSUME IInv, NEW a \in Admins,
         \/ FlavorGet(a) \/ ListFlavorsV11(a) \/ ListFlavorsV2(a)
         \/ GetFlavorV11(a) \/ GetFlavorV2(a)
  PROVE  Good
<1>1. \/ /\ call[a].pc # "walk" /\ \E status \in {200, 404} : End(a, "patch_flavor", status)
         /\ UNCHANGED <<sql, pools, flavors, rows, calm>>
      \/ \E status \in {200, 400} : Answer(a, "list", status)
      \/ \E status \in {200, 404} : Answer(a, "get", status)
  BY DEF FlavorGet, ListFlavorsV11, ListFlavorsV2, GetFlavorV11, GetFlavorV2, GetFlavor
<1>2. ASSUME NEW status, End(a, "patch_flavor", status), call[a].pc # "walk",
             UNCHANGED <<sql, pools, flavors, rows, calm>>
      PROVE  Good
  <2>1. Mapped("patch_flavor", status)
    BY Replies
  <2> QED
    BY <1>2, EndStep, <2>1, Zenon
<1>3. ASSUME NEW status \in {200, 400}, Answer(a, "list", status)  PROVE Good
  <2>1. Mapped("list", status)
    BY Replies
  <2> QED
    BY <1>3, AnswerStep, <2>1, ZenonT(30)
<1>4. ASSUME NEW status \in {200, 404}, Answer(a, "get", status)  PROVE Good
  <2>1. Mapped("get", status)
    BY Replies
  <2> QED
    BY <1>4, AnswerStep, <2>1, ZenonT(30)
<1> QED
  BY SMTT(30), <1>1, <1>2, <1>3, <1>4

-------------------------------------------------------------------------------
(* The theorems.                                                                *)

LEMMA InitIInv == Init => IInv
<1> SUFFICES ASSUME Init PROVE IInv
  OBVIOUS
<1>1. Stored = {}
  BY DEF Init, Stored
<1>2. \A a \in Admins : call[a] = Idle
  BY DEF Init
<1>3. TypeOK
  BY <1>1, IdleType DEF Init, TypeOK, Kinds
<1>4. RepliesMapped
  BY DEF Init, RepliesMapped
<1>5. \A a \in Admins : Args(call[a]) /\ Walked(call[a])
  BY <1>2, IdleFits
<1>6. \A a \in Admins : Checked(a)
  BY SMTT(30), <1>2, IdleType DEF Checked
<1> QED
  BY <1>3, <1>4, <1>5, <1>6 DEF IInv

LEMMA NextGood ==
  ASSUME IInv, Next
  PROVE  Good
<1>1. PICK a \in Admins :
        \/ PutPoolV1(a) \/ PutPoolV11(a) \/ PutPoolV2(a) \/ PoolCreate(a)
        \/ DeletePoolV1(a) \/ DeletePoolV11(a) \/ DeletePoolV2(a) \/ PoolRemove(a)
        \/ PatchPoolV1(a) \/ PatchPoolV11(a) \/ PatchPoolV2(a) \/ PoolUpdate(a) \/ PoolGet(a)
        \/ ListPoolsV1(a) \/ ListPoolsV11(a) \/ ListPoolsV2(a)
        \/ GetPoolV1(a) \/ GetPoolV11(a) \/ GetPoolV2(a)
        \/ PutFlavorV11(a) \/ PutFlavorV2(a) \/ FlavorWrite(a)
        \/ DeleteFlavorV11(a) \/ DeleteFlavorV2(a)
        \/ PatchFlavorV11(a) \/ PatchFlavorV2(a) \/ FlavorUpdate(a) \/ FlavorGet(a)
        \/ ListFlavorsV11(a) \/ ListFlavorsV2(a) \/ GetFlavorV11(a) \/ GetFlavorV2(a)
  BY DEF Next
<1> QED
  BY SMTT(30), <1>1, PutPoolStep, PoolCreateStep, DeletePoolStep, PoolRemoveStep, PatchPoolStep,
     PoolUpdateStep, PoolGetStep, ReadPoolsStep, PutFlavorStep, FlavorWriteStep,
     DeleteFlavorStep, PatchFlavorStep, FlavorUpdateStep, ReadFlavorsStep

LEMMA StutterIInv == IInv /\ UNCHANGED vars => IInv'
<1> SUFFICES ASSUME IInv, UNCHANGED vars PROVE IInv'
  OBVIOUS
<1>1. TypeOK' /\ RepliesMapped'
  BY SMTT(30) DEF IInv, TypeOK, RepliesMapped, Stored, vars
<1>2. \A a \in Admins : Args(call[a])' /\ Checked(a)' /\ Walked(call[a])'
  BY IInvCall DEF vars, Args, Checked, Walked, Stored, LastOfUsedGroup, InGroup
<1> QED
  BY <1>1, <1>2 DEF IInv

\* The invariant the others rest on holds of every behaviour of ControlPlane.
THEOREM Invariance == Spec => []IInv
<1>1. IInv /\ [Next]_vars => IInv'
  BY NextGood, StutterIInv DEF Good
<1> QED
  BY <1>1, InitIInv, PTL DEF Spec

\* Every variable keeps its type, and no two pools have the same URI.
THEOREM TypeCorrect == Spec => []TypeOK
<1>1. IInv => TypeOK
  BY DEF IInv
<1> QED
  BY <1>1, Invariance, PTL

\* On MongoDB, v1.1 and v2 answer every exception of the pools controller.
THEOREM ErrorsMapped == Spec => []RepliesMapped
<1>1. IInv => RepliesMapped
  BY DEF IInv
<1> QED
  BY <1>1, Invariance, PTL

\* On MongoDB a deletion nobody disturbs takes no flavor its last pool.
THEOREM FlavorsKeepAPool == Spec => LastPoolKept
<1>1. IInv /\ [Next]_vars => [KeepsLastPool]_vars
  BY NextGood DEF Good
<1> QED
  BY <1>1, Invariance, PTL DEF Spec, LastPoolKept, KeepsLastPool

\* Only a PUT brings a pool or a flavor into being; a patch does not.
THEOREM OnlyPutCreates == Spec => PatchCreatesNothing
<1>1. IInv /\ [Next]_vars => [CreatesByPut]_vars
  BY NextGood DEF Good
<1> QED
  BY <1>1, Invariance, PTL DEF Spec, PatchCreatesNothing, CreatesByPut

\* On MongoDB a walk through the listing is given every pool that stayed.
THEOREM WalksComplete == Spec => PoolsListed
<1>1. IInv /\ [Next]_vars => [ListsAll]_vars
  BY NextGood DEF Good
<1> QED
  BY <1>1, Invariance, PTL DEF Spec, PoolsListed, ListsAll
===============================================================================
