-------------------------- MODULE SubscriptionsProofs -------------------------
(* Proofs about Subscriptions and WebsocketSession: the notifier's walk, the    *)
(* confirmation of new subscribers, the sorted sets of Redis, and what a        *)
(* websocket connection leaves behind.                                          *)
EXTENDS WebsocketSession, TLAPS

\* The types of what is stored.
StoreOK ==
    /\ store \in Stores
    /\ queues \subseteq Sources
    /\ sub \in [Ids -> Subscription \cup {NoSub}]
    /\ ids \in [Sources -> SUBSET Ids]
    /\ lock \in [Sources -> [Subscribers -> Ids \cup {None}]]
    /\ fresh \subseteq Ids /\ asked \subseteq Ids

\* Nothing is stored under an id that was not given out.
Unused == \A i \in fresh : sub[i] = NoSub

Gone(i) == sub[i] = NoSub \/ sub[i].s = None

\* What the steps of a request r have been handed by the ones before.
Args(r) ==
    /\ r.i # 0 => r.i \notin fresh
    /\ r.pc # "idle" => r.s \in Sources
    /\ r.op = "walk" <=> r.pc \in {"page", "item"}
    /\ r.op \in {"post", "ws"} => r.u \in Supported
    /\ r.op = "patch" => r.u \in Supported \cup {None}
    /\ r.op = "purge" => r.page \cap fresh = {}
    /\ r.pc = "create" => r.op \in {"post", "ws"}
    /\ r.pc \in {"with", "get"} => r.op = "post"
    /\ r.pc = "done" => r.op \in {"post", "ws"}
    /\ r.pc = "dup" => r.op \in {"post", "ws", "patch"}
    /\ r.pc \in {"update", "write", "relock", "unlock", "bye"} => r.op \in {"patch", "confirm"}
    /\ r.pc = "list" => r.op = "purge"
    /\ r.pc \in {"delete", "free", "remove"} => r.op \in {"delete", "purge"}
    /\ r.op = "delete" => r.page = {}
    /\ r.pc \in {"get", "update", "write", "relock", "unlock", "put", "bye", "delete", "free",
                 "remove", "done"} \/ r.op = "patch" => r.i # 0
    /\ r.pc \in {"put", "relock", "unlock"} => r.data \in Subscription
    /\ r.pc = "done" /\ r.op = "post" /\ RequireConfirmation => r.i \in asked
    /\ r.pc = "done" /\ r.op = "ws" /\ store # "swift" => Gone(r.i) \/ sub[r.i].s = r.s

\* Where a walk is: it owes S, which it has notified up to its marker, and the
\* rest is in its page or comes later.
Walking(c, S) ==
    /\ \A i \in S : Readable(c.s, i) /\ Willing(i) /\ i \notin c.twice
    /\ \A g \in S \cap c.got :
          /\ \A j \in c.page : g < j
          /\ c.pc = "page" \/ c.marker # 0 => g =< c.marker
    /\ c.pc = "page" => c.page = {} /\ \A i \in S : i \in c.got \/ c.marker < i
    /\ c.pc = "item" => \A i \in S :
          \/ i \in c.got \cup c.page
          \/ /\ c.marker < i /\ \A j \in c.page : j < i
             /\ c.page # {} \/ c.marker # 0
    /\ \A j \in c.page : IF store = "mongodb" THEN j =< c.marker ELSE c.marker < j
    /\ store = "redis" /\ S # {} =>
          /\ \A i \in ids[c.s] : Readable(c.s, i)
          /\ c.page \subseteq ids[c.s] /\ c.marker \in ids[c.s] \cup {0}

IInv ==
    /\ TypeOK /\ Unused /\ Listed
    /\ \A a \in Callers : Args(call[a])
    /\ \A a \in Callers : call[a].op = "walk" => Walking(call[a], steady[a])

\* What a step does to the store, as others see it.
Effect ==
    /\ StoreOK' /\ Unused' /\ Listed'
    /\ store' = store /\ fresh' \subseteq fresh /\ asked \subseteq asked'
    /\ store # "swift" =>
          \A i \in Ids \ fresh : Gone(i)' \/ (sub[i] # NoSub /\ sub'[i].s = sub[i].s)
    /\ store = "redis" =>
          /\ \A s \in Sources : \A i \in ids'[s] : i \in ids[s] \/ Readable(s, i)'
          /\ \A i \in Ids : sub[i] # NoSub /\ sub'[i] # NoSub => sub'[i].s = sub[i].s

-------------------------------------------------------------------------------
(* The session.                                                                 *)

\* How far a request of the listener is.
Received ==
    /\ http.state \in {"none", "INIT"} => http.data = 0 /\ http.came = 0
    /\ http.state = "HEADERS" => http.data = 0 /\ http.came = 1
    /\ http.state = "BODY" => http.came = 2 + http.data /\ http.data < Length
    /\ http.state = "sent" => http.data = 0 /\ http.came = Total

\* A subscription of the connection is gone, kept for onClose, or being deleted.
Kept(i) ==
    \/ Gone(i)
    \/ i \in Recorded /\ sub[i].s = ws.subs[i]
    \/ /\ ~ws.open /\ call[Conn].op = "delete" /\ call[Conn].pc = "delete"
       /\ call[Conn].i = i /\ call[Conn].s = sub[i].s

SessionInv ==
    /\ IInv /\ SessionTypeOK /\ CutByLatestToken /\ Received
    /\ (ws.mine \cup Recorded) \cap fresh = {}
    /\ call[Conn].op \in {"idle", "ws", "delete"}
    /\ ~ws.open => call[Conn].op # "ws"
    /\ store # "swift" => \A i \in ws.mine : Kept(i)

-------------------------------------------------------------------------------
(* Types.                                                                       *)

LEMMA IdleType == Idle \in Call
BY Zenon DEF Idle, Call

LEMMA IdleFields ==
  /\ Idle.op = "idle" /\ Idle.pc = "idle" /\ Idle.i = 0 /\ Idle.page = {}
  /\ Idle.marker = 0 /\ Idle.got = {} /\ Idle.twice = {} /\ Idle.data = NoSub
BY DEF Idle

LEMMA IInvTypes ==
  ASSUME IInv
  PROVE  /\ store \in Stores /\ queues \subseteq Sources
         /\ sub \in [Ids -> Subscription \cup {NoSub}]
         /\ ids \in [Sources -> SUBSET Ids]
         /\ lock \in [Sources -> [Subscribers -> Ids \cup {None}]]
         /\ fresh \subseteq Ids /\ asked \subseteq Ids
         /\ call \in [Callers -> Call]
         /\ steady \in [Callers -> SUBSET Ids]
BY Zenon DEF IInv, TypeOK

LEMMA IInvStore == IInv => Unused /\ Listed
BY Zenon DEF IInv

LEMMA IInvCall ==
  ASSUME IInv, NEW a \in Callers
  PROVE  call[a] \in Call /\ Args(call[a])
BY IInvTypes, Zenon DEF IInv

LEMMA IdsAreNumbers == \A i \in Ids : i \in Nat /\ i # 0
BY Zenon, SubscriptionsAssumption

\* A subscription has its fields.
LEMMA SubFields ==
  ASSUME IInv, NEW i \in Ids, sub[i] # NoSub
  PROVE  /\ sub[i] \in Subscription
         /\ sub[i].s \in Sources \cup {None} /\ sub[i].u \in Supported \cup {None}
         /\ sub[i].c \in BOOLEAN
<1>1. sub[i] \in Subscription
  BY Zenon, IInvTypes
<1> QED
  BY Zenon, <1>1 DEF Subscription

-------------------------------------------------------------------------------
(* Effects on the store.                                                        *)

\* Subscriptions and sorted sets are left alone.
LEMMA SameEffect ==
  ASSUME IInv, UNCHANGED <<store, sub, ids>>, queues' \subseteq Sources,
         lock' \in [Sources -> [Subscribers -> Ids \cup {None}]],
         fresh' \subseteq fresh, asked \subseteq asked', asked' \subseteq Ids
  PROVE  Effect
<1>1. StoreOK'
  BY Zenon, IInvTypes DEF StoreOK
<1>2. Unused' /\ Listed'
  BY Zenon, IInvStore DEF Unused, Listed
<1> QED
  BY Zenon, <1>1, <1>2 DEF Effect, Gone, Readable

LEMMA NoEffect ==
  ASSUME IInv, UNCHANGED <<store, queues, Stored>>
  PROVE  Effect
BY Zenon, SameEffect, IInvTypes DEF Stored

\* The record of a known id is written, and stays in its queue.
LEMMA PutEffect ==
  ASSUME IInv, UNCHANGED <<store, queues, ids, lock, fresh, asked>>,
         NEW i \in Ids, i \notin fresh, NEW r \in Subscription \cup {NoSub}, Put(i, r),
         store # "swift" =>
             r = NoSub \/ r.s = None \/ (sub[i] # NoSub /\ r.s = sub[i].s),
         store = "redis" /\ sub[i] # NoSub /\ r # NoSub => r.s = sub[i].s
  PROVE  Effect
<1>1. sub' \in [Ids -> Subscription \cup {NoSub}]
  BY Zenon, IInvTypes DEF Put
<1>2. sub'[i] = r /\ \A j \in Ids \ {i} : sub'[j] = sub[j]
  BY Zenon, IInvTypes DEF Put
<1>3. StoreOK'
  BY Zenon, <1>1, IInvTypes DEF StoreOK
<1>4. Unused'
  BY Zenon, <1>2, IInvStore, IInvTypes DEF Unused
<1>5. Listed'
  <2> SUFFICES ASSUME store = "redis", NEW j \in Ids, sub'[j] # NoSub, sub'[j].s # None
               PROVE  j \in ids[sub'[j].s]
    BY Zenon DEF Listed
  <2>1. sub[j] # NoSub /\ sub'[j].s = sub[j].s
    BY Zenon, <1>2
  <2> QED
    BY Zenon, <2>1, IInvStore DEF Listed
<1>6. store # "swift" =>
          \A j \in Ids \ fresh : Gone(j)' \/ (sub[j] # NoSub /\ sub'[j].s = sub[j].s)
  BY <1>2 DEF Gone
<1>7. store = "redis" => \A j \in Ids : sub[j] # NoSub /\ sub'[j] # NoSub => sub'[j].s = sub[j].s
  BY Zenon, <1>2
<1> QED
  BY Zenon, <1>3, <1>4, <1>5, <1>6, <1>7 DEF Effect

\* The record of a fresh id is written, on Redis with its id.
LEMMA CreateEffect ==
  ASSUME IInv, UNCHANGED <<store, queues, lock, asked>>,
         NEW i \in fresh, fresh' = fresh \ {i},
         NEW r \in Subscription, NEW s \in Sources, r.s = s, Put(i, r),
         store # "redis" => ids' = ids,
         store = "redis" => ids' = [ids EXCEPT ![s] = @ \cup {i}]
  PROVE  Effect
<1>0. i \in Ids /\ sub[i] = NoSub /\ r # NoSub
  BY Zenon, IInvTypes, IInvStore, SubscriptionsAssumption DEF Unused
<1>1. sub' \in [Ids -> Subscription \cup {NoSub}]
  BY Zenon, IInvTypes DEF Put
<1>2. sub'[i] = r /\ \A j \in Ids \ {i} : sub'[j] = sub[j]
  BY Zenon, <1>0, IInvTypes DEF Put
<1>3. ids' \in [Sources -> SUBSET Ids]
  BY <1>0, IInvTypes
<1>4. \A q \in Sources : ids[q] \subseteq ids'[q]
  BY IInvTypes
<1>5. store = "redis" =>
          i \in ids'[s] /\ \A q \in Sources : \A j \in ids'[q] : j \in ids[q] \/ (q = s /\ j = i)
  BY <1>0, IInvTypes
<1>6. StoreOK'
  BY Zenon, <1>1, <1>3, IInvTypes DEF StoreOK
<1>7. Unused'
  BY Zenon, <1>2, IInvStore, IInvTypes DEF Unused
<1>8. Listed'
  <2> SUFFICES ASSUME store = "redis", NEW j \in Ids, sub'[j] # NoSub, sub'[j].s # None
               PROVE  j \in ids'[sub'[j].s]
    BY Zenon DEF Listed
  <2>1. CASE j = i
    BY Zenon, <1>2, <1>5, <2>1
  <2>2. CASE j # i
    <3>1. sub[j] # NoSub /\ sub'[j] = sub[j]
      BY Zenon, <1>2, <2>2
    <3>2. sub[j].s \in Sources /\ j \in ids[sub[j].s]
      BY Zenon, <3>1, SubFields, IInvStore DEF Listed
    <3> QED
      BY Zenon, <1>4, <3>1, <3>2
  <2> QED
    BY Zenon, <2>1, <2>2
<1>9. store # "swift" =>
          \A j \in Ids \ fresh : Gone(j)' \/ (sub[j] # NoSub /\ sub'[j].s = sub[j].s)
  BY Zenon, <1>2 DEF Gone
<1>10. store = "redis" =>
          /\ \A q \in Sources : \A j \in ids'[q] : j \in ids[q] \/ Readable(q, j)'
          /\ \A j \in Ids : sub[j] # NoSub /\ sub'[j] # NoSub => sub'[j].s = sub[j].s
  BY Zenon, <1>0, <1>2, <1>5 DEF Readable
<1> QED
  BY Zenon, <1>6, <1>7, <1>8, <1>9, <1>10 DEF Effect

\* An id leaves the sorted set of its queue, and its record is gone.
LEMMA RemoveEffect ==
  ASSUME IInv, UNCHANGED <<store, queues, lock, fresh, asked>>,
         NEW i \in Ids, NEW s \in Sources,
         sub' = [sub EXCEPT ![i] = NoSub], ids' = [ids EXCEPT ![s] = @ \ {i}]
  PROVE  Effect
<1>1. sub' \in [Ids -> Subscription \cup {NoSub}]
  BY Zenon, IInvTypes
<1>2. sub'[i] = NoSub /\ \A j \in Ids \ {i} : sub'[j] = sub[j]
  BY Zenon, IInvTypes
<1>3. ids' \in [Sources -> SUBSET Ids]
  BY Zenon, IInvTypes
<1>4. \A q \in Sources : ids'[q] \subseteq ids[q] /\ \A j \in ids[q] : j # i => j \in ids'[q]
  BY Zenon, IInvTypes
<1>5. StoreOK'
  BY Zenon, <1>1, <1>3, IInvTypes DEF StoreOK
<1>6. Unused'
  BY Zenon, <1>2, IInvStore, IInvTypes DEF Unused
<1>7. Listed'
  <2> SUFFICES ASSUME store = "redis", NEW j \in Ids, sub'[j] # NoSub, sub'[j].s # None
               PROVE  j \in ids'[sub'[j].s]
    BY Zenon DEF Listed
  <2>1. j # i /\ sub[j] # NoSub /\ sub'[j] = sub[j]
    BY Zenon, <1>2
  <2>2. sub[j].s \in Sources /\ j \in ids[sub[j].s]
    BY Zenon, <2>1, SubFields, IInvStore DEF Listed
  <2> QED
    BY Zenon, <1>4, <2>1, <2>2
<1>8. \A j \in Ids \ fresh : Gone(j)' \/ (sub[j] # NoSub /\ sub'[j].s = sub[j].s)
  BY Zenon, <1>2 DEF Gone
<1>9. /\ \A q \in Sources : \A j \in ids'[q] : j \in ids[q] \/ Readable(q, j)'
      /\ \A j \in Ids : sub[j] # NoSub /\ sub'[j] # NoSub => sub'[j].s = sub[j].s
  BY Zenon, <1>2, <1>4
<1> QED
  BY Zenon, <1>5, <1>6, <1>7, <1>8, <1>9 DEF Effect

-------------------------------------------------------------------------------
(* What an effect leaves of the requests under way.                             *)

LEMMA ArgsKept ==
  ASSUME IInv, Effect, NEW c \in Call, Args(c)
  PROVE  Args(c)'
<1>1. fresh' \subseteq fresh /\ asked \subseteq asked' /\ store' = store
  BY Zenon DEF Effect
<1>2. ASSUME c.pc = "done", c.op = "ws", store # "swift"
      PROVE  Gone(c.i)' \/ sub'[c.i].s = c.s
  <2>1. c.i \in Ids \ fresh
    BY Zenon, <1>2 DEF Args, Call
  <2>2. Gone(c.i) \/ sub[c.i].s = c.s
    BY Zenon, <1>2 DEF Args
  <2>3. Gone(c.i)' \/ (sub[c.i] # NoSub /\ sub'[c.i].s = sub[c.i].s)
    BY Zenon, <1>2, <2>1 DEF Effect
  <2> QED
    BY Zenon, <2>2, <2>3 DEF Gone
<1> QED
  BY Zenon, <1>1, <1>2 DEF Args

LEMMA ArgsIdle == Args(Idle) /\ Args(Idle)'
BY IdleFields DEF Args

\* A walk goes on owing what stays as it is.
LEMMA WalkKept ==
  ASSUME IInv, Effect, Walks, NEW b \in Callers, call'[b] = call[b], call[b].op = "walk"
  PROVE  Walking(call[b], steady[b])'
<1>1. PICK c \in Call : c = call[b]
  BY Zenon, IInvCall
<1>2. Walking(c, steady[b]) /\ c.s \in Sources
  BY Zenon, <1>1, IInvCall DEF IInv, Args
<1>3. steady'[b] = Owed(b)
  BY Zenon DEF Walks
<1>4. Owed(b) = IF store = "redis" /\ \E i \in ids[c.s] : i \notin ids'[c.s] \/ sub'[i] = NoSub
                THEN {} ELSE {i \in steady[b] : sub'[i] = sub[i]}
  BY Zenon, <1>1 DEF Owed
<1> DEFINE S == steady'[b]
<1>5. S \subseteq steady[b] /\ \A i \in S : sub'[i] = sub[i]
  BY Zenon, <1>3, <1>4
<1>6. store = "redis" /\ S # {} =>
          ~\E i \in ids[c.s] : i \notin ids'[c.s] \/ sub'[i] = NoSub
  BY Zenon, <1>3, <1>4
<1> HIDE DEF S
<1>7. store' = store
  BY Zenon DEF Effect
<1>8. \A i \in S : Readable(c.s, i)' /\ Willing(i)' /\ i \notin c.twice
  BY <1>2, <1>5 DEF Walking, Readable, Willing
<1>9. store = "redis" /\ S # {} =>
          /\ \A i \in ids'[c.s] : Readable(c.s, i)'
          /\ c.page \subseteq ids'[c.s] /\ c.marker \in ids'[c.s] \cup {0}
  <2> SUFFICES ASSUME store = "redis", S # {}
               PROVE  /\ \A i \in ids'[c.s] : Readable(c.s, i)'
                      /\ c.page \subseteq ids'[c.s] /\ c.marker \in ids'[c.s] \cup {0}
    OBVIOUS
  <2>1. /\ \A i \in ids[c.s] : Readable(c.s, i)
        /\ c.page \subseteq ids[c.s] /\ c.marker \in ids[c.s] \cup {0}
    BY Zenon, <1>2, <1>5 DEF Walking
  <2>2. \A i \in ids[c.s] : i \in ids'[c.s] /\ sub'[i] # NoSub
    BY Zenon, <1>6
  <2>3. ASSUME NEW i \in ids'[c.s] PROVE Readable(c.s, i)'
    <3>1. i \in ids[c.s] \/ Readable(c.s, i)'
      BY <1>2 DEF Effect
    <3>2. CASE i \in ids[c.s]
      <4>1. i \in Ids /\ Readable(c.s, i) /\ sub'[i] # NoSub
        BY Zenon, <1>2, <2>1, <2>2, <3>2, IInvTypes
      <4>2. sub'[i].s = sub[i].s
        BY Zenon, <4>1 DEF Effect, Readable
      <4> QED
        BY Zenon, <4>1, <4>2 DEF Readable
    <3> QED
      BY Zenon, <3>1, <3>2
  <2> QED
    BY Zenon, <2>1, <2>2, <2>3
<1>10. /\ \A g \in S \cap c.got :
             /\ \A j \in c.page : g < j
             /\ c.pc = "page" \/ c.marker # 0 => g =< c.marker
       /\ c.pc = "page" => c.page = {} /\ \A i \in S : i \in c.got \/ c.marker < i
       /\ c.pc = "item" => \A i \in S :
             \/ i \in c.got \cup c.page
             \/ /\ c.marker < i /\ \A j \in c.page : j < i
                /\ c.page # {} \/ c.marker # 0
       /\ \A j \in c.page : IF store = "mongodb" THEN j =< c.marker ELSE c.marker < j
  BY <1>2, <1>5, Zenon DEF Walking
<1>11. Walking(c, steady[b])'
  BY <1>7, <1>8, <1>9, <1>10, Zenon DEF Walking, S
<1> QED
  BY <1>1, <1>11, Zenon

-------------------------------------------------------------------------------
(* Steps.                                                                       *)

\* A step of the request of a that is not a walk's.
Fits(a) ==
    /\ Effect
    /\ \E r \in Call :
          /\ call' = [call EXCEPT ![a] = r] /\ Args(r)' /\ r.op # "walk"
          /\ r.op \in {"idle", call[a].op} \/ call[a] = Idle

LEMMA OwedType ==
  ASSUME IInv, NEW a \in Callers
  PROVE  Owed(a) \subseteq Ids
BY Zenon, IInvTypes DEF Owed

LEMMA StepInv ==
  ASSUME IInv, Effect, Walks, NEW a \in Callers, NEW r \in Call,
         call' = [call EXCEPT ![a] = r], Args(r)',
         r.op = "walk" => Walking(r, steady[a])'
  PROVE  IInv'
<1>1. call' \in [Callers -> Call] /\ call'[a] = r /\ \A b \in Callers \ {a} : call'[b] = call[b]
  BY Zenon, IInvTypes
<1>2. steady' \in [Callers -> SUBSET Ids]
  BY Zenon, OwedType DEF Walks
<1>3. TypeOK' /\ Unused' /\ Listed'
  BY <1>1, <1>2, Zenon DEF Effect, StoreOK, TypeOK
<1>4. \A b \in Callers : Args(call[b])'
  <2>1. ASSUME NEW b \in Callers, b # a PROVE Args(call[b])'
    <3>1. PICK c \in Call : c = call[b] /\ call'[b] = c
      BY Zenon, <1>1, <2>1, IInvCall
    <3>2. Args(c)'
      BY Zenon, <3>1, ArgsKept, IInvCall
    <3> QED
      BY <3>1, <3>2, Zenon
  <2>2. Args(call[a])'
    BY <1>1, Zenon
  <2> QED
    BY Zenon, <2>1, <2>2
<1>5. \A b \in Callers : call'[b].op = "walk" => Walking(call[b], steady[b])'
  <2>1. ASSUME NEW b \in Callers, b # a, call'[b].op = "walk" PROVE Walking(call[b], steady[b])'
    BY Zenon, <1>1, <2>1, WalkKept
  <2>2. ASSUME r.op = "walk" PROVE Walking(call[a], steady[a])'
    BY <1>1, <2>2, Zenon
  <2> QED
    BY Zenon, <1>1, <2>1, <2>2
<1> QED
  BY <1>3, <1>4, <1>5, Zenon DEF IInv

LEMMA FitsInv ==
  ASSUME IInv, NEW a \in Callers, Fits(a), Walks
  PROVE  IInv'
<1>1. PICK r \in Call : call' = [call EXCEPT ![a] = r] /\ Args(r)' /\ r.op # "walk"
  BY Zenon DEF Fits
<1>2. Effect
  BY Zenon DEF Fits
<1> QED
  BY <1>1, <1>2, StepInv, Zenon

\* A step of the store itself.
LEMMA StoreInv ==
  ASSUME IInv, Effect, Walks, UNCHANGED call
  PROVE  IInv'
<1>1. steady' \in [Callers -> SUBSET Ids]
  BY Zenon, OwedType DEF Walks
<1>2. TypeOK' /\ Unused' /\ Listed'
  BY <1>1, IInvTypes, Zenon DEF Effect, StoreOK, TypeOK
<1>3. ASSUME NEW b \in Callers PROVE Args(call[b])'
  <2>1. PICK c \in Call : c = call[b] /\ call'[b] = c
    BY IInvCall
  <2>2. Args(c)'
    BY Zenon, <2>1, ArgsKept, IInvCall
  <2> QED
    BY <2>1, <2>2, Zenon
<1>4. ASSUME NEW b \in Callers, call'[b].op = "walk" PROVE Walking(call[b], steady[b])'
  BY Zenon, <1>4, WalkKept
<1> QED
  BY <1>2, <1>3, <1>4, Zenon DEF IInv

LEMMA ReplyFits ==
  ASSUME IInv, Effect, NEW a \in Callers, Reply(a)
  PROVE  Fits(a)
<1>1. call' = [call EXCEPT ![a] = Idle]
  BY DEF Reply
<1> QED
  BY <1>1, IdleType, IdleFields, ArgsIdle, Zenon DEF Fits

\* A request goes on to another step with the same arguments.
LEMMA GoFits ==
  ASSUME IInv, Effect, NEW a \in Callers,
         NEW pc \in {"unlock", "put", "write", "remove"}, Go(a, pc),
         pc \in {"unlock", "put"} => call[a].pc \in {"relock", "unlock"},
         pc = "write" => call[a].pc = "update",
         pc = "remove" => call[a].pc = "free"
  PROVE  Fits(a)
<1>1. PICK c \in Call : c = call[a]
  BY Zenon, IInvCall
<1> DEFINE r == [c EXCEPT !.pc = pc]
<1>2. call' = [call EXCEPT ![a] = r]
  BY Zenon, <1>1 DEF Go
<1>3. r \in Call
  BY ZenonT(30) DEF Call
<1>4. /\ r.op = c.op /\ r.pc = pc /\ r.s = c.s /\ r.i = c.i /\ r.u = c.u
      /\ r.data = c.data /\ r.page = c.page
  BY DEF Call
<1> HIDE DEF r
<1>5. Args(c)'
  BY <1>1, ArgsKept, IInvCall
<1>6. c.pc \in {"relock", "unlock", "update", "free"}
  BY SMTT(30), <1>1
<1>7. Args(r)' /\ r.op # "walk"
  BY SMTT(30), <1>1, <1>4, <1>5, <1>6 DEF Args
<1>8. r.op \in {"idle", call[a].op}
  BY <1>1, <1>4
<1> QED
  BY <1>2, <1>3, <1>7, <1>8, Zenon DEF Fits

-------------------------------------------------------------------------------
(* Requests that begin.                                                         *)

\* A request goes on with r.
LEMMA OnFits ==
  ASSUME IInv, Effect, NEW a \in Callers, NEW r \in Call, call' = [call EXCEPT ![a] = r],
         r.op = call[a].op, r.op # "walk", Args(r)'
  PROVE  Fits(a)
BY Zenon DEF Fits

\* What the others see of a step of a caller.
Others(R) == \A b \in Callers \ R : call'[b] = call[b]

LEMMA FitsOthers ==
  ASSUME IInv, NEW a \in Callers, Fits(a)
  PROVE  Others({a})
<1>1. PICK r \in Call : call' = [call EXCEPT ![a] = r]
  BY Zenon DEF Fits
<1> QED
  BY Zenon, <1>1, IInvTypes DEF Others

LEMMA FitsStep ==
  ASSUME IInv, NEW a \in Callers, Fits(a), Walks
  PROVE  IInv' /\ Effect /\ Others({a})
BY FitsInv, FitsOthers, Zenon DEF Fits

LEMMA BeginFits ==
  ASSUME IInv, Effect, NEW a \in Callers, NEW r \in Call, Begin(a, r), Args(r)', r.op # "walk"
  PROVE  Fits(a)
<1>1. call[a] = Idle /\ call' = [call EXCEPT ![a] = r]
  BY Zenon DEF Begin
<1> QED
  BY <1>1, Zenon DEF Fits

LEMMA PostedSupported == Posted \subseteq Supported /\ Patched \subseteq Supported \cup {None}
BY Zenon DEF Posted, Patched, subscription_posting, subscription_patching

LEMMA KnownIds ==
  ASSUME NEW i \in Known
  PROVE  i \in Ids /\ i # 0 /\ i \notin fresh
BY Zenon, IdsAreNumbers DEF Known

\* The first step of a request.
LEMMA RequestFits ==
  ASSUME IInv, Effect, NEW a \in Callers, NEW r \in Call, Begin(a, r),
         r.s \in Sources, r.page = {},
         \/ r.op \in {"post", "ws"} /\ r.pc = "create" /\ r.u \in Supported /\ r.i = 0
         \/ /\ r.op \in {"patch", "confirm"} /\ r.pc = "update" /\ r.i \in Known
            /\ r.u \in Supported \cup {None}
         \/ r.op = "delete" /\ r.pc = "delete" /\ r.i \in Known
         \/ r.op = "purge" /\ r.pc = "list" /\ r.i = 0
  PROVE  Fits(a)
<1>1. fresh' \subseteq fresh
  BY Zenon DEF Effect
<1>2. r.i \in Known => r.i # 0 /\ r.i \notin fresh
  BY Zenon, KnownIds
<1>3. Args(r)' /\ r.op # "walk"
  BY Zenon, <1>1, <1>2 DEF Args
<1> QED
  BY <1>3, BeginFits, Zenon

LEMMA subscription_createFits ==
  ASSUME IInv, NEW a \in Callers, NEW u, subscription_create(a, u)
  PROVE  Fits(a)
<1>1. PICK s \in Sources :
        /\ Begin(a, [Idle EXCEPT !.op = "ws", !.pc = "create", !.s = s, !.u = u])
        /\ queues' = queues \cup {s}
        /\ UNCHANGED <<store, Stored>>
  BY Zenon DEF subscription_create
<1>2. Effect
  BY <1>1, SameEffect, IInvTypes DEF Stored
<1> DEFINE r == [Idle EXCEPT !.op = "ws", !.pc = "create", !.s = s, !.u = u]
<1>3. u \in Supported /\ u \in Subscribers \cup {None} /\ s \in Sources \cup {None}
  BY Zenon, PostedSupported, SubscriptionsAssumption DEF subscription_create
<1>4. r \in Call
  BY <1>3, IdleType, ZenonT(30) DEF Call
<1>5. r.op = "ws" /\ r.pc = "create" /\ r.s = s /\ r.i = 0 /\ r.u = u /\ r.page = {}
  BY DEF Idle
<1>6. Begin(a, r)
  BY <1>1
<1> HIDE DEF r
<1> QED
  BY <1>2, <1>3, <1>4, <1>5, <1>6, RequestFits

LEMMA subscription_deleteFits ==
  ASSUME IInv, NEW a \in Callers, NEW s \in Sources, NEW i \in Known, subscription_delete(a, s, i)
  PROVE  Fits(a)
<1>1. Effect
  BY Zenon, NoEffect DEF subscription_delete
<1> DEFINE r == [Idle EXCEPT !.op = "delete", !.pc = "delete", !.s = s, !.i = i]
<1>2. s \in Sources \cup {None} /\ i \in Ids \cup {0}
  BY Zenon, KnownIds
<1>3. r \in Call
  BY <1>2, IdleType, Zenon DEF Call
<1>4. r.op = "delete" /\ r.pc = "delete" /\ r.s = s /\ r.i = i /\ r.page = {}
  BY DEF Idle
<1>5. Begin(a, r)
  BY Zenon DEF subscription_delete
<1> HIDE DEF r
<1> QED
  BY Zenon, <1>1, <1>3, <1>4, <1>5, RequestFits

-------------------------------------------------------------------------------
(* Creation.                                                                    *)

LEMMA RequestInv ==
  ASSUME IInv, NEW a \in Callers, Request(a), Walks
  PROVE  IInv' /\ Effect /\ Others({a})

<1>PostV2. ASSUME PostV2(a) PROVE Fits(a)
  <2> USE <1>PostV2
  <2>1. PICK s \in Sources :
          /\ \/ \E u \in Posted :
                  Begin(a, [Idle EXCEPT !.op = "post", !.pc = "create", !.s = s, !.u = u])
             \/ Begin(a, Idle)
          /\ queues' = queues \cup {s}
          /\ UNCHANGED <<store, Stored>>
    BY Zenon DEF PostV2
  <2>2. Effect
    BY <2>1, SameEffect, IInvTypes, Zenon DEF Stored
  <2>3. CASE Begin(a, Idle)
    BY <2>2, <2>3, ReplyFits, Zenon DEF Begin, Reply
  <2>4. ASSUME NEW u \in Posted,
               Begin(a, [Idle EXCEPT !.op = "post", !.pc = "create", !.s = s, !.u = u])
        PROVE  Fits(a)
    <3> DEFINE r == [Idle EXCEPT !.op = "post", !.pc = "create", !.s = s, !.u = u]
    <3>1. u \in Supported /\ u \in Subscribers \cup {None} /\ s \in Sources \cup {None}
      BY Zenon, PostedSupported, SubscriptionsAssumption
    <3>2. r \in Call
      BY <3>1, IdleType, Zenon DEF Call
    <3>3. r.op = "post" /\ r.pc = "create" /\ r.s = s /\ r.i = 0 /\ r.u = u /\ r.page = {}
      BY DEF Idle
    <3>4. Begin(a, r)
      BY <2>4
    <3> HIDE DEF r
    <3> QED
      BY Zenon, <2>2, <3>1, <3>2, <3>3, <3>4, RequestFits
  <2> QED
    BY <2>1, <2>3, <2>4, Zenon

<1>PatchV2. ASSUME PatchV2(a) PROVE Fits(a)
  <2> USE <1>PatchV2
  <2>1. PICK s \in Sources, i \in Known, u \in Patched :
          Begin(a, [Idle EXCEPT !.op = "patch", !.pc = "update", !.s = s, !.i = i, !.u = u])
    BY Zenon DEF PatchV2
  <2>2. Effect
    BY Zenon, NoEffect DEF PatchV2
  <2> DEFINE r == [Idle EXCEPT !.op = "patch", !.pc = "update", !.s = s, !.i = i, !.u = u]
  <2>3. /\ u \in Supported \cup {None} /\ u \in Subscribers \cup {None}
        /\ s \in Sources \cup {None} /\ i \in Ids \cup {0}
    BY PostedSupported, KnownIds, SubscriptionsAssumption
  <2>4. r \in Call
    BY <2>3, IdleType, ZenonT(30) DEF Call
  <2>5. r.op = "patch" /\ r.pc = "update" /\ r.s = s /\ r.i = i /\ r.u = u /\ r.page = {}
    BY DEF Idle
  <2>6. Begin(a, r)
    BY <2>1
  <2> HIDE DEF r
  <2> QED
    BY <2>2, <2>3, <2>4, <2>5, <2>6, RequestFits

<1>ConfirmV2. ASSUME ConfirmV2(a) PROVE Fits(a)
  <2> USE <1>ConfirmV2
  <2>1. PICK s \in Sources, i \in Known, k \in BOOLEAN :
          Begin(a, [Idle EXCEPT !.op = "confirm", !.pc = "update", !.s = s, !.i = i, !.c = k])
    BY Zenon DEF ConfirmV2
  <2>2. Effect
    BY Zenon, NoEffect DEF ConfirmV2
  <2> DEFINE r == [Idle EXCEPT !.op = "confirm", !.pc = "update", !.s = s, !.i = i, !.c = k]
  <2>3. s \in Sources \cup {None} /\ i \in Ids \cup {0}
    BY Zenon, KnownIds
  <2>4. r \in Call
    BY <2>3, IdleType, Zenon DEF Call
  <2>5. /\ r.op = "confirm" /\ r.pc = "update" /\ r.s = s /\ r.i = i
        /\ r.u \in Supported \cup {None} /\ r.page = {}
    BY DEF Idle
  <2>6. Begin(a, r)
    BY Zenon, <2>1
  <2> HIDE DEF r
  <2> QED
    BY Zenon, <2>2, <2>4, <2>5, <2>6, RequestFits

<1>DeleteV2. ASSUME DeleteV2(a) PROVE Fits(a)
  <2> USE <1>DeleteV2
  <2>1. PICK s \in Sources, i \in Known : subscription_delete(a, s, i)
    BY Zenon DEF DeleteV2, subscription_delete
  <2> QED
    BY Zenon, <2>1, subscription_deleteFits

<1>Purge. ASSUME Purge(a) PROVE Fits(a)
  <2> USE <1>Purge
  <2>1. PICK s \in Sources : Begin(a, [Idle EXCEPT !.op = "purge", !.pc = "list", !.s = s])
    BY Zenon DEF Purge
  <2>2. Effect
    BY Zenon, NoEffect DEF Purge
  <2> DEFINE r == [Idle EXCEPT !.op = "purge", !.pc = "list", !.s = s]
  <2>3. s \in Sources \cup {None}
    OBVIOUS
  <2>4. r \in Call
    BY <2>3, IdleType, Zenon DEF Call
  <2>5. r.op = "purge" /\ r.pc = "list" /\ r.s = s /\ r.i = 0 /\ r.page = {}
    BY DEF Idle
  <2>6. Begin(a, r)
    BY Zenon, <2>1
  <2> HIDE DEF r
  <2> QED
    BY Zenon, <2>2, <2>4, <2>5, <2>6, RequestFits

<1>Read. ASSUME Read(a) PROVE Fits(a)
  <2> USE <1>Read
  <2>1. Begin(a, Idle) /\ UNCHANGED <<store, queues, Stored>>
    BY ZenonT(30) DEF Read, GetV2, subscription_get, ListV2, subscription_list, Answer
  <2>2. Effect
    BY <2>1, NoEffect
  <2> QED
    BY <2>1, <2>2, ReplyFits, Zenon DEF Begin, Reply

\* A walk that begins owes the subscriptions there are.
<1>NotifierPost.
  ASSUME NotifierPost(a)
  PROVE  IInv' /\ Effect
  <2> USE <1>NotifierPost
  <2>1. PICK s \in Sources : Begin(a, [Idle EXCEPT !.op = "walk", !.pc = "page", !.s = s])
    BY Zenon DEF NotifierPost
  <2>2. UNCHANGED <<store, queues, Stored>> /\ Effect
    BY NoEffect DEF NotifierPost
  <2> DEFINE r == [Idle EXCEPT !.op = "walk", !.pc = "page", !.s = s]
  <2>3. s \in Sources \cup {None}
    OBVIOUS
  <2>4. r \in Call
    BY <2>3, IdleType, Zenon DEF Call
  <2>5. /\ r.op = "walk" /\ r.pc = "page" /\ r.s = s /\ r.i = 0 /\ r.page = {}
        /\ r.marker = 0 /\ r.got = {} /\ r.twice = {}
    BY DEF Idle
  <2>6. call[a] = Idle /\ call' = [call EXCEPT ![a] = r]
    BY <2>1 DEF Begin
  <2> HIDE DEF r
  <2>7. Args(r)'
    BY Zenon, <2>5 DEF Args
  <2>8. call[a].op # "walk" /\ call'[a] = r
    BY <2>6, IdleFields, IInvTypes
  <2>9. steady'[a] = IF store = "redis" /\ \E i \in ids[s] : ~Readable(s, i) THEN {}
                     ELSE {i \in Ids : Readable(s, i) /\ Willing(i)}
    BY <2>5, <2>8, Zenon DEF Walks, Owed
  <2>10. /\ store' = store /\ ids' = ids
         /\ \A i : (Readable(s, i)' <=> Readable(s, i)) /\ (Willing(i)' <=> Willing(i))
    BY Zenon, <2>2 DEF Stored, Readable, Willing
  <2>11. \A i \in steady'[a] : Readable(s, i) /\ Willing(i) /\ i \in Ids
    BY Zenon, <2>9
  <2>12. store = "redis" /\ steady'[a] # {} => \A i \in ids[s] : Readable(s, i)
    BY Zenon, <2>9
  <2>13. \A i \in steady'[a] : 0 < i
    BY SMTT(30), <2>11, IdsAreNumbers
  <2>14. Walking(r, steady[a])'
    BY Zenon, <2>5, <2>10, <2>11, <2>12, <2>13 DEF Walking
  <2> QED
    BY <2>2, <2>4, <2>6, <2>7, <2>14, StepInv, Zenon

<1>1. CASE \/ Read(a) \/ PostV2(a) \/ PatchV2(a) \/ ConfirmV2(a) \/ DeleteV2(a) \/ Purge(a)
           \/ \E u \in Subscribers : subscription_create(a, u)
  <2>1. Fits(a)
    BY <1>1, <1>Read, <1>PostV2, <1>PatchV2, <1>ConfirmV2, <1>DeleteV2, <1>Purge,
       subscription_createFits, Zenon
  <2> QED
    BY Zenon, <2>1, FitsStep
<1>2. CASE NotifierPost(a)
  <2>1. IInv' /\ Effect
    BY Zenon, <1>2, <1>NotifierPost
  <2>2. \E r : call' = [call EXCEPT ![a] = r]
    BY <1>2, ZenonT(30) DEF NotifierPost, Begin
  <2> QED
    BY Zenon, <2>1, <2>2, IInvTypes DEF Others
<1> QED
  BY <1>1, <1>2, Zenon DEF Request

\* Requests that name a subscription have its id.
LEMMA NamesOne ==
  ASSUME IInv, NEW a \in Callers,
         \/ call[a].pc \in {"update", "write", "relock", "unlock", "put", "bye", "delete", "free",
                            "remove"}
         \/ call[a].op = "patch"
  PROVE  call[a].i \in Ids /\ call[a].i \notin fresh
BY IInvCall DEF Args, Call

\* The subscriber objects of a queue, one of them written.
LEMMA LockType ==
  ASSUME IInv, NEW s \in Sources, NEW u, NEW i \in Ids \cup {None},
         lock' = [lock EXCEPT ![s][u] = i]
  PROVE  lock' \in [Sources -> [Subscribers -> Ids \cup {None}]]
<1>1. [lock[s] EXCEPT ![u] = i] \in [Subscribers -> Ids \cup {None}]
  BY IInvTypes, Zenon
<1> QED
  BY Zenon, <1>1, IInvTypes

LEMMA CreateFits ==
  ASSUME IInv, NEW a \in Callers, Create(a)
  PROVE  Fits(a)

<1>Duplicate. ASSUME Effect, Duplicate(a), call[a].pc \in {"create", "dup"} PROVE Fits(a)
  <2> USE <1>Duplicate
  <2>1. PICK c \in Call : c = call[a]
    BY Zenon, IInvCall
  <2>2. CASE c.op # "post"
    BY <2>1, <2>2, ReplyFits, Zenon DEF Duplicate, Reply
  <2>3. CASE c.op = "post"
    <3> DEFINE r == [c EXCEPT !.pc = "with", !.page = {}]
    <3>1. call' = [call EXCEPT ![a] = r]
      BY Zenon, <2>1, <2>3 DEF Duplicate
    <3>2. {} \in SUBSET Ids
      OBVIOUS
    <3>3. r \in Call
      BY <3>2, Zenon DEF Call
    <3>4. /\ r.op = c.op /\ r.pc = "with" /\ r.s = c.s /\ r.i = c.i /\ r.u = c.u
          /\ r.data = c.data /\ r.page = {}
      BY DEF Call
    <3> HIDE DEF r
    <3>5. Args(c)'
      BY <2>1, ArgsKept, IInvCall
    <3>6. c.pc \in {"create", "dup"}
      BY Zenon, <2>1
    <3>7. Args(r)' /\ r.op # "walk"
      BY <2>3, <3>4, <3>5, <3>6 DEF Args
    <3> QED
      BY <2>1, <3>1, <3>3, <3>4, <3>7, OnFits, Zenon
  <2> QED
    BY Zenon, <2>2, <2>3

<1>Success.
  ASSUME Effect, NEW i \in Ids, i \notin fresh', Success(a, i),
         call[a].pc \in {"create", "dup", "put"}, call[a].op \in {"post", "ws"},
         store # "swift" => sub'[i].s = call[a].s
  PROVE  Fits(a)
  <2> USE <1>Success
  <2>1. PICK c \in Call : c = call[a]
    BY Zenon, IInvCall
  <2> DEFINE pc == IF c.op = "post" THEN "get" ELSE "done"
             r == [c EXCEPT !.i = i, !.data = NoSub, !.pc = pc]
  <2>2. call' = [call EXCEPT ![a] = r]
    BY Zenon, <2>1 DEF Success
  <2>3. pc \in {"get", "done"} /\ (c.op = "post" <=> pc = "get")
    OBVIOUS
  <2> HIDE DEF pc
  <2>4. r \in Call
    BY <2>3, ZenonT(30) DEF Call
  <2>5. /\ r.op = c.op /\ r.pc = pc /\ r.s = c.s /\ r.i = i /\ r.u = c.u
        /\ r.data = NoSub /\ r.page = c.page
    BY DEF Call
  <2> HIDE DEF r
  <2>6. Args(c)' /\ i # 0 /\ store' = store
    BY Zenon, <2>1, ArgsKept, IInvCall, IdsAreNumbers DEF Effect
  <2>7. c.pc \in {"create", "dup", "put"} /\ c.op \in {"post", "ws"}
    BY Zenon, <2>1
  <2>8. Args(r)' /\ r.op # "walk"
    BY Zenon, <2>1, <2>3, <2>5, <2>6, <2>7 DEF Args
  <2> QED
    BY <2>1, <2>2, <2>4, <2>5, <2>8, OnFits, ZenonT(30)

<1>CreatedType.
  ASSUME call[a].op \in {"post", "ws"}, call[a].pc # "idle"
  PROVE  Created(a) \in Subscription /\ Created(a).s = call[a].s /\ call[a].s \in Sources
  <2> USE <1>CreatedType
  <2>1. call[a].u \in Supported /\ call[a].s \in Sources
    BY Zenon, IInvCall DEF Args
  <2> QED
    BY Zenon, <2>1 DEF Created, Subscription

<1>MongoCreate. ASSUME MongoCreate(a) PROVE Fits(a)
  <2> USE <1>MongoCreate
  <2>1. /\ store = "mongodb" /\ call[a].pc = "create" /\ call[a].op \in {"post", "ws"}
        /\ UNCHANGED <<store, queues, ids, lock, asked>>
    BY Zenon, IInvCall DEF MongoCreate, At, Args
  <2>2. CASE Duplicate(a) /\ UNCHANGED <<sub, fresh>>
    <3>1. Effect
      BY Zenon, <2>1, <2>2, NoEffect DEF Stored
    <3> QED
      BY Zenon, <2>1, <2>2, <3>1, <1>Duplicate
  <2>3. ASSUME NEW i \in fresh, Success(a, i), Put(i, Created(a)), fresh' = fresh \ {i}
        PROVE  Fits(a)
    <3>1. Created(a) \in Subscription /\ Created(a).s = call[a].s /\ call[a].s \in Sources
      BY Zenon, <2>1, <1>CreatedType
    <3>2. PICK r \in Subscription, s \in Sources : r = Created(a) /\ s = call[a].s
      BY Zenon, <3>1
    <3>3. r.s = s /\ Put(i, r)
      BY Zenon, <2>3, <3>1, <3>2
    <3>4. Effect
      BY Zenon, <2>1, <2>3, <3>3, CreateEffect
    <3>5. i \in Ids /\ sub'[i] = r
      BY Zenon, <2>3, <3>3, IInvTypes DEF Put
    <3> QED
      BY Zenon, <2>1, <2>3, <3>2, <3>3, <3>4, <3>5, <1>Success
  <2> QED
    BY Zenon, <2>2, <2>3 DEF MongoCreate

<1>RedisScan. ASSUME RedisScan(a) PROVE Fits(a)
  <2> USE <1>RedisScan
  <2>1. PICK c \in Call : c = call[a]
    BY Zenon, IInvCall
  <2>2. c.pc = "create" /\ Args(c) /\ c.op \in {"post", "ws"} /\ c.s \in Sources
    BY Zenon, <2>1, IInvCall DEF RedisScan, At, Args
  <2>3. Effect
    BY Zenon, NoEffect DEF RedisScan
  <2>4. PICK page \in SUBSET Ids : page = ids[c.s]
    BY Zenon, <2>2, IInvTypes
  <2> DEFINE r == [c EXCEPT !.pc = "dup", !.page = page]
  <2>5. call' = [call EXCEPT ![a] = r]
    BY Zenon, <2>1, <2>4 DEF RedisScan
  <2>6. r \in Call
    BY ZenonT(30) DEF Call
  <2>7. r.op = c.op /\ r.pc = "dup" /\ r.s = c.s /\ r.i = c.i /\ r.u = c.u
    BY DEF Call
  <2> HIDE DEF r
  <2>8. Args(c)'
    BY Zenon, <2>1, <2>3, ArgsKept, IInvCall
  <2>9. Args(r)' /\ r.op # "walk"
    BY Zenon, <2>2, <2>7, <2>8 DEF Args
  <2> QED
    BY <2>1, <2>3, <2>5, <2>6, <2>7, <2>9, OnFits, Zenon

<1>Dup. ASSUME _is_duplicated_subscriber(a) PROVE Fits(a)
  <2> USE <1>Dup
  <2>1. PICK c \in Call : c = call[a]
    BY Zenon, IInvCall
  <2>2. /\ c.pc = "dup" /\ Args(c) /\ c.op \in {"post", "ws", "patch"} /\ c.s \in Sources
        /\ UNCHANGED <<store, queues, sub, lock, fresh, asked>>
    BY <2>1, IInvCall DEF _is_duplicated_subscriber, At, Args
  <2>3. PICK i \in Least(call[a].page) :
          IF sub[i] = NoSub
          THEN /\ ids' = [ids EXCEPT ![call[a].s] = @ \ {i}]
               /\ call' = [call EXCEPT ![a] = [@ EXCEPT !.page = call[a].page \ {i}]]
          ELSE /\ IF sub[i].u = call[a].u THEN Duplicate(a)
                  ELSE call' = [call EXCEPT ![a] = [@ EXCEPT !.page = call[a].page \ {i}]]
               /\ UNCHANGED ids
    BY Zenon DEF _is_duplicated_subscriber
  <2>4. i \in Ids /\ c.page \ {i} \in SUBSET Ids
    BY Zenon, <2>1 DEF Call, Least
  <2>5. Effect
    <3>1. CASE sub[i] = NoSub
      <4>1. sub' = [sub EXCEPT ![i] = NoSub]
        BY Zenon, <2>2, <2>4, <3>1, IInvTypes
      <4> QED
        BY <2>1, <2>2, <2>3, <2>4, <3>1, <4>1, RemoveEffect, ZenonT(30)
    <3>2. CASE sub[i] # NoSub
      BY Zenon, <2>2, <2>3, <3>2, NoEffect DEF Stored
    <3> QED
      BY Zenon, <3>1, <3>2
  <2>6. CASE Duplicate(a)
    BY Zenon, <2>1, <2>2, <2>5, <2>6, <1>Duplicate
  <2>7. CASE call' = [call EXCEPT ![a] = [@ EXCEPT !.page = call[a].page \ {i}]]
    <3> DEFINE r == [c EXCEPT !.page = c.page \ {i}]
    <3>1. call' = [call EXCEPT ![a] = r]
      BY Zenon, <2>1, <2>7
    <3>2. r \in Call
      BY <2>4, Zenon DEF Call
    <3>3. /\ r.op = c.op /\ r.pc = "dup" /\ r.s = c.s /\ r.i = c.i /\ r.u = c.u
      BY Zenon, <2>2 DEF Call
    <3> HIDE DEF r
    <3>4. Args(c)'
      BY Zenon, <2>1, <2>5, ArgsKept, IInvCall
    <3>5. Args(r)' /\ r.op # "walk"
      BY Zenon, <2>2, <3>3, <3>4 DEF Args
    <3> QED
      BY <2>1, <2>5, <3>1, <3>2, <3>3, <3>5, OnFits, Zenon
  <2> QED
    BY ZenonT(30), <2>3, <2>6, <2>7

<1>RedisCreate. ASSUME RedisCreate(a) PROVE Fits(a)
  <2> USE <1>RedisCreate
  <2>1. /\ store = "redis" /\ call[a].pc = "dup" /\ call[a].op \in {"post", "ws"}
        /\ UNCHANGED <<store, queues, lock, asked>>
    BY Zenon DEF RedisCreate, At
  <2>2. PICK i \in fresh :
          /\ Success(a, i) /\ Put(i, Created(a)) /\ fresh' = fresh \ {i}
          /\ ids' = [ids EXCEPT ![call[a].s] = @ \cup {i}]
    BY Zenon DEF RedisCreate
  <2>3. Created(a) \in Subscription /\ Created(a).s = call[a].s /\ call[a].s \in Sources
    BY Zenon, <2>1, <1>CreatedType
  <2>4. PICK r \in Subscription, s \in Sources : r = Created(a) /\ s = call[a].s
    BY Zenon, <2>3
  <2>5. r.s = s /\ Put(i, r) /\ ids' = [ids EXCEPT ![s] = @ \cup {i}]
    BY Zenon, <2>2, <2>3, <2>4
  <2>6. Effect
    BY <2>1, <2>2, <2>5, CreateEffect, ZenonT(30)
  <2>7. i \in Ids /\ sub'[i] = r
    BY Zenon, <2>2, <2>5, IInvTypes DEF Put
  <2> QED
    BY Zenon, <2>1, <2>2, <2>4, <2>5, <2>6, <2>7, <1>Success

<1>SwiftLock. ASSUME SwiftLock(a) PROVE Fits(a)
  <2> USE <1>SwiftLock
  <2>1. /\ call[a].pc = "create" /\ call[a].op \in {"post", "ws"}
        /\ UNCHANGED <<store, queues, sub, ids, asked>>
    BY IInvCall, Zenon DEF SwiftLock, At, Args
  <2>2. CASE Duplicate(a) /\ UNCHANGED <<lock, fresh>>
    <3>1. Effect
      BY <2>1, <2>2, NoEffect DEF Stored
    <3> QED
      BY Zenon, <2>1, <2>2, <3>1, <1>Duplicate
  <2>3. ASSUME NEW i \in fresh,
               call' = [call EXCEPT ![a] = [@ EXCEPT !.pc = "put", !.i = i, !.data = Created(a)]],
               lock' = [lock EXCEPT ![call[a].s][call[a].u] = i], fresh' = fresh \ {i}
        PROVE  Fits(a)
    <3>1. PICK c \in Call : c = call[a]
      BY Zenon, IInvCall
    <3>2. PICK d \in Subscription : d = Created(a)
      BY Zenon, <2>1, <1>CreatedType
    <3>3. Args(c) /\ c.pc = "create" /\ c.op \in {"post", "ws"} /\ c.s \in Sources /\ c.u \in Subscribers
      BY <2>1, <3>1, IInvCall, SubscriptionsAssumption, Zenon DEF Args
    <3>4. i \in Ids /\ i # 0 /\ d \in Subscription \cup {NoSub}
      BY Zenon, IInvTypes, IdsAreNumbers
    <3>5. lock' = [lock EXCEPT ![c.s] = [lock[c.s] EXCEPT ![c.u] = i]]
      BY Zenon, <2>3, <3>1
    <3>6. lock' \in [Sources -> [Subscribers -> Ids \cup {None}]]
      BY Zenon, <3>3, <3>4, <3>5, IInvTypes
    <3>7. Effect
      BY Zenon, <2>1, <2>3, <3>6, SameEffect, IInvTypes
    <3> DEFINE r == [c EXCEPT !.pc = "put", !.i = i, !.data = d]
    <3>8. call' = [call EXCEPT ![a] = r]
      BY Zenon, <2>3, <3>1, <3>2
    <3>9. r \in Call
      BY <3>4, Zenon DEF Call
    <3>10. /\ r.op = c.op /\ r.pc = "put" /\ r.s = c.s /\ r.i = i /\ r.u = c.u
           /\ r.data = d
      BY DEF Call
    <3> HIDE DEF r
    <3>11. Args(c)'
      BY Zenon, <3>1, <3>7, ArgsKept, IInvCall
    <3>12. Args(r)' /\ r.op # "walk"
      BY Zenon, <2>3, <3>3, <3>4, <3>10, <3>11 DEF Args
    <3> QED
      BY <3>1, <3>7, <3>8, <3>9, <3>10, <3>12, OnFits, Zenon
  <2> QED
    BY <2>2, <2>3, Zenon DEF SwiftLock

<1>SwiftCreate. ASSUME SwiftCreate(a) PROVE Fits(a)
  <2> USE <1>SwiftCreate
  <2>1. /\ store = "swift" /\ call[a].pc = "put" /\ call[a].op \in {"post", "ws"}
        /\ UNCHANGED <<store, queues, ids, lock, fresh, asked>>
    BY ZenonT(30) DEF SwiftCreate, At
  <2>2. call[a].i \in Ids /\ call[a].i \notin fresh /\ call[a].data \in Subscription
    BY <2>1, IInvCall DEF Args, Call
  <2>3. PICK i \in Ids, d \in Subscription : i = call[a].i /\ d = call[a].data
    BY Zenon, <2>2
  <2>4. Put(i, d) /\ Success(a, i)
    BY ZenonT(30), <2>3 DEF SwiftCreate
  <2>5. Effect
    BY <2>1, <2>2, <2>3, <2>4, PutEffect
  <2> QED
    BY Zenon, <2>1, <2>2, <2>3, <2>4, <2>5, <1>Success

\* The subscriber of i is sent its URL, the request ends.
<1>Notified.
  ASSUME NEW i \in Ids, sub[i] # NoSub, Notified(a, i),
         UNCHANGED <<store, queues, sub, ids, lock, fresh>>,
         \/ call[a].pc = "with"
         \/ call[a].pc = "get" /\ sub[i].s = call[a].s
  PROVE  Fits(a)
  <2> USE <1>Notified
  <2>1. PICK c \in Call : c = call[a]
    BY Zenon, IInvCall
  <2>2. Effect
    BY Zenon, SameEffect, IInvTypes DEF Notified, send_confirm_notification
  <2>3. RequireConfirmation => i \in asked'
    BY Zenon DEF Notified, send_confirm_notification
  <2> DEFINE r == [c EXCEPT !.i = i, !.pc = "done"]
  <2>4. call' = [call EXCEPT ![a] = r]
    BY Zenon, <2>1 DEF Notified
  <2>5. r \in Call
    BY ZenonT(30) DEF Call
  <2>6. /\ r.op = c.op /\ r.pc = "done" /\ r.s = c.s /\ r.i = i /\ r.u = c.u
        /\ r.data = c.data /\ r.page = c.page
    BY DEF Call
  <2> HIDE DEF r
  <2>7. Args(c)' /\ i # 0 /\ i \notin fresh
    BY Zenon, <2>1, <2>2, ArgsKept, IInvCall, IdsAreNumbers, IInvStore DEF Unused
  <2>8. c.pc = "with" \/ (c.pc = "get" /\ sub[i].s = c.s)
    BY Zenon, <2>1
  <2>9. Args(r)' /\ r.op # "walk"
    BY Zenon, <2>3, <2>6, <2>7, <2>8 DEF Args
  <2> QED
    BY <2>1, <2>2, <2>4, <2>5, <2>6, <2>9, OnFits, Zenon

<1>GetCreated. ASSUME GetCreated(a) PROVE Fits(a)
  <2> USE <1>GetCreated
  <2>1. call[a].pc = "get" /\ UNCHANGED <<store, queues, sub, ids, lock, fresh>>
    BY Zenon DEF GetCreated
  <2>2. CASE Reply(a) /\ UNCHANGED asked
    <3>1. Effect
      BY Zenon, <2>1, <2>2, NoEffect DEF Stored
    <3> QED
      BY Zenon, <2>2, <3>1, ReplyFits
  <2>3. CASE Readable(call[a].s, call[a].i) /\ Notified(a, call[a].i)
    <3>1. call[a].i \in Ids
      BY <2>1, IInvCall DEF Args, Call
    <3>2. PICK i \in Ids : i = call[a].i
      BY Zenon, <3>1
    <3>3. sub[i] # NoSub /\ sub[i].s = call[a].s /\ Notified(a, i)
      BY Zenon, <2>3, <3>2 DEF Readable
    <3> QED
      BY ZenonT(30), <2>1, <3>3, <1>Notified
  <2> QED
    BY Zenon, <2>2, <2>3 DEF GetCreated

<1>Resend. ASSUME Resend(a) PROVE Fits(a)
  <2> USE <1>Resend
  <2>1. call[a].pc = "with" /\ UNCHANGED <<store, queues, sub, ids, lock, fresh>>
    BY DEF Resend
  <2>2. CASE Reply(a) /\ UNCHANGED asked
    <3>1. Effect
      BY <2>1, <2>2, NoEffect, Zenon DEF Stored
    <3> QED
      BY Zenon, <2>2, <3>1, ReplyFits
  <2>3. ASSUME NEW i \in MongoWith(a) \cup RedisWith(a) \cup SwiftWith(a), Notified(a, i)
        PROVE  Fits(a)
    <3>1. call[a].s \in Sources
      BY Zenon, <2>1, IInvCall DEF Args
    <3>2. i \in Ids /\ sub[i] # NoSub
      BY Zenon, <3>1, IInvTypes DEF MongoWith, RedisWith, SwiftWith, Least, Readable
    <3> QED
      BY <2>1, <2>3, <3>2, <1>Notified, ZenonT(30)
  <2>4. store \in {"mongodb", "redis", "swift"}
    BY IInvTypes, SubscriptionsAssumption, ZenonT(30)
  <2> QED
    BY Zenon, <2>2, <2>3, <2>4 DEF Resend

<1> QED
  BY <1>MongoCreate, <1>RedisScan, <1>Dup, <1>RedisCreate, <1>SwiftLock, <1>SwiftCreate,
     <1>GetCreated, <1>Resend, Zenon DEF Create

-------------------------------------------------------------------------------
(* Update.                                                                      *)

LEMMA UpdateFits ==
  ASSUME IInv, NEW a \in Callers, Update(a)
  PROVE  Fits(a)

<1>Stop. ASSUME Effect, Stop(a), call[a].pc \in {"update", "write", "dup", "put"} PROVE Fits(a)
  <2> USE <1>Stop
  <2>1. PICK c \in Call : c = call[a]
    BY Zenon, IInvCall
  <2>2. CASE ~(c.op = "confirm" /\ ~c.c)
    BY <2>1, <2>2, ReplyFits, Zenon DEF Stop, Reply
  <2>3. CASE c.op = "confirm" /\ ~c.c
    <3> DEFINE r == [c EXCEPT !.pc = "bye"]
    <3>1. call' = [call EXCEPT ![a] = r]
      BY Zenon, <2>1, <2>3 DEF Stop
    <3>2. r \in Call
      BY Zenon DEF Call
    <3>3. /\ r.op = c.op /\ r.pc = "bye" /\ r.s = c.s /\ r.i = c.i /\ r.u = c.u
          /\ r.data = c.data /\ r.page = c.page
      BY DEF Call
    <3> HIDE DEF r
    <3>4. Args(c)'
      BY Zenon, <2>1, ArgsKept, IInvCall
    <3>5. c.pc \in {"update", "write", "dup", "put"}
      BY Zenon, <2>1
    <3>6. Args(r)' /\ r.op # "walk"
      BY Zenon, <2>3, <3>3, <3>4, <3>5 DEF Args
    <3> QED
      BY <2>1, <3>1, <3>2, <3>3, <3>6, OnFits, Zenon
  <2> QED
    BY Zenon, <2>2, <2>3

\* The fields a request sets leave the subscription in its queue.
<1>SetType.
  ASSUME call[a].op \in {"patch", "confirm"}, NEW r \in Subscription
  PROVE  Set(a, r) \in Subscription /\ Set(a, r).s = r.s
  <2> USE <1>SetType
  <2>1. call[a].c \in BOOLEAN /\ (call[a].op = "patch" => call[a].u \in Supported \cup {None})
    BY IInvCall DEF Args, Call
  <2> QED
    BY ZenonT(30), <2>1 DEF Set, Subscription

<1>MongoUpdate. ASSUME MongoUpdate(a) PROVE Fits(a)
  <2> USE <1>MongoUpdate
  <2>1. /\ store = "mongodb" /\ call[a].pc = "update" /\ call[a].op \in {"patch", "confirm"}
        /\ UNCHANGED <<store, queues, ids, lock, fresh, asked>>
    BY IInvCall, Zenon DEF MongoUpdate, At, Args
  <2>2. PICK i \in Ids : i = call[a].i /\ i \notin fresh
    BY Zenon, <2>1, NamesOne
  <2>3. CASE Reply(a) /\ UNCHANGED sub
    <3>1. Effect
      BY ZenonT(30), <2>1, <2>3, NoEffect DEF Stored
    <3> QED
      BY Zenon, <2>3, <3>1, ReplyFits
  <2>4. CASE sub[i] # NoSub /\ Put(i, Set(a, sub[i])) /\ Stop(a)
    <3>1. sub[i] \in Subscription
      BY ZenonT(30), <2>4, SubFields
    <3>2. PICK r \in Subscription : r = Set(a, sub[i]) /\ r.s = sub[i].s
      BY <2>1, <3>1, <1>SetType
    <3>3. Put(i, r)
      BY Zenon, <2>4, <3>2
    <3>4. Effect
      BY Zenon, <2>1, <2>2, <2>4, <3>2, <3>3, PutEffect
    <3> QED
      BY <2>1, <2>4, <3>4, <1>Stop
  <2> QED
    BY <2>2, <2>3, <2>4 DEF MongoUpdate

<1>RedisUpdate. ASSUME RedisUpdate(a) PROVE Fits(a)
  <2> USE <1>RedisUpdate
  <2>1. PICK c \in Call : c = call[a]
    BY Zenon, IInvCall
  <2>2. /\ c.pc = "update" /\ Args(c) /\ c.s \in Sources /\ c.op \in {"patch", "confirm"}
    BY Zenon, <2>1, IInvCall DEF RedisUpdate, At, Args
  <2>3. Effect
    BY Zenon, NoEffect DEF RedisUpdate
  <2>4. CASE Reply(a)
    BY Zenon, <2>3, <2>4, ReplyFits
  <2>5. CASE Go(a, "write")
    BY Zenon, <2>1, <2>2, <2>3, <2>5, GoFits
  <2>6. PICK page \in SUBSET Ids : page = ids[c.s]
    BY ZenonT(30), <2>2, IInvTypes
  <2> DEFINE r == [c EXCEPT !.pc = "dup", !.page = page]
  <2>7. CASE c.op = "patch" /\ call' = [call EXCEPT ![a] = r]
    <3>1. call' = [call EXCEPT ![a] = r]
      BY Zenon, <2>7
    <3>2. r \in Call
      BY Zenon DEF Call
    <3>3. r.op = c.op /\ r.pc = "dup" /\ r.s = c.s /\ r.i = c.i /\ r.u = c.u
      BY DEF Call
    <3> HIDE DEF r
    <3>4. Args(c)'
      BY Zenon, <2>1, <2>3, ArgsKept, IInvCall
    <3>5. Args(r)' /\ r.op # "walk"
      BY <2>2, <2>7, <3>3, <3>4, Zenon DEF Args
    <3> QED
      BY <2>1, <2>3, <3>1, <3>2, <3>3, <3>5, OnFits, Zenon
  <2> QED
    BY ZenonT(30), <2>1, <2>4, <2>5, <2>6, <2>7 DEF RedisUpdate

<1>RedisWrite. ASSUME RedisWrite(a) PROVE Fits(a)
  <2> USE <1>RedisWrite
  <2>1. /\ store = "redis" /\ call[a].pc \in {"write", "dup"} /\ Stop(a)
        /\ call[a].pc = "write" \/ call[a].op = "patch"
        /\ UNCHANGED <<store, queues, ids, lock, fresh, asked>>
    BY DEF RedisWrite
  <2>2. call[a].op \in {"patch", "confirm"}
    BY <2>1, IInvCall, Zenon DEF Args
  <2>3. PICK i \in Ids : i = call[a].i /\ i \notin fresh
    BY <2>1, NamesOne
  <2>4. PICK r \in IF sub[i] = NoSub THEN Lone(a) ELSE {sub[i]} : Put(i, Set(a, r))
    BY <2>3, Zenon DEF RedisWrite
  <2>5. r \in Subscription /\ (sub[i] = NoSub => r.s = None) /\ (sub[i] # NoSub => r.s = sub[i].s)
    <3>1. CASE sub[i] = NoSub
      BY <2>4, <3>1, Zenon DEF Lone, Subscription
    <3>2. CASE sub[i] # NoSub
      BY Zenon, <2>4, <3>2, SubFields
    <3> QED
      BY <3>1, <3>2
  <2>6. PICK q \in Subscription : q = Set(a, r) /\ q.s = r.s
    BY <2>2, <2>5, <1>SetType
  <2>7. Put(i, q)
    BY Zenon, <2>4, <2>6
  <2>8. Effect
    BY Zenon, <2>1, <2>3, <2>5, <2>6, <2>7, PutEffect
  <2> QED
    BY <2>1, <2>8, <1>Stop, Zenon

<1>Bye. ASSUME Bye(a) PROVE Fits(a)
  <2> USE <1>Bye
  <2>1. call[a].i \in Ids
    BY Zenon, NamesOne DEF Bye
  <2>2. asked \subseteq asked' /\ asked' \subseteq Ids
    BY Zenon, <2>1, IInvTypes DEF Bye, send_confirm_notification
  <2>3. Effect
    BY Zenon, <2>2, SameEffect, IInvTypes DEF Bye
  <2> QED
    BY Zenon, <2>3, ReplyFits DEF Bye

<1>SwiftUpdate. ASSUME SwiftUpdate(a) PROVE Fits(a)
  <2> USE <1>SwiftUpdate
  <2>1. PICK c \in Call : c = call[a]
    BY Zenon, IInvCall
  <2>2. c.pc = "update" /\ Args(c) /\ c.op \in {"patch", "confirm"}
    BY Zenon, <2>1, IInvCall DEF SwiftUpdate, At, Args
  <2>3. Effect
    BY Zenon, NoEffect DEF SwiftUpdate
  <2>4. CASE Reply(a)
    BY <2>3, <2>4, ReplyFits
  <2>5. CASE Readable(c.s, c.i)
    <3>1. c.i \in Ids
      BY <2>1, <2>2, NamesOne
    <3>2. PICK d \in Subscription : d = sub[c.i]
      BY <2>5, <3>1, SubFields DEF Readable
    <3>3. PICK pc \in {"relock", "put"} :
            /\ pc = IF c.op = "patch" /\ c.u # None THEN "relock" ELSE "put"
      OBVIOUS
    <3> DEFINE r == [c EXCEPT !.data = d, !.pc = pc]
    <3>4. call' = [call EXCEPT ![a] = r]
      BY <2>1, <2>5, <3>2, <3>3 DEF SwiftUpdate
    <3>5. r \in Call
      BY Zenon DEF Call
    <3>6. /\ r.op = c.op /\ r.pc = pc /\ r.s = c.s /\ r.i = c.i /\ r.u = c.u
          /\ r.data = d /\ r.page = c.page
      BY DEF Call
    <3> HIDE DEF r
    <3>7. Args(c)'
      BY <2>1, <2>3, ArgsKept, IInvCall
    <3>8. Args(r)' /\ r.op # "walk"
      BY <2>2, <3>6, <3>7, ZenonT(30) DEF Args
    <3> QED
      BY <2>1, <2>3, <3>4, <3>5, <3>6, <3>8, OnFits, ZenonT(30)
  <2> QED
    BY Zenon, <2>1, <2>4, <2>5 DEF SwiftUpdate

<1>SwiftRelock. ASSUME SwiftRelock(a) PROVE Fits(a)
  <2> USE <1>SwiftRelock
  <2>1. /\ call[a].pc = "relock" /\ call[a].s \in Sources
        /\ UNCHANGED <<store, queues, sub, ids, fresh, asked>>
    BY IInvCall, Zenon DEF SwiftRelock, At, Args
  <2>2. CASE Reply(a) /\ UNCHANGED lock
    <3>1. Effect
      BY Zenon, <2>1, <2>2, NoEffect DEF Stored
    <3> QED
      BY Zenon, <2>2, <3>1, ReplyFits
  <2>3. CASE Go(a, "unlock") /\ lock' = [lock EXCEPT ![call[a].s][call[a].u] = call[a].i]
    <3>1. lock' \in [Sources -> [Subscribers -> Ids \cup {None}]]
      BY <2>1, <2>3, LockType, NamesOne, Zenon
    <3>2. Effect
      BY <2>1, <3>1, SameEffect, IInvTypes, ZenonT(30)
    <3> QED
      BY Zenon, <2>1, <2>3, <3>2, GoFits
  <2> QED
    BY <2>2, <2>3 DEF SwiftRelock

<1>SwiftUnlock. ASSUME SwiftUnlock(a) PROVE Fits(a)
  <2> USE <1>SwiftUnlock
  <2>1. /\ call[a].pc = "unlock" /\ call[a].s \in Sources
        /\ UNCHANGED <<store, queues, sub, ids, fresh, asked>>
    BY IInvCall, Zenon DEF SwiftUnlock, At, Args
  <2>2. lock' \in [Sources -> [Subscribers -> Ids \cup {None}]]
    BY <2>1, LockType, Zenon DEF SwiftUnlock, Unlock
  <2>3. Effect
    BY <2>1, <2>2, SameEffect, IInvTypes
  <2>4. CASE Reply(a)
    BY Zenon, <2>3, <2>4, ReplyFits
  <2>5. CASE Go(a, "put")
    BY Zenon, <2>1, <2>3, <2>5, GoFits
  <2> QED
    BY <2>4, <2>5 DEF SwiftUnlock

<1>SwiftWrite. ASSUME SwiftWrite(a) PROVE Fits(a)
  <2> USE <1>SwiftWrite
  <2>1. /\ store = "swift" /\ call[a].pc = "put" /\ call[a].op \in {"patch", "confirm"}
        /\ Stop(a) /\ UNCHANGED <<store, queues, ids, lock, fresh, asked>>
    BY Zenon DEF SwiftWrite, At
  <2>2. PICK i \in Ids : i = call[a].i /\ i \notin fresh
    BY <2>1, NamesOne
  <2>3. PICK d \in Subscription : d = call[a].data
    BY <2>1, IInvCall, Zenon DEF Args
  <2>4. PICK r \in Subscription :
          r = IF call[a].op = "confirm" THEN [d EXCEPT !.c = TRUE] ELSE Set(a, d)
    <3>1. [d EXCEPT !.c = TRUE] \in Subscription
      BY Zenon DEF Subscription
    <3> QED
      BY <2>1, <3>1, <1>SetType
  <2>5. Put(i, r)
    BY ZenonT(30), <2>2, <2>3, <2>4 DEF SwiftWrite
  <2>6. Effect
    BY <2>1, <2>2, <2>5, PutEffect
  <2> QED
    BY Zenon, <2>1, <2>6, <1>Stop

<1> QED
  BY <1>MongoUpdate, <1>RedisUpdate, <1>RedisWrite, <1>Bye, <1>SwiftUpdate, <1>SwiftRelock,
     <1>SwiftUnlock, <1>SwiftWrite, ZenonT(30) DEF Update

-------------------------------------------------------------------------------
(* Deletion, failure and expiry.                                                *)

LEMMA DeleteFits ==
  ASSUME IInv, NEW a \in Callers, Delete(a)
  PROVE  Fits(a)

<1>Onward. ASSUME Effect, Onward(a), call[a].pc \in {"delete", "remove"} PROVE Fits(a)
  <2> USE <1>Onward
  <2>1. PICK c \in Call : c = call[a]
    BY Zenon, IInvCall
  <2>2. CASE Reply(a)
    BY Zenon, <2>2, ReplyFits
  <2>3. ASSUME NEW i \in Least(c.page),
               call' = [call EXCEPT ![a] = [@ EXCEPT !.pc = "delete", !.data = NoSub, !.i = i,
                                                     !.page = call[a].page \ {i}]]
        PROVE  Fits(a)
    <3>1. i \in c.page /\ i \in Ids /\ c.page \ {i} \in SUBSET Ids
      BY DEF Least, Call
    <3>2. Args(c)' /\ c.pc \in {"delete", "remove"} /\ i # 0
      BY Zenon, <2>1, <3>1, ArgsKept, IInvCall, IdsAreNumbers
    <3> DEFINE r == [c EXCEPT !.pc = "delete", !.data = NoSub, !.i = i, !.page = c.page \ {i}]
    <3>3. call' = [call EXCEPT ![a] = r]
      BY Zenon, <2>1, <2>3
    <3>4. r \in Call
      BY <3>1, Zenon DEF Call
    <3>5. /\ r.op = c.op /\ r.pc = "delete" /\ r.s = c.s /\ r.i = i
          /\ r.page = c.page \ {i}
      BY DEF Call
    <3> HIDE DEF r
    <3>6. c.op = "purge" /\ i \notin fresh'
      BY Zenon, <3>1, <3>2 DEF Args
    <3>7. Args(r)' /\ r.op # "walk"
      BY Zenon, <3>2, <3>5, <3>6 DEF Args
    <3> QED
      BY <2>1, <3>3, <3>4, <3>5, <3>7, OnFits, Zenon
  <2> QED
    BY <2>1, <2>2, <2>3, Zenon DEF Onward

<1>PurgeList. ASSUME PurgeList(a) PROVE Fits(a)
  <2> USE <1>PurgeList
  <2>1. PICK c \in Call : c = call[a]
    BY Zenon, IInvCall
  <2>2. c.pc = "list" /\ Args(c) /\ c.op = "purge"
    BY <2>1, IInvCall, Zenon DEF PurgeList, Args
  <2>3. Effect
    BY NoEffect, Zenon DEF PurgeList
  <2>4. CASE Reply(a)
    BY <2>3, <2>4, ReplyFits
  <2>5. ASSUME NEW page, NEW i \in Least(page \cap {j \in Ids : Readable(c.s, j)}),
               call' = [call EXCEPT ![a] =
                         [@ EXCEPT !.pc = "delete", !.i = i,
                                   !.page = (page \cap {j \in Ids : Readable(c.s, j)}) \ {i}]]
        PROVE  Fits(a)
    <3>1. PICK rest \in SUBSET Ids : rest = (page \cap {j \in Ids : Readable(c.s, j)}) \ {i}
      BY Zenon
    <3>2. i \in Ids /\ i # 0 /\ i \notin fresh /\ rest \cap fresh = {}
      BY <3>1, IdsAreNumbers, IInvStore DEF Least, Readable, Unused
    <3>3. Args(c)' /\ fresh' \subseteq fresh
      BY <2>1, <2>3, ArgsKept, IInvCall, Zenon DEF Effect
    <3> DEFINE r == [c EXCEPT !.pc = "delete", !.i = i, !.page = rest]
    <3>4. call' = [call EXCEPT ![a] = r]
      BY <2>1, <2>5, <3>1
    <3>5. r \in Call
      BY <3>2, Zenon DEF Call
    <3>6. r.op = c.op /\ r.pc = "delete" /\ r.s = c.s /\ r.i = i /\ r.page = rest
      BY Zenon DEF Call
    <3> HIDE DEF r
    <3>7. Args(r)' /\ r.op # "walk"
      BY <2>2, <3>2, <3>3, <3>6, Zenon DEF Args
    <3> QED
      BY <2>1, <2>3, <3>4, <3>5, <3>6, <3>7, OnFits, Zenon
  <2> QED
    BY <2>1, <2>4, <2>5, Zenon DEF PurgeList

<1>MongoDelete. ASSUME MongoDelete(a) PROVE Fits(a)
  <2> USE <1>MongoDelete
  <2>1. /\ call[a].pc = "delete" /\ store = "mongodb"
        /\ UNCHANGED <<store, queues, ids, lock, fresh, asked>> /\ Onward(a)
    BY Zenon DEF MongoDelete, At
  <2>2. PICK i \in Ids : i = call[a].i /\ i \notin fresh
    BY Zenon, <2>1, NamesOne
  <2>3. Put(i, NoSub) \/ UNCHANGED sub
    BY Zenon, <2>2 DEF MongoDelete
  <2>4. CASE Put(i, NoSub)
    <3>1. Effect
      BY Zenon, <2>1, <2>2, <2>4, PutEffect
    <3> QED
      BY Zenon, <2>1, <3>1, <1>Onward
  <2>5. CASE UNCHANGED sub
    <3>1. Effect
      BY Zenon, <2>1, <2>5, NoEffect DEF Stored
    <3> QED
      BY <2>1, <3>1, <1>Onward
  <2> QED
    BY <2>3, <2>4, <2>5

<1>RedisDelete. ASSUME RedisDelete(a) PROVE Fits(a)
  <2> USE <1>RedisDelete
  <2>1. /\ call[a].pc = "delete" /\ UNCHANGED <<store, queues, lock, fresh, asked>> /\ Onward(a)
    BY DEF RedisDelete, At
  <2>2. PICK i \in Ids, s \in Sources : i = call[a].i /\ s = call[a].s
    BY <2>1, NamesOne, IInvCall, Zenon DEF Args
  <2>3. \/ sub' = [sub EXCEPT ![i] = NoSub] /\ ids' = [ids EXCEPT ![s] = @ \ {i}]
        \/ UNCHANGED <<sub, ids>>
    BY Zenon, <2>2 DEF RedisDelete, Put
  <2>4. Effect
    BY Zenon, <2>1, <2>3, RemoveEffect, NoEffect DEF Stored
  <2> QED
    BY Zenon, <2>1, <2>4, <1>Onward

<1>SwiftDelete. ASSUME SwiftDelete(a) PROVE Fits(a)
  <2> USE <1>SwiftDelete
  <2>1. PICK c \in Call : c = call[a]
    BY Zenon, IInvCall
  <2>2. c.pc = "delete" /\ Args(c) /\ c.op \in {"delete", "purge"}
    BY Zenon, <2>1, IInvCall DEF SwiftDelete, At, Args
  <2>3. Effect
    BY Zenon, NoEffect DEF SwiftDelete
  <2>4. CASE Onward(a)
    BY <2>1, <2>2, <2>3, <2>4, <1>Onward
  <2>5. CASE Readable(c.s, c.i)
    <3>1. c.i \in Ids
      BY Zenon, <2>1, <2>2, NamesOne
    <3>2. PICK d \in Subscription : d = sub[c.i]
      BY Zenon, <2>5, <3>1, SubFields DEF Readable
    <3> DEFINE r == [c EXCEPT !.pc = "free", !.data = d]
    <3>3. call' = [call EXCEPT ![a] = r]
      BY <2>1, <2>5, <3>2 DEF SwiftDelete
    <3>4. r \in Call
      BY Zenon DEF Call
    <3>5. r.op = c.op /\ r.pc = "free" /\ r.s = c.s /\ r.i = c.i /\ r.page = c.page
      BY DEF Call
    <3> HIDE DEF r
    <3>6. Args(c)'
      BY Zenon, <2>1, <2>3, ArgsKept, IInvCall
    <3>7. Args(r)' /\ r.op # "walk"
      BY <2>2, <3>5, <3>6, Zenon DEF Args
    <3> QED
      BY <2>1, <2>3, <3>3, <3>4, <3>5, <3>7, OnFits, ZenonT(30)
  <2> QED
    BY Zenon, <2>1, <2>4, <2>5 DEF SwiftDelete

<1>SwiftFree. ASSUME SwiftFree(a) PROVE Fits(a)
  <2> USE <1>SwiftFree
  <2>1. /\ call[a].pc = "free" /\ call[a].s \in Sources
        /\ UNCHANGED <<store, queues, sub, ids, fresh, asked>>
    BY IInvCall, Zenon DEF SwiftFree, At, Args
  <2>2. lock' \in [Sources -> [Subscribers -> Ids \cup {None}]]
    BY <2>1, LockType, Zenon DEF SwiftFree, Unlock
  <2>3. Effect
    BY <2>1, <2>2, SameEffect, IInvTypes
  <2> QED
    BY Zenon, <2>1, <2>3, GoFits DEF SwiftFree

<1>SwiftRemove. ASSUME SwiftRemove(a) PROVE Fits(a)
  <2> USE <1>SwiftRemove
  <2>1. /\ store = "swift" /\ call[a].pc = "remove" /\ Onward(a)
        /\ UNCHANGED <<store, queues, ids, lock, fresh, asked>>
    BY DEF SwiftRemove, At
  <2>2. PICK i \in Ids : i = call[a].i /\ i \notin fresh
    BY Zenon, <2>1, NamesOne
  <2>3. Put(i, NoSub)
    BY Zenon, <2>2 DEF SwiftRemove
  <2>4. Effect
    BY <2>1, <2>2, <2>3, PutEffect
  <2> QED
    BY <2>1, <2>4, <1>Onward

<1> QED
  BY <1>PurgeList, <1>MongoDelete, <1>RedisDelete, <1>SwiftDelete, <1>SwiftFree,
     <1>SwiftRemove, Zenon DEF Delete

LEMMA EndFits ==
  ASSUME IInv, NEW a \in Callers, Fail(a) \/ Finish(a)
  PROVE  Fits(a)
<1>1. Reply(a) /\ UNCHANGED <<store, queues, Stored>>
  BY DEF Fail, Finish
<1> QED
  BY <1>1, NoEffect, ReplyFits

LEMMA EnvironmentEffect ==
  ASSUME IInv, Environment
  PROVE  Effect /\ UNCHANGED call
<1>1. ASSUME NEW i \in Ids, Expire(i) PROVE Effect /\ UNCHANGED call
  <2>1. i \notin fresh
    BY Zenon, <1>1, IInvStore DEF Expire, Unused
  <2> QED
    BY Zenon, <1>1, <2>1, PutEffect DEF Expire
<1>2. ASSUME NEW s \in Sources, NEW u \in Subscribers, ExpireLock(s, u)
      PROVE  Effect /\ UNCHANGED call
  <2>1. lock' \in [Sources -> [Subscribers -> Ids \cup {None}]]
    BY <1>2, LockType, Zenon DEF ExpireLock, Unlock
  <2> QED
    BY <1>2, <2>1, SameEffect, IInvTypes DEF ExpireLock
<1> QED
  BY Zenon, <1>1, <1>2 DEF Environment

-------------------------------------------------------------------------------
(* The notifier's walk.                                                         *)

LEMMA MarkerIsNumber ==
  ASSUME NEW c \in Call
  PROVE  c.marker \in Nat
<1>1. c.marker \in Ids \cup {0}
  BY DEF Call
<1> QED
  BY <1>1, IdsAreNumbers

\* A walk may owe less.
LEMMA WalkingFewer ==
  ASSUME NEW c, NEW S, NEW T, T \subseteq S, Walking(c, S)
  PROVE  Walking(c, T)
<1>1. \A i : i \in T => i \in S
  OBVIOUS
<1>2. T # {} => S # {}
  OBVIOUS
<1> QED
  BY <1>1, <1>2, Zenon DEF Walking

LEMMA EmptySize == Cardinality({}) = 0
<1> DEFINE size == [T \in SUBSET {} |-> 0]
           Sizes(f) == f = [T \in SUBSET {} |->
                              IF T = {} THEN 0 ELSE 1 + f[T \ {CHOOSE x : x \in T}]]
<1>1. Sizes(size)
  OBVIOUS
<1>2. Sizes(CHOOSE f : Sizes(f))
  BY <1>1, Zenon
<1>3. (CHOOSE f : Sizes(f))[{}] = 0
  BY <1>2, Zenon
<1> QED
  BY <1>3, Zenon DEF Cardinality

LEMMA EmptyPage ==
  ASSUME NEW S, NEW page \in Pages(S), page = {}
  PROVE  S = {}
BY Zenon, EmptySize, SubscriptionsAssumption DEF Pages

LEMMA TellType ==
  ASSUME NEW m \in Call, NEW i \in Ids
  PROVE  \E r \in Call :
            /\ r = Tell(m, i)
            /\ r.op = m.op /\ r.pc = m.pc /\ r.s = m.s /\ r.i = m.i /\ r.page = m.page
            /\ r.marker = m.marker /\ r.got = m.got \cup {i}
            /\ r.twice = IF i \in m.got THEN m.twice \cup {i} ELSE m.twice
<1> DEFINE got == m.got \cup {i}
           twice == IF i \in m.got THEN m.twice \cup {i} ELSE m.twice
           r == [m EXCEPT !.got = got, !.twice = twice]
<1>1. got \in SUBSET Ids /\ twice \in SUBSET Ids
  BY DEF Call
<1>2. Tell(m, i) = r
  BY Zenon DEF Tell
<1> HIDE DEF got, twice
<1>3. r \in Call
  BY <1>1, Zenon DEF Call
<1>4. /\ r.op = m.op /\ r.pc = m.pc /\ r.s = m.s /\ r.i = m.i /\ r.page = m.page
      /\ r.marker = m.marker /\ r.got = got /\ r.twice = twice
  BY DEF Call
<1> HIDE DEF r
<1> QED
  BY <1>2, <1>3, <1>4 DEF got, twice

-------------------------------------------------------------------------------
(* The steps together.                                                          *)

LEMMA WalkInv ==
  ASSUME IInv, NEW a \in Callers, Walk(a), Walks
  PROVE  IInv' /\ Effect /\ Others({a})

\* A step of a walk leaves the store alone.
<1>WalkStep.
  ASSUME UNCHANGED <<store, queues, Stored>>,
         NEW c \in Call, c = call[a], c.op = "walk",
         NEW r \in Call, call' = [call EXCEPT ![a] = r], r.op = "walk", r.pc \in {"page", "item"},
         r.s = c.s, r.i = c.i, Walking(r, steady[a])
  PROVE  IInv'
  <2> USE <1>WalkStep
  <2>1. Effect
    BY Zenon, NoEffect
  <2>2. Args(c)
    BY Zenon, IInvCall
  <2>3. c.pc # "idle" /\ fresh' = fresh
    BY Zenon, <2>2 DEF Args, Stored
  <2>4. Args(r)'
    BY Zenon, <2>2, <2>3 DEF Args
  <2>5. call'[a].op = "walk" /\ call[a].op = "walk"
    BY Zenon, IInvTypes
  <2>6. steady'[a] \subseteq steady[a]
    BY Zenon, <2>5 DEF Walks, Owed
  <2>7. PICK T : T = steady'[a] /\ Walking(r, T)
    BY <2>6, WalkingFewer
  <2>8. Walking(r, T)'
    BY <2>7, Zenon DEF Walking, Readable, Willing, Stored
  <2>9. Walking(r, steady[a])'
    BY <2>7, <2>8, Zenon
  <2> QED
    BY <2>1, <2>4, <2>9, StepInv, Zenon

<1>WalkFacts.
  ASSUME call[a].pc \in {"page", "item"}
  PROVE  /\ call[a].op = "walk" /\ call[a].s \in Sources
         /\ Walking(call[a], steady[a]) /\ steady[a] \subseteq Ids
  <2> USE <1>WalkFacts
  <2>1. call[a].op = "walk" /\ call[a].s \in Sources
    BY Zenon, IInvCall DEF Args
  <2> QED
    BY <2>1, IInvTypes, Zenon DEF IInv

<1>MongoPage. ASSUME MongoPage(a) PROVE IInv'
  <2> USE <1>MongoPage
  <2>1. PICK c \in Call : c = call[a]
    BY Zenon, IInvCall
  <2>2. /\ store = "mongodb" /\ c.pc = "page" /\ c.op = "walk"
        /\ UNCHANGED <<store, queues, Stored>>
    BY <2>1, <1>WalkFacts DEF MongoPage, At
  <2>3. PICK S \in SUBSET Ids : S = steady[a] /\ Walking(c, S)
    BY <2>1, <2>2, <1>WalkFacts
  <2>4. PICK rest \in SUBSET Ids : rest = {i \in Ids : i > c.marker /\ Readable(c.s, i)}
    BY Zenon
  <2>0. PICK page \in Pages(rest) : \E last \in IF page = {} THEN {0} ELSE Greatest(page) :
          call' = [call EXCEPT ![a] = [@ EXCEPT !.pc = "item", !.marker = last,
                                                !.page = {i \in page : Willing(i)}]]
    BY <2>1, <2>4, Zenon DEF MongoPage
  <2>5. PICK last \in IF page = {} THEN {0} ELSE Greatest(page) :
          call' = [call EXCEPT ![a] = [@ EXCEPT !.pc = "item", !.marker = last,
                                                !.page = {i \in page : Willing(i)}]]
    BY <2>0, Zenon
  <2>6. page \subseteq rest /\ \A i \in page, j \in rest \ page : i < j
    BY Zenon DEF Pages
  <2>7. \/ page = {} /\ last = 0
        \/ last \in page /\ \A j \in page : j =< last
    BY DEF Greatest
  <2>8. PICK willing \in SUBSET Ids : willing = {i \in page : Willing(i)}
    BY <2>6, Zenon
  <2>9. last \in Ids \cup {0}
    BY Zenon, <2>6, <2>7
  <2> DEFINE r == [c EXCEPT !.pc = "item", !.marker = last, !.page = willing]
  <2>10. call' = [call EXCEPT ![a] = r]
    BY Zenon, <2>1, <2>5, <2>8
  <2>11. r \in Call
    BY <2>9, Zenon DEF Call
  <2>12. /\ r.op = c.op /\ r.pc = "item" /\ r.s = c.s /\ r.i = c.i /\ r.page = willing
         /\ r.marker = last /\ r.got = c.got /\ r.twice = c.twice
    BY DEF Call
  <2> HIDE DEF r
  <2>13. c.marker \in Nat /\ last \in Nat /\ \A i \in Ids : i \in Nat /\ i # 0
    BY <2>9, IdsAreNumbers, MarkerIsNumber
  <2>14. \A j \in page : j \in Ids /\ c.marker < j
    BY Zenon, <2>4, <2>6
  <2>15. \A i \in S : Readable(c.s, i) /\ Willing(i) /\ i \notin c.twice
    BY Zenon, <2>3 DEF Walking
  <2>16. \A g \in S \cap c.got : g =< c.marker
    BY <2>2, <2>3, Zenon DEF Walking
  <2>17. \A g \in S \cap c.got : (\A j \in willing : g < j) /\ (last # 0 => g =< last)
    BY SMTT(30), <2>7, <2>8, <2>13, <2>14, <2>16
  <2>18. ASSUME NEW i \in S, i \notin c.got, i \notin willing
         PROVE  last < i /\ (\A j \in willing : j < i) /\ (willing # {} \/ last # 0)
    <3>1. i \in rest
      BY ZenonT(30), <2>2, <2>3, <2>4, <2>13, <2>15, <2>18 DEF Walking
    <3>2. i \notin page
      BY Zenon, <2>8, <2>15, <2>18
    <3>3. page # {}
      BY Zenon, <3>1, EmptyPage
    <3>4. last \in page /\ last # 0
      BY Zenon, <2>7, <2>13, <2>14, <3>3
    <3> QED
      BY Zenon, <2>6, <2>8, <3>1, <3>2, <3>4
  <2>19. \A j \in willing : j =< last
    BY Zenon, <2>7, <2>8
  <2>20. Walking(r, S)
    BY ZenonT(30), <2>2, <2>12, <2>15, <2>17, <2>18, <2>19 DEF Walking
  <2> QED
    BY <2>1, <2>2, <2>3, <2>10, <2>11, <2>12, <2>20, <1>WalkStep, ZenonT(30)

\* A page of Redis or Swift: the rest has what is owed beyond the marker.
<1>Visit.
  ASSUME call[a].pc = "page", store # "mongodb",
         UNCHANGED <<store, queues, Stored>>, NEW rest \in SUBSET Ids, Visit(a, rest),
         steady[a] # {} =>
            /\ \A j \in rest : call[a].marker < j
            /\ \A i \in steady[a] : call[a].marker < i => i \in rest
            /\ store = "redis" => rest \subseteq ids[call[a].s]
  PROVE  IInv'
  <2> USE <1>Visit
  <2>1. PICK c \in Call : c = call[a]
    BY Zenon, IInvCall
  <2>2. c.pc = "page" /\ c.op = "walk"
    BY <2>1, <1>WalkFacts, ZenonT(30)
  <2>3. PICK S \in SUBSET Ids : S = steady[a] /\ Walking(c, S)
    BY <2>1, <2>2, <1>WalkFacts
  <2>4. PICK page \in Pages(rest) :
          call' = [call EXCEPT ![a] = [@ EXCEPT !.pc = "item", !.page = page, !.marker = 0]]
    BY Zenon DEF Visit
  <2>5. page \subseteq rest /\ \A i \in page, j \in rest \ page : i < j
    BY Zenon DEF Pages
  <2>6. page \in SUBSET Ids
    BY Zenon, <2>5
  <2> DEFINE r == [c EXCEPT !.pc = "item", !.page = page, !.marker = 0]
  <2>7. call' = [call EXCEPT ![a] = r]
    BY Zenon, <2>1, <2>4
  <2>8. r \in Call
    BY <2>6, Zenon DEF Call
  <2>9. /\ r.op = c.op /\ r.pc = "item" /\ r.s = c.s /\ r.i = c.i /\ r.page = page
        /\ r.marker = 0 /\ r.got = c.got /\ r.twice = c.twice
    BY DEF Call
  <2> HIDE DEF r
  <2>10. c.marker \in Nat /\ \A i \in Ids : i \in Nat /\ i # 0
    BY IdsAreNumbers DEF Call
  <2>11. \A i \in S : Readable(c.s, i) /\ Willing(i) /\ i \notin c.twice
    BY <2>3, Zenon DEF Walking
  <2>12. \A g \in S \cap c.got : g =< c.marker
    BY <2>2, <2>3, Zenon DEF Walking
  <2>13. \A g \in S \cap c.got : \A j \in page : g < j
    <3> SUFFICES ASSUME NEW g \in S \cap c.got, NEW j \in page PROVE g < j
      BY Zenon
    <3>1. g \in Nat /\ j \in Nat /\ c.marker \in Nat /\ g =< c.marker
      BY Zenon, <2>6, <2>10, <2>12
    <3>2. c.marker < j
      BY Zenon, <2>1, <2>3, <2>5
    <3> QED
      BY <3>1, <3>2
  <2>14. ASSUME NEW i \in S, i \notin c.got, i \notin page
         PROVE  0 < i /\ (\A j \in page : j < i) /\ page # {}
    <3>1. i \in rest
      BY Zenon, <2>1, <2>2, <2>3, <2>14 DEF Walking
    <3>2. page # {}
      BY Zenon, <3>1, EmptyPage
    <3>3. i \in Nat /\ i # 0
      BY Zenon, <2>10
    <3>4. \A j \in page : j < i
      BY Zenon, <2>5, <2>14, <3>1
    <3>5. 0 < i
      BY <3>3
    <3> QED
      BY Zenon, <3>2, <3>4, <3>5
  <2>15. \A j \in page : 0 < j
    BY <2>6, <2>10
  <2>16. store = "redis" /\ S # {} => page \subseteq ids[c.s] /\ \A i \in ids[c.s] : Readable(c.s, i)
    BY <2>1, <2>3, <2>5, ZenonT(30) DEF Walking
  <2>17. Walking(r, S)
    BY Zenon, <2>9, <2>11, <2>13, <2>14, <2>15, <2>16 DEF Walking
  <2> QED
    BY <2>1, <2>2, <2>3, <2>7, <2>8, <2>9, <2>17, <1>WalkStep, ZenonT(30)

<1>RedisPage. ASSUME RedisPage(a) PROVE IInv'
  <2> USE <1>RedisPage
  <2>1. /\ store = "redis" /\ call[a].pc = "page" /\ UNCHANGED <<store, queues, Stored>>
    BY DEF RedisPage, At
  <2>2. /\ call[a].s \in Sources /\ Walking(call[a], steady[a]) /\ steady[a] \subseteq Ids
    BY Zenon, <2>1, <1>WalkFacts
  <2>3. PICK every \in SUBSET Ids : every = ids[call[a].s]
    BY Zenon, <2>2, IInvTypes
  <2> DEFINE rest == IF call[a].marker \in every THEN {i \in every : i > call[a].marker} ELSE every
  <2>4. Visit(a, rest) /\ rest \in SUBSET Ids /\ rest \subseteq every
    BY Zenon, <2>3 DEF RedisPage
  <2>5. ASSUME steady[a] # {}
        PROVE  /\ \A j \in rest : call[a].marker < j
               /\ \A i \in steady[a] : call[a].marker < i => i \in rest
    <3>1. call[a].marker \in every \cup {0}
      BY <2>1, <2>2, <2>3, <2>5, ZenonT(30) DEF Walking
    <3>2. \A j \in rest : call[a].marker < j
      BY SMTT(30), <3>1, IdsAreNumbers
    <3>3. ASSUME NEW i \in steady[a] PROVE i \in every
      <4>1. sub[i] # NoSub /\ sub[i].s = call[a].s /\ i \in Ids
        BY <2>2 DEF Walking, Readable
      <4>2. call[a].s # None
        BY Zenon, <2>2, SubscriptionsAssumption
      <4> QED
        BY ZenonT(30), <2>1, <2>3, <4>1, <4>2, IInvStore DEF Listed
    <3> QED
      BY <3>2, <3>3
  <2> HIDE DEF rest
  <2> QED
    BY <2>1, <2>3, <2>4, <2>5, <1>Visit, ZenonT(30)

<1>SwiftPage. ASSUME SwiftPage(a) PROVE IInv'
  <2> USE <1>SwiftPage
  <2>1. /\ store = "swift" /\ call[a].pc = "page" /\ UNCHANGED <<store, queues, Stored>>
    BY DEF SwiftPage, At
  <2>2. Walking(call[a], steady[a]) /\ steady[a] \subseteq Ids /\ call[a].marker \in Nat
    BY <2>1, <1>WalkFacts, IInvCall, MarkerIsNumber, Zenon
  <2> DEFINE rest == {i \in Ids : i > call[a].marker /\ Readable(call[a].s, i)}
  <2>3. Visit(a, rest) /\ rest \in SUBSET Ids
    BY Zenon DEF SwiftPage
  <2>4. \A j \in rest : call[a].marker < j
    BY Zenon, <2>2, IdsAreNumbers
  <2>5. \A i \in steady[a] : call[a].marker < i => i \in rest
    BY <2>2, IdsAreNumbers, Zenon DEF Walking
  <2> HIDE DEF rest
  <2> QED
    BY ZenonT(30), <2>1, <2>3, <2>4, <2>5, <1>Visit

\* One subscription of the page.
<1>Item. ASSUME Item(a) PROVE IInv'
  <2> USE <1>Item
  <2>1. PICK c \in Call : c = call[a]
    BY Zenon, IInvCall
  <2>2. c.pc = "item" /\ c.op = "walk" /\ UNCHANGED <<store, queues, Stored>>
    BY <2>1, <1>WalkFacts DEF Item
  <2>3. PICK S \in SUBSET Ids : S = steady[a] /\ Walking(c, S)
    BY <2>1, <2>2, <1>WalkFacts
  <2> DEFINE here(i) == store = "mongodb" \/ Readable(c.s, i)
             moved(i) == [c EXCEPT !.page = c.page \ {i},
                                   !.marker = IF store = "swift" \/ (store = "redis" /\ here(i))
                                              THEN i ELSE c.marker]
  <2>4. PICK i \in Least(c.page) :
          call' = [call EXCEPT ![a] =
                     IF here(i) /\ (store # "mongodb" => Willing(i)) THEN Tell(moved(i), i)
                     ELSE moved(i)]
    BY <2>1, Zenon DEF Item
  <2>5. i \in c.page /\ i \in Ids /\ \A j \in c.page : i =< j /\ j \in Ids
    BY Zenon DEF Least, Call
  <2>6. c.page \ {i} \in SUBSET Ids
    BY Zenon, <2>5
  <2>7. PICK marker \in Ids \cup {0} :
          marker = IF store = "swift" \/ (store = "redis" /\ here(i)) THEN i ELSE c.marker
    BY Zenon, <2>5 DEF Call
  <2>8. PICK m \in Call :
          /\ m = moved(i)
          /\ m.op = c.op /\ m.pc = c.pc /\ m.s = c.s /\ m.i = c.i
          /\ m.page = c.page \ {i} /\ m.marker = marker /\ m.got = c.got /\ m.twice = c.twice
    <3> DEFINE m == [c EXCEPT !.page = c.page \ {i}, !.marker = marker]
    <3>1. m \in Call
      BY <2>6, Zenon DEF Call
    <3>2. /\ m.op = c.op /\ m.pc = c.pc /\ m.s = c.s /\ m.i = c.i
          /\ m.page = c.page \ {i} /\ m.marker = marker /\ m.got = c.got /\ m.twice = c.twice
      BY DEF Call
    <3>3. m = moved(i)
      BY <2>7, Zenon
    <3> QED
      BY <3>1, <3>2, <3>3, Zenon
  <2>9. \/ here(i) /\ (store # "mongodb" => Willing(i)) /\ call' = [call EXCEPT ![a] = Tell(m, i)]
        \/ ~(here(i) /\ (store # "mongodb" => Willing(i))) /\ call' = [call EXCEPT ![a] = m]
    BY <2>4, <2>8, Zenon
  <2> HIDE DEF moved
  <2>10. c.marker \in Nat /\ marker \in Nat /\ \A j \in Ids : j \in Nat /\ j # 0
    BY SMTT(30), IdsAreNumbers, MarkerIsNumber
  <2>11. \A k \in S : Readable(c.s, k) /\ Willing(k) /\ k \notin c.twice
    BY Zenon, <2>3 DEF Walking
  <2>12. \A g \in S \cap c.got :
            (\A j \in c.page : g < j) /\ (c.marker # 0 => g =< c.marker)
    BY Zenon, <2>3 DEF Walking
  <2>13. \A k \in S :
            \/ k \in c.got \cup c.page
            \/ /\ c.marker < k /\ \A j \in c.page : j < k
               /\ c.page # {} \/ c.marker # 0
    BY <2>2, <2>3, Zenon DEF Walking
  <2>14. \A j \in c.page : IF store = "mongodb" THEN j =< c.marker ELSE c.marker < j
    BY <2>3, Zenon DEF Walking
  <2>15. store = "redis" /\ S # {} =>
            /\ \A k \in ids[c.s] : Readable(c.s, k)
            /\ c.page \subseteq ids[c.s] /\ c.marker \in ids[c.s] \cup {0}
    BY Zenon, <2>3 DEF Walking
  <2>16. store \in {"mongodb", "redis", "swift"}
    BY IInvTypes, SubscriptionsAssumption, Zenon
  <2>17. i \in S => i \notin c.got
    BY SMTT(30), <2>5, <2>10, <2>12
  \* What is owed after the step, of a page without i.
  <2>18a. /\ \A j \in m.page : j \in c.page /\ j \in Nat /\ i < j
          /\ i \in Nat /\ i # 0 /\ (store = "mongodb" => i =< c.marker)
          /\ m.page \subseteq c.page
    <3>1. m.page = c.page \ {i}
      BY Zenon, <2>8
    <3>2. ASSUME NEW j \in c.page, j # i PROVE j \in Nat /\ i < j
      <4>1. j \in Nat /\ i \in Nat /\ i =< j
        BY Zenon, <2>5, IdsAreNumbers
      <4> QED
        BY <3>2, <4>1
    <3> QED
      BY Zenon, <2>5, <2>10, <2>14, <3>1, <3>2
  <2>18. S # {} => IF store = "mongodb" THEN marker = c.marker ELSE marker = i
    BY ZenonT(30), <2>5, <2>7, <2>15, <2>16
  <2>19. \A g \in S \cap c.got : (\A j \in m.page : g < j) /\ (marker # 0 => g =< marker)
    BY SMTT(30), <2>5, <2>8, <2>10, <2>12, <2>18
  <2>20. i \in S => (\A j \in m.page : i < j) /\ i =< marker
    BY SMTT(30), <2>18, <2>18a
  <2>21. \A k \in S :
            \/ k \in c.got \cup m.page \cup {i}
            \/ marker < k /\ (\A j \in m.page : j < k) /\ marker # 0
    <3> SUFFICES ASSUME NEW k \in S, k \notin c.got \cup c.page
                 PROVE  marker < k /\ (\A j \in m.page : j < k) /\ marker # 0
      BY Zenon, <2>8
    <3>1. c.marker < k /\ \A j \in c.page : j < k
      BY Zenon, <2>13
    <3>2. store = "mongodb" => c.marker # 0
      <4>1. i \in Nat /\ i # 0 /\ c.marker \in Nat /\ (store = "mongodb" => i =< c.marker)
        BY Zenon, <2>10, <2>18a
      <4> QED
        BY <4>1
    <3> QED
      BY ZenonT(30), <2>5, <2>8, <2>10, <2>18, <3>1, <3>2
  <2>22. \A j \in m.page : IF store = "mongodb" THEN j =< marker ELSE marker < j
    BY Zenon, <2>7, <2>14, <2>18a
  <2>23. store = "redis" /\ S # {} =>
            /\ \A k \in ids[c.s] : Readable(c.s, k)
            /\ m.page \subseteq ids[c.s] /\ marker \in ids[c.s] \cup {0}
    BY Zenon, <2>5, <2>8, <2>15, <2>18
  <2>24. CASE call' = [call EXCEPT ![a] = m] /\ ~(here(i) /\ (store # "mongodb" => Willing(i)))
    <3>1. i \notin S
      BY SMTT(30), <2>11, <2>24
    <3>2. Walking(m, S)
      BY <2>2, <2>8, <2>11, <2>19, <2>21, <2>22, <2>23, <3>1, ZenonT(30) DEF Walking
    <3> QED
      BY <2>1, <2>2, <2>3, <2>8, <2>24, <3>2, <1>WalkStep, ZenonT(30)
  <2>25. CASE call' = [call EXCEPT ![a] = Tell(m, i)]
    <3>1. PICK r \in Call :
            /\ r = Tell(m, i)
            /\ r.op = m.op /\ r.pc = m.pc /\ r.s = m.s /\ r.i = m.i /\ r.page = m.page
            /\ r.marker = m.marker /\ r.got = m.got \cup {i}
            /\ r.twice = IF i \in m.got THEN m.twice \cup {i} ELSE m.twice
      BY <2>5, TellType, Zenon
    <3>2. r.page = m.page /\ r.marker = marker /\ r.got = c.got \cup {i} /\ r.pc = "item" /\ r.s = c.s
      BY <2>2, <2>8, <3>1, ZenonT(30)
    <3>3. \A k \in S : k \notin r.twice
      BY <2>8, <2>11, <2>17, <3>1, ZenonT(30)
    <3>4. \A g \in S \cap r.got : (\A j \in r.page : g < j) /\ (r.marker # 0 => g =< r.marker)
      BY SMTT(30), <2>19, <2>20, <3>2
    <3>5. Walking(r, S)
      BY ZenonT(30), <2>11, <2>21, <2>22, <2>23, <3>2, <3>3, <3>4 DEF Walking
    <3>6. /\ call' = [call EXCEPT ![a] = r] /\ r.op = "walk" /\ r.pc = "item"
          /\ r.s = c.s /\ r.i = c.i
      BY <2>2, <2>8, <2>25, <3>1, ZenonT(30)
    <3> QED
      BY <2>1, <2>2, <2>3, <3>5, <3>6, <1>WalkStep, ZenonT(30)
  <2> QED
    BY ZenonT(30), <2>9, <2>24, <2>25

<1>NextPage. ASSUME NextPage(a) PROVE IInv'
  <2> USE <1>NextPage
  <2>1. PICK c \in Call : c = call[a]
    BY Zenon, IInvCall
  <2>2. c.pc = "item" /\ c.page = {} /\ c.op = "walk" /\ UNCHANGED <<store, queues, Stored>>
    BY Zenon, <2>1, <1>WalkFacts DEF NextPage
  <2>3. CASE Reply(a)
    BY Zenon, <2>2, <2>3, NoEffect, ReplyFits, FitsInv
  <2>4. CASE c.marker # 0 /\ Go(a, "page")
    <3>1. PICK S \in SUBSET Ids : S = steady[a] /\ Walking(c, S)
      BY <2>1, <2>2, <1>WalkFacts
    <3> DEFINE r == [c EXCEPT !.pc = "page"]
    <3>2. call' = [call EXCEPT ![a] = r]
      BY <2>1, <2>4 DEF Go
    <3>3. r \in Call
      BY Zenon DEF Call
    <3>4. /\ r.op = c.op /\ r.pc = "page" /\ r.s = c.s /\ r.i = c.i /\ r.page = c.page
          /\ r.marker = c.marker /\ r.got = c.got /\ r.twice = c.twice
      BY DEF Call
    <3> HIDE DEF r
    <3>5. Walking(r, S)
      BY <2>2, <2>4, <3>1, <3>4, Zenon DEF Walking
    <3> QED
      BY <2>1, <2>2, <3>1, <3>2, <3>3, <3>4, <3>5, <1>WalkStep, ZenonT(30)
  <2> QED
    BY Zenon, <2>1, <2>3, <2>4 DEF NextPage

<1>1. IInv'
  BY <1>MongoPage, <1>RedisPage, <1>SwiftPage, <1>Item, <1>NextPage, Zenon DEF Walk
<1>2. UNCHANGED <<store, queues, Stored>>
  BY Zenon DEF Walk, MongoPage, RedisPage, SwiftPage, Item, NextPage
<1>3. Effect
  BY <1>2, NoEffect
<1>4. \E r : call' = [call EXCEPT ![a] = r]
  <2>1. CASE MongoPage(a)
    BY <2>1, Zenon DEF MongoPage
  <2>2. CASE RedisPage(a) \/ SwiftPage(a)
    BY <2>2, Zenon DEF RedisPage, SwiftPage, Visit
  <2>3. CASE Item(a)
    BY <2>3, Zenon DEF Item
  <2>4. CASE NextPage(a)
    BY <2>4 DEF NextPage, Reply, Go
  <2> QED
    BY <2>1, <2>2, <2>3, <2>4 DEF Walk
<1>5. Others({a})
  BY <1>4, IInvTypes DEF Others
<1> QED
  BY Zenon, <1>1, <1>3, <1>5

LEMMA ServeInv ==
  ASSUME IInv, NEW a \in Callers, Serve(a), Walks
  PROVE  IInv' /\ Effect /\ Others({a})
BY CreateFits, UpdateFits, DeleteFits, FitsStep, WalkInv, Zenon DEF Serve

LEMMA StepsInv ==
  ASSUME IInv, Walks, NEW R \in SUBSET Callers, Steps(R)
  PROVE  IInv' /\ Effect /\ Others(R)
<1>1. ASSUME NEW a \in R, Request(a) \/ Serve(a) \/ Fail(a) \/ Finish(a)
      PROVE  IInv' /\ Effect /\ Others(R)
  <2>1. a \in Callers
    OBVIOUS
  <2>2. IInv' /\ Effect /\ Others({a})
    BY Zenon, <1>1, <2>1, RequestInv, ServeInv, EndFits, FitsStep
  <2> QED
    BY <2>2 DEF Others
<1>2. CASE Environment
  BY <1>2, EnvironmentEffect, StoreInv DEF Others
<1> QED
  BY <1>1, <1>2 DEF Steps

LEMMA StutterInv ==
  ASSUME IInv, UNCHANGED vars
  PROVE  IInv'
<1>1. TypeOK' /\ Unused' /\ Listed'
  BY Zenon DEF IInv, TypeOK, Unused, Listed, vars
<1>2. ASSUME NEW a \in Callers PROVE Args(call[a])'
  BY IInvCall, Zenon DEF Args, Gone, vars
<1>3. ASSUME NEW a \in Callers, call[a].op = "walk" PROVE Walking(call[a], steady[a])'
  <2>1. Walking(call[a], steady[a])
    BY Zenon, <1>3 DEF IInv
  <2> QED
    BY <2>1, Zenon DEF Walking, Readable, Willing, vars
<1> QED
  BY <1>1, <1>2, <1>3, Zenon DEF IInv, vars

LEMMA InitInv == Init => IInv
<1> SUFFICES ASSUME Init PROVE IInv
  OBVIOUS
<1>1. \A a \in Callers : call[a] = Idle
  BY Zenon DEF Init
<1>2. TypeOK
  <2>1. call \in [Callers -> Call]
    BY Zenon, IdleType DEF Init
  <2> QED
    BY Zenon, <2>1 DEF Init, TypeOK
<1>3. Unused /\ Listed
  BY DEF Init, Unused, Listed
<1>4. \A a \in Callers : Args(call[a]) /\ call[a].op # "walk"
  BY Zenon, <1>1, ArgsIdle, IdleFields
<1> QED
  BY <1>2, <1>3, <1>4 DEF IInv

LEMMA NextInv ==
  ASSUME IInv, [Next]_vars
  PROVE  IInv' /\ (UNCHANGED vars \/ Effect)
<1>1. CASE Next
  BY Zenon, <1>1, StepsInv DEF Next
<1>2. CASE UNCHANGED vars
  BY <1>2, StutterInv
<1> QED
  BY Zenon, <1>1, <1>2

\* The invariant of the subscription controllers, their handlers and the notifier:
\* what each step of a request is handed by the ones before it, and where a walk is.
THEOREM Invariance == Spec => []IInv
<1>1. IInv /\ [Next]_vars => IInv'
  BY NextInv
<1> QED
  BY InitInv, <1>1, PTL DEF Spec

\* The variables keep their types.
THEOREM TypeCorrect == Spec => []TypeOK
<1>1. IInv => TypeOK
  BY DEF IInv
<1> QED
  BY Invariance, <1>1, PTL

\* A walk of the notifier that ends has notified every subscription that was to be
\* notified all along, and none of them twice (NotifierDriver.post over the pages of
\* list), with any page limit, any number of subscriptions and of requests beside it.
THEOREM WalksNotify == Spec => []WalkNotifies
<1>1. ASSUME IInv PROVE WalkNotifies
  <2> SUFFICES ASSUME NEW a \in Callers, call[a].op = "walk"
               PROVE  /\ call[a].pc = "item" /\ call[a].page = {} /\ call[a].marker = 0
                         => steady[a] \subseteq call[a].got
                      /\ steady[a] \cap call[a].twice = {}
    BY DEF WalkNotifies
  <2>1. Walking(call[a], steady[a])
    BY <1>1 DEF IInv
  <2> QED
    BY <2>1, Zenon DEF Walking
<1> QED
  BY Invariance, <1>1, PTL

\* A POST that answers 201 names a subscription whose subscriber was sent the signed
\* URL (CollectionResource.on_post, send_confirm_notification).
THEOREM PostsAsk == Spec => []Asked
<1>1. ASSUME IInv PROVE Asked
  BY <1>1, IInvCall, Zenon DEF Asked, Args
<1> QED
  BY Invariance, <1>1, PTL

\* On Redis every whole hash is in the sorted set of its queue (SubscriptionController
\* of storage/redis: create, update, delete and _is_duplicated_subscriber).
THEOREM HashesListed == Spec => []Listed
<1>1. IInv => Listed
  BY Zenon DEF IInv
<1> QED
  BY Invariance, <1>1, PTL

\* On MongoDB and on Redis a subscription that was deleted or has expired does not come
\* back in a queue, under updates that had read it.
THEOREM GoneStays == Spec => DeletedStaysGone
<1>1. ASSUME IInv, [Next]_vars
      PROVE  [store # "swift" =>
                 \A i \in Ids \ fresh : sub[i] = NoSub => sub'[i] = NoSub \/ sub'[i].s = None]_vars
  <2>1. UNCHANGED vars \/ Effect
    BY Zenon, <1>1, NextInv
  <2>2. CASE Effect
    BY Zenon, <2>2 DEF Effect, Gone
  <2> QED
    BY <2>1, <2>2
<1> QED
  BY Invariance, <1>1, PTL DEF Spec, DeletedStaysGone

-------------------------------------------------------------------------------
(* The websocket session: types and parts of the invariant.                     *)

Protocol == [open : BOOLEAN, auth : BOOLEAN, token : 0..MaxTokens,
             timers : SUBSET (1..MaxTokens),
             subs : [Ids -> Sources \cup {None}], mine : SUBSET Ids]
Listener == [state : {"none", "INIT", "HEADERS", "BODY", "sent"},
             data : 0..Total, came : 0..Total]

LEMMA SessionTypes ==
  ASSUME SessionInv
  PROVE  IInv /\ ws \in Protocol /\ jobs \subseteq Ids /\ http \in Listener
BY Zenon DEF SessionInv, SessionTypeOK, Protocol, Listener

LEMMA ProtocolFields ==
  ASSUME SessionInv
  PROVE  /\ ws.open \in BOOLEAN /\ ws.auth \in BOOLEAN /\ ws.token \in 0..MaxTokens
         /\ ws.timers \in SUBSET (1..MaxTokens) /\ ws.subs \in [Ids -> Sources \cup {None}]
         /\ ws.mine \in SUBSET Ids
BY Zenon, SessionTypes DEF Protocol

\* The parts of the invariant that relate the connection to the store.
Linked ==
    /\ (ws.mine \cup Recorded) \cap fresh = {}
    /\ call[Conn].op \in {"idle", "ws", "delete"}
    /\ ~ws.open => call[Conn].op # "ws"
    /\ store # "swift" => \A i \in ws.mine : Kept(i)

LEMMA SessionParts ==
  SessionInv <=> IInv /\ SessionTypeOK /\ CutByLatestToken /\ Received /\ Linked
BY Zenon DEF SessionInv, Linked

LEMMA SessionTyped ==
  ASSUME IInv', ws' \in Protocol, jobs' \subseteq Ids, http' \in Listener
  PROVE  SessionTypeOK'
<1>1. TypeOK'
  BY DEF IInv
<1> QED
  BY <1>1, Zenon DEF SessionTypeOK, Protocol, Listener

\* The protocol object and the listener are left alone.
LEMMA SameParts ==
  ASSUME SessionInv, IInv', Linked', UNCHANGED <<ws, http>>, jobs' \subseteq Ids
  PROVE  SessionInv'
<1>1. SessionTypeOK'
  BY Zenon, SessionTypes, SessionTyped
<1>2. CutByLatestToken' /\ Received'
  BY Zenon, SessionParts DEF CutByLatestToken, Received
<1> QED
  BY <1>1, <1>2, Zenon DEF SessionInv, Linked

\* What is not gone stays in its queue.
LEMMA StaysPut ==
  ASSUME SessionInv, Effect, store # "swift", NEW i \in ws.mine
  PROVE  Gone(i)' \/ (~Gone(i) /\ sub'[i].s = sub[i].s)
<1>1. i \in Ids \ fresh
  BY ZenonT(30), ProtocolFields DEF SessionInv
<1>2. Gone(i)' \/ (sub[i] # NoSub /\ sub'[i].s = sub[i].s)
  BY <1>1 DEF Effect
<1> QED
  BY Zenon, <1>2 DEF Gone

LEMMA ServeLinked ==
  ASSUME SessionInv, Walks, Serve(Conn), UNCHANGED session
  PROVE  SessionInv'

\* The steps of each kind of request.
<1>ServePc.
  ASSUME NEW a \in Callers
  PROVE  /\ Create(a) => call[a].pc \in {"create", "dup", "put", "get", "with"}
         /\ Update(a) => call[a].pc \in {"update", "write", "dup", "bye", "relock", "unlock", "put"}
         /\ Delete(a) => call[a].pc \in {"list", "delete", "free", "remove"}
         /\ Walk(a) => call[a].pc \in {"page", "item"}
  <2> USE <1>ServePc
  <2>1. Create(a) => call[a].pc \in {"create", "dup", "put", "get", "with"}
    BY Zenon DEF Create, At, MongoCreate, RedisScan, _is_duplicated_subscriber, RedisCreate, SwiftLock,
           SwiftCreate, GetCreated, Resend
  <2>2. Update(a) => call[a].pc \in {"update", "write", "dup", "bye", "relock", "unlock", "put"}
    BY Zenon DEF Update, At, MongoUpdate, RedisUpdate, RedisWrite, Bye, SwiftUpdate, SwiftRelock,
           SwiftUnlock, SwiftWrite
  <2>3. Delete(a) => call[a].pc \in {"list", "delete", "free", "remove"}
    BY Zenon DEF Delete, At, PurgeList, MongoDelete, RedisDelete, SwiftDelete, SwiftFree, SwiftRemove
  <2>4. Walk(a) => call[a].pc \in {"page", "item"}
    BY Zenon DEF Walk, At, MongoPage, RedisPage, SwiftPage, Item, NextPage
  <2> QED
    BY <2>1, <2>2, <2>3, <2>4

\* A deletion that reaches MongoDB or Redis removes what is in the queue it names.
<1>DeletionRemoves.
  ASSUME IInv, NEW a \in Callers, Serve(a), store # "swift", call[a].pc = "delete",
         NEW i \in Ids, call[a].i = i, ~Gone(i), call[a].s = sub[i].s
  PROVE  Gone(i)'
  <2> USE <1>DeletionRemoves
  <2>1. Delete(a)
    BY <1>ServePc DEF Serve
  <2>2. store # "swift" /\ call[a].pc = "delete"
    OBVIOUS
  <2>3. MongoDelete(a) \/ RedisDelete(a)
    BY ZenonT(30), <2>1, <2>2 DEF Delete, At, PurgeList, SwiftDelete, SwiftFree, SwiftRemove
  <2>4. Readable(call[a].s, i) /\ sub[i] # NoSub /\ sub[i].s # None
    BY DEF Readable, Gone
  <2>5. CASE MongoDelete(a)
    <3>1. Put(i, NoSub)
      BY <2>4, <2>5, ZenonT(30) DEF MongoDelete
    <3>2. sub'[i] = NoSub
      BY SMTT(30), <3>1, IInvTypes DEF Put
    <3> QED
      BY Zenon, <3>2 DEF Gone
  <2>6. CASE RedisDelete(a)
    <3>1. i \in ids[call[a].s]
      BY <2>4, <2>6, IInvStore, Zenon DEF Listed, RedisDelete, At
    <3>2. Put(i, NoSub)
      BY <2>6, <3>1, ZenonT(30) DEF RedisDelete
    <3>3. sub'[i] = NoSub
      BY <3>2, IInvTypes DEF Put
    <3> QED
      BY <3>3 DEF Gone
  <2> QED
    BY ZenonT(30), <2>3, <2>5, <2>6

<1>1. IInv /\ Conn \in Callers
  BY SessionTypes, SessionAssumption
<1>2. IInv' /\ Effect
  BY <1>1, ServeInv, Zenon
<1>3. /\ (ws.mine \cup Recorded) \cap fresh = {}
      /\ call[Conn].op \in {"idle", "ws", "delete"}
      /\ ~ws.open => call[Conn].op # "ws"
  BY Zenon, SessionParts DEF Linked
<1>4. call[Conn].pc # "idle" /\ call[Conn].pc \notin {"page", "item"}
  <2>1. call[Conn].pc # "idle"
    BY Zenon, <1>1, <1>ServePc DEF Serve
  <2> QED
    BY <1>1, <1>3, <2>1, IInvCall, ZenonT(30) DEF Args
<1>5. Fits(Conn)
  BY ZenonT(30), <1>1, <1>4, CreateFits, UpdateFits, DeleteFits, <1>ServePc DEF Serve
<1>6. call'[Conn].op \in {"idle", call[Conn].op}
  BY SMTT(30), <1>1, <1>4, <1>5, IdleFields, IInvTypes DEF Fits
<1>7. UNCHANGED <<ws, http, jobs>> /\ Recorded' = Recorded
  BY DEF session, Recorded
<1>8. fresh' \subseteq fresh /\ store' = store
  BY <1>2 DEF Effect
<1>9. ASSUME store # "swift", NEW i \in ws.mine PROVE Kept(i)'
  <2>1. Kept(i) /\ i \in Ids
    BY <1>9, SessionParts, ProtocolFields, ZenonT(30) DEF Linked
  <2>2. Gone(i)' \/ (~Gone(i) /\ sub'[i].s = sub[i].s)
    BY <1>2, <1>9, StaysPut
  <2>3. CASE i \in Recorded /\ sub[i].s = ws.subs[i]
    BY ZenonT(30), <1>7, <2>2, <2>3 DEF Kept
  <2>4. CASE call[Conn].pc = "delete" /\ call[Conn].i = i /\ call[Conn].s = sub[i].s
    BY SMTT(30), <1>1, <1>9, <2>1, <2>2, <2>4, <1>DeletionRemoves DEF Kept
  <2>5. CASE Gone(i)
    BY Zenon, <2>2, <2>5 DEF Kept
  <2> QED
    BY <2>1, <2>3, <2>4, <2>5, Zenon DEF Kept
<1>10. Linked'
  <2>1. (ws'.mine \cup Recorded') \cap fresh' = {}
    BY <1>3, <1>7, <1>8
  <2>2. call'[Conn].op \in {"idle", "ws", "delete"} /\ (~ws'.open => call'[Conn].op # "ws")
    BY Zenon, <1>3, <1>6, <1>7
  <2>3. store' # "swift" => \A i \in ws'.mine : Kept(i)'
    BY ZenonT(30), <1>7, <1>8, <1>9
  <2> QED
    BY ZenonT(30), <2>1, <2>2, <2>3 DEF Linked
<1> QED
  BY ZenonT(30), <1>2, <1>7, <1>10, SameParts, SessionTypes

-------------------------------------------------------------------------------
(* The steps of the connection that leave the store alone.                      *)

LEMMA TotalIsNumber == Total \in Nat /\ Total = 2 + Length /\ Length \in Nat /\ Length # 0
BY SessionAssumption DEF Total

LEMMA NoRequestType ==
  /\ NoRequest \in Listener /\ NoRequest.state = "none" /\ NoRequest.data = 0
  /\ NoRequest.came = 0
BY TotalIsNumber DEF NoRequest, Listener

-------------------------------------------------------------------------------
(* The requests of the connection.                                              *)

LEMMA SessionNextInv ==
  ASSUME SessionInv, [SessionNext]_all
  PROVE  SessionInv'

\* Other callers and the store.
<1>OthersLinked. ASSUME Effect, UNCHANGED ws, call'[Conn] = call[Conn] PROVE Linked'
  <2> USE <1>OthersLinked
  <2>1. /\ (ws.mine \cup Recorded) \cap fresh = {}
        /\ call[Conn].op \in {"idle", "ws", "delete"}
        /\ ~ws.open => call[Conn].op # "ws"
    BY Zenon, SessionParts DEF Linked
  <2>2. fresh' \subseteq fresh /\ store' = store /\ Recorded' = Recorded
    BY ZenonT(30) DEF Effect, Recorded
  <2>3. ASSUME store # "swift", NEW i \in ws.mine PROVE Kept(i)'
    <3>1. Kept(i)
      BY ZenonT(30), <2>3, SessionParts DEF Linked
    <3>2. Gone(i)' \/ (~Gone(i) /\ sub'[i].s = sub[i].s)
      BY <2>3, StaysPut
    <3> QED
      BY SMTT(30), <2>2, <3>1, <3>2 DEF Kept
  <2> QED
    BY <2>1, <2>2, <2>3, Zenon DEF Linked

<1>OtherSteps.
  ASSUME Walks, Steps(Callers \ {Conn}), Submitted, UNCHANGED <<ws, http>>
  PROVE  SessionInv'
  <2> USE <1>OtherSteps
  <2>1. IInv' /\ Effect /\ Others(Callers \ {Conn})
    BY Zenon, SessionTypes, StepsInv
  <2>2. call'[Conn] = call[Conn]
    BY ZenonT(30), <2>1, SessionAssumption DEF Others
  <2>3. Linked'
    BY <2>1, <2>2, <1>OthersLinked
  <2>4. jobs' \subseteq Ids
    BY ZenonT(30), SessionTypes DEF Submitted
  <2> QED
    BY ZenonT(30), <2>1, <2>3, <2>4, SameParts

<1>SameLinked.
  ASSUME UNCHANGED vars, ws'.subs = ws.subs, ws'.mine = ws.mine,
         ws'.open => ws.open, ws'.open = ws.open \/ Free
  PROVE  Linked'
  <2> USE <1>SameLinked
  <2>1. Linked
    BY SessionParts
  <2>2. Recorded' = Recorded
    BY DEF Recorded
  <2>3. UNCHANGED <<sub, store, fresh, call>>
    BY Zenon DEF vars
  <2>4. ~ws'.open => call[Conn].op # "ws"
    BY Zenon, <2>1, IdleFields DEF Linked, Free
  <2>5. \A i : Kept(i) => Kept(i)'
    BY Zenon, <2>2, <2>3 DEF Kept, Gone
  <2> QED
    BY SMTT(30), <2>1, <2>2, <2>3, <2>4, <2>5 DEF Linked

<1>Authenticate. ASSUME Authenticate PROVE SessionInv'
  <2> USE <1>Authenticate
  <2>1. PICK w \in Protocol : w = ws
    BY SessionTypes
  <2> DEFINE k == w.token + 1
             r == [w EXCEPT !.auth = TRUE, !.token = k, !.timers = {k}]
  <2>2. ws' = r
    BY Zenon, <2>1 DEF Authenticate, Reschedule
  <2>3. k \in 0..MaxTokens /\ {k} \in SUBSET (1..MaxTokens)
    BY <2>1, SessionAssumption DEF Protocol, Authenticate
  <2> HIDE DEF k
  <2>4. r \in Protocol
    BY <2>3, Zenon DEF Protocol
  <2>5. /\ r.open = w.open /\ r.auth = TRUE /\ r.token = k /\ r.timers = {k}
        /\ r.subs = w.subs /\ r.mine = w.mine
    BY DEF Protocol
  <2> HIDE DEF r
  <2>6. UNCHANGED vars /\ UNCHANGED jobs /\ UNCHANGED http
    BY DEF Authenticate
  <2>7. IInv' /\ Linked'
    BY ZenonT(30), <2>1, <2>2, <2>5, <2>6, StutterInv, SessionTypes, <1>SameLinked
  <2>8. SessionTypeOK'
    BY ZenonT(30), <2>2, <2>4, <2>6, <2>7, SessionTypes, SessionTyped
  <2>9. CutByLatestToken'
    BY ZenonT(30), <2>2, <2>5 DEF CutByLatestToken
  <2>10. Received'
    BY <2>6 DEF SessionInv, Received
  <2> QED
    BY <2>7, <2>8, <2>9, <2>10, ZenonT(30) DEF SessionInv, Linked

<1>Deauthenticate. ASSUME Deauthenticate PROVE SessionInv'
  <2> USE <1>Deauthenticate
  <2>1. PICK w \in Protocol : w = ws
    BY SessionTypes
  <2>2. PICK k \in w.timers : ws' = [w EXCEPT !.auth = FALSE, !.timers = w.timers \ {k}]
    BY <2>1, Zenon DEF Deauthenticate
  <2> DEFINE r == [w EXCEPT !.auth = FALSE, !.timers = w.timers \ {k}]
  <2>3. w.timers \ {k} \in SUBSET (1..MaxTokens)
    BY DEF Protocol
  <2>4. r \in Protocol
    BY <2>3, Zenon DEF Protocol
  <2>5. /\ r.open = w.open /\ r.auth = FALSE /\ r.timers = w.timers \ {k}
        /\ r.subs = w.subs /\ r.mine = w.mine
    BY DEF Protocol
  <2>6. ws' = r
    BY <2>2
  <2> HIDE DEF r
  <2>7. UNCHANGED vars /\ UNCHANGED jobs /\ UNCHANGED http
    BY DEF Deauthenticate
  <2>8. IInv' /\ Linked'
    BY ZenonT(30), <2>1, <2>5, <2>6, <2>7, StutterInv, SessionTypes, <1>SameLinked
  <2>9. SessionTypeOK'
    BY ZenonT(30), <2>4, <2>6, <2>7, <2>8, SessionTypes, SessionTyped
  <2>10. CutByLatestToken'
    <3>1. w.timers = IF w.auth THEN {w.token} ELSE {}
      BY Zenon, <2>1 DEF SessionInv, CutByLatestToken
    <3>2. w.timers \ {k} = {}
      BY <3>1
    <3> QED
      BY SMTT(30), <2>5, <2>6, <3>2 DEF CutByLatestToken
  <2>11. Received'
    BY <2>7 DEF SessionInv, Received
  <2> QED
    BY <2>8, <2>9, <2>10, <2>11, ZenonT(30) DEF SessionInv, Linked

<1>OnClose. ASSUME OnClose PROVE SessionInv'
  <2> USE <1>OnClose
  <2>1. PICK w \in Protocol : w = ws
    BY SessionTypes
  <2> DEFINE r == [w EXCEPT !.open = FALSE]
  <2>2. ws' = r
    BY <2>1 DEF OnClose
  <2>3. r \in Protocol
    BY Zenon DEF Protocol
  <2>4. /\ r.open = FALSE /\ r.auth = w.auth /\ r.token = w.token /\ r.timers = w.timers
        /\ r.subs = w.subs /\ r.mine = w.mine
    BY DEF Protocol
  <2> HIDE DEF r
  <2>5. UNCHANGED vars /\ UNCHANGED jobs /\ UNCHANGED http /\ Free
    BY Zenon DEF OnClose
  <2>6a. IInv' /\ jobs' \subseteq Ids /\ http' \in Listener
    BY ZenonT(30), <2>5, StutterInv, SessionTypes
  <2>6. IInv' /\ Linked'
    BY <2>1, <2>2, <2>4, <2>5, <2>6a, <1>SameLinked
  <2>7. SessionTypeOK'
    BY ZenonT(30), <2>2, <2>3, <2>6a, SessionTyped
  <2>8. CutByLatestToken' /\ Received'
    BY SMTT(30), <2>1, <2>2, <2>4, <2>5 DEF SessionInv, CutByLatestToken, Received
  <2> QED
    BY <2>6, <2>7, <2>8, ZenonT(30) DEF SessionInv, Linked

\* A step of the listener.
<1>Listener.
  ASSUME UNCHANGED <<vars, ws>>, jobs' \subseteq Ids, http' \in Listener, Received'
  PROVE  SessionInv'
  <2> USE <1>Listener
  <2>1. UNCHANGED vars /\ UNCHANGED ws
    OBVIOUS
  <2>2. IInv' /\ Linked'
    BY <2>1, StutterInv, SessionTypes, <1>SameLinked
  <2>3. SessionTypeOK'
    BY SMTT(30), <2>1, <2>2, SessionTypes, SessionTyped
  <2>4. CutByLatestToken'
    BY Zenon, <2>1 DEF SessionInv, CutByLatestToken
  <2> QED
    BY <2>2, <2>3, <2>4, ZenonT(30) DEF SessionInv, Linked

<1>WebhookTask. ASSUME WebhookTask PROVE SessionInv'
  <2> USE <1>WebhookTask
  <2>1. UNCHANGED <<vars, ws>> /\ jobs' \subseteq Ids
    BY ZenonT(30), SessionTypes DEF WebhookTask
  <2>2. CASE http' = NoRequest
    BY SMTT(30), <2>1, <2>2, NoRequestType, <1>Listener DEF Received
  <2>3. CASE http' = [NoRequest EXCEPT !.state = "INIT"]
    <3>1. http' \in Listener /\ http'.state = "INIT" /\ http'.data = 0 /\ http'.came = 0
      BY <2>3, NoRequestType DEF Listener
    <3> QED
      BY <2>1, <3>1, <1>Listener DEF Received
  <2> QED
    BY <2>2, <2>3 DEF WebhookTask

<1>Hangup. ASSUME Hangup PROVE SessionInv'
  <2> USE <1>Hangup
  <2>1. UNCHANGED <<vars, ws>> /\ jobs' \subseteq Ids /\ http' = NoRequest
    BY SessionTypes DEF Hangup
  <2> QED
    BY <2>1, NoRequestType, <1>Listener DEF Received

<1>Receive. ASSUME Receive PROVE SessionInv'
  <2> USE <1>Receive
  <2>1. UNCHANGED <<vars, ws>> /\ jobs' \subseteq Ids
    BY Zenon, SessionTypes DEF Receive
  <2>2. PICK h \in Listener : h = http
    BY Zenon, SessionTypes
  <2>3. PICK n \in 1..(Total - h.came) : http' = data_received(h, n)
    BY Zenon, <2>2 DEF Receive
  <2>4. /\ h.state \in {"INIT", "HEADERS", "BODY"} /\ h.data \in Nat /\ h.came \in Nat /\ n \in Nat
        /\ 1 =< n /\ h.came + n =< Total
    BY SMTT(30), <2>2, <2>3, TotalIsNumber DEF Receive, Listener
  <2>5. /\ h.state = "INIT" => h.data = 0 /\ h.came = 0
        /\ h.state = "HEADERS" => h.data = 0 /\ h.came = 1
        /\ h.state = "BODY" => h.came = 2 + h.data /\ h.data < Length
    BY Zenon, <2>2 DEF SessionInv, Received
  <2> DEFINE grown == [h EXCEPT !.data = h.data + n, !.came = h.came + n]
             line == IF grown.state = "INIT" /\ grown.data >= 1
                     THEN [grown EXCEPT !.state = "HEADERS", !.data = grown.data - 1] ELSE grown
             headers == IF line.state = "HEADERS" /\ line.data >= 1
                        THEN [line EXCEPT !.state = "BODY", !.data = line.data - 1] ELSE line
             whole == IF headers.state = "BODY" /\ headers.data >= Length
                      THEN [headers EXCEPT !.state = "sent", !.data = 0] ELSE headers
  <2>6. http' = whole
    BY <2>3, Zenon DEF data_received
  <2>7. /\ grown \in Listener /\ grown.state = h.state /\ grown.data = h.data + n
        /\ grown.came = h.came + n
    <3>1. h.data + n \in 0..Total /\ h.came + n \in 0..Total
      BY <2>4, <2>5, TotalIsNumber
    <3>2. grown \in Listener
      BY <3>1, Zenon DEF Listener
    <3> QED
      BY Zenon, <3>2 DEF Listener
  <2> HIDE DEF grown
  <2>8. /\ line \in Listener /\ line.came = h.came + n
        /\ h.state = "INIT" => line.state = "HEADERS" /\ line.data = n - 1
        /\ h.state # "INIT" => line.state = h.state /\ line.data = h.data + n
    <3>1. CASE h.state = "INIT"
      <4>0. PICK d \in 0..Total : grown.data = n /\ d = grown.data - 1 /\ d = n - 1
        BY SMTT(30), <2>4, <2>5, <2>7, <3>1, TotalIsNumber
      <4>1. line = [grown EXCEPT !.state = "HEADERS", !.data = d]
        BY <2>4, <2>7, <3>1, <4>0, ZenonT(30)
      <4> HIDE DEF line
      <4>2. line \in Listener
        BY <2>7, <4>1, Zenon DEF Listener
      <4>3. line.came = grown.came /\ line.state = "HEADERS" /\ line.data = n - 1
        BY ZenonT(30), <2>7, <4>0, <4>1 DEF Listener
      <4> QED
        BY ZenonT(30), <2>7, <3>1, <4>2, <4>3
    <3>2. CASE h.state # "INIT"
      <4>1. line = grown
        BY ZenonT(30), <2>7, <3>2
      <4> HIDE DEF line
      <4> QED
        BY <2>7, <3>2, <4>1
    <3> QED
      BY Zenon, <3>1, <3>2
  <2> HIDE DEF line
  <2>9. /\ headers \in Listener /\ headers.came = h.came + n
        /\ \/ headers.state = "HEADERS" /\ headers.data = 0 /\ headers.came = 1
           \/ headers.state = "BODY" /\ headers.came = 2 + headers.data
    <3>1. CASE line.state = "HEADERS" /\ line.data >= 1
      <4>1. line.data \in Nat /\ line.data =< Total
        BY <2>8, TotalIsNumber DEF Listener
      <4>2. /\ headers = [line EXCEPT !.state = "BODY", !.data = line.data - 1]
            /\ line.data - 1 \in 0..Total
        BY <3>1, <4>1, TotalIsNumber
      <4> HIDE DEF headers
      <4>3. /\ headers \in Listener /\ headers.state = "BODY" /\ headers.data = line.data - 1
            /\ headers.came = h.came + n
        BY <2>8, <4>2, ZenonT(30) DEF Listener
      <4> QED
        BY <2>4, <2>5, <2>8, <3>1, <4>3
    <3>2. CASE ~(line.state = "HEADERS" /\ line.data >= 1)
      <4>1. headers = line
        BY ZenonT(30), <3>2
      <4> HIDE DEF headers
      <4> QED
        BY SMTT(30), <2>4, <2>5, <2>8, <3>2, <4>1
    <3> QED
      BY <3>1, <3>2
  <2> HIDE DEF headers
  <2>10. headers.data \in Nat /\ headers.came =< Total
    BY <2>4, <2>9, TotalIsNumber DEF Listener
  <2>11. CASE headers.state = "BODY" /\ headers.data >= Length
    <3>1. whole = [headers EXCEPT !.state = "sent", !.data = 0]
      BY ZenonT(30), <2>11
    <3> HIDE DEF whole
    <3>0. 0 \in 0..Total
      BY TotalIsNumber
    <3>5. whole \in Listener
      BY <2>9, <3>0, <3>1, ZenonT(30) DEF Listener
    <3>2. /\ whole \in Listener /\ whole.state = "sent" /\ whole.data = 0
          /\ whole.came = headers.came
      BY ZenonT(30), <2>9, <3>1, <3>5 DEF Listener
    <3>3. whole.came = Total
      BY SMTT(30), <2>9, <2>10, <2>11, <3>2, TotalIsNumber
    <3>4. Received' /\ http' \in Listener
      BY ZenonT(30), <2>6, <3>2, <3>3 DEF Received
    <3> QED
      BY ZenonT(30), <2>1, <3>4, <1>Listener
  <2>12. CASE ~(headers.state = "BODY" /\ headers.data >= Length)
    <3>1. whole = headers
      BY Zenon, <2>12
    <3> HIDE DEF whole
    <3>2. headers.state = "BODY" => headers.data < Length
      BY <2>10, <2>12, TotalIsNumber
    <3>3. http' = headers
      BY <2>6, <3>1
    <3>4. Received' /\ http' \in Listener
      <4>1. \/ http'.state = "HEADERS" /\ http'.data = 0 /\ http'.came = 1
            \/ http'.state = "BODY" /\ http'.came = 2 + http'.data /\ http'.data < Length
        BY Zenon, <2>9, <3>2, <3>3
      <4>2. Received'
        BY <4>1 DEF Received
      <4> QED
        BY Zenon, <2>9, <3>3, <4>2
    <3> QED
      BY Zenon, <2>1, <3>4, <1>Listener
  <2> QED
    BY SMTT(30), <2>11, <2>12

\* A request that begins while the connection is open.
<1>OpenRequest.
  ASSUME Walks, Fits(Conn), UNCHANGED session, ws.open,
         call'[Conn].op \in {"ws", "delete"}
  PROVE  SessionInv'
  <2> USE <1>OpenRequest
  <2>1. IInv' /\ Effect
    BY SessionTypes, SessionAssumption, FitsStep, ZenonT(30)
  <2>2. (ws.mine \cup Recorded) \cap fresh = {}
    BY Zenon, SessionParts DEF Linked
  <2>3. fresh' \subseteq fresh /\ store' = store /\ Recorded' = Recorded /\ UNCHANGED <<ws, http, jobs>>
    BY ZenonT(30), <2>1 DEF Effect, Recorded, session
  <2>4. ASSUME store # "swift", NEW i \in ws.mine PROVE Kept(i)'
    <3>1. Gone(i) \/ (i \in Recorded /\ sub[i].s = ws.subs[i])
      BY <2>4, SessionParts, ZenonT(30) DEF Linked, Kept
    <3>2. Gone(i)' \/ (~Gone(i) /\ sub'[i].s = sub[i].s)
      BY <2>1, <2>4, StaysPut
    <3> QED
      BY <2>3, <3>1, <3>2 DEF Kept
  <2>5. Linked'
    BY <2>2, <2>3, <2>4 DEF Linked
  <2> QED
    BY <2>1, <2>3, <2>5, SameParts, SessionTypes

<1>Subscribe. ASSUME Walks, Subscribe PROVE SessionInv'
  <2> USE <1>Subscribe
  <2>1. IInv /\ Conn \in Callers
    BY SessionTypes, SessionAssumption
  <2>2. subscription_create(Conn, Socket) /\ UNCHANGED session /\ ws.open
    BY Zenon DEF Subscribe, Admitted
  <2>3. Fits(Conn)
    BY Zenon, <2>1, <2>2, subscription_createFits
  <2>4. call'[Conn].op = "ws"
    BY <2>1, <2>2, IInvTypes DEF subscription_create, Begin, Idle
  <2> QED
    BY ZenonT(30), <2>2, <2>3, <2>4, <1>OpenRequest

<1>Unsubscribe. ASSUME Walks, Unsubscribe PROVE SessionInv'
  <2> USE <1>Unsubscribe
  <2>1. IInv /\ Conn \in Callers
    BY SessionTypes, SessionAssumption
  <2>2. PICK s \in Sources, i \in Known : subscription_delete(Conn, s, i)
    BY Zenon DEF Unsubscribe
  <2>3. UNCHANGED session /\ ws.open
    BY DEF Unsubscribe, Admitted
  <2>4. Fits(Conn)
    BY ZenonT(30), <2>1, <2>2, subscription_deleteFits
  <2>5. call'[Conn].op = "delete"
    BY Zenon, <2>1, <2>2, IInvTypes DEF subscription_delete, Begin, Idle
  <2> QED
    BY ZenonT(30), <2>3, <2>4, <2>5, <1>OpenRequest

\* A request of the connection ends, or the deletion of one subscription begins.
<1>ConnStep.
  ASSUME Walks, Fits(Conn), Linked', UNCHANGED <<jobs, http>>, ws' \in Protocol,
         ws'.auth = ws.auth, ws'.token = ws.token, ws'.timers = ws.timers
  PROVE  SessionInv'
  <2> USE <1>ConnStep
  <2>1. IInv'
    BY SessionTypes, SessionAssumption, FitsStep, ZenonT(30)
  <2>2. SessionTypeOK'
    BY <2>1, SessionTypes, SessionTyped
  <2>3. CutByLatestToken' /\ Received'
    BY Zenon DEF SessionInv, CutByLatestToken, Received
  <2> QED
    BY <2>1, <2>2, <2>3, Zenon DEF SessionInv, Linked

<1>Subscribed. ASSUME Walks, Subscribed PROVE SessionInv'
  <2> USE <1>Subscribed
  <2>1. IInv /\ Conn \in Callers
    BY SessionTypes, SessionAssumption
  <2>2. call[Conn].pc = "done" /\ Finish(Conn) /\ UNCHANGED jobs /\ UNCHANGED http
    BY DEF Subscribed
  <2>3. Fits(Conn)
    BY ZenonT(30), <2>1, <2>2, EndFits
  <2>4. call'[Conn] = Idle /\ UNCHANGED <<store, sub, fresh>>
    BY <2>1, <2>2, IInvTypes DEF Finish, Reply, Stored
  <2>5. call[Conn].op = "ws" /\ ws.open
    <3>1. Args(call[Conn]) /\ call[Conn].op \in {"idle", "ws", "delete"}
      BY <2>1, IInvCall, ZenonT(30) DEF SessionInv
    <3>2. call[Conn].op = "ws"
      BY Zenon, <2>2, <3>1 DEF Args
    <3> QED
      BY <3>2, Zenon DEF SessionInv
  <2>6. PICK i \in Ids, s \in Sources : i = call[Conn].i /\ s = call[Conn].s /\ i \notin fresh
    BY Zenon, <2>1, <2>2, IInvCall DEF Args, Call
  <2>7. store # "swift" => Gone(i) \/ sub[i].s = s
    BY ZenonT(30), <2>1, <2>2, <2>5, <2>6, IInvCall DEF Args
  <2>8. PICK w \in Protocol : w = ws
    BY SessionTypes
  <2>9. PICK subs \in [Ids -> Sources \cup {None}] : subs = [w.subs EXCEPT ![i] = s]
    BY Zenon DEF Protocol
  <2>10. PICK mine \in SUBSET Ids : mine = w.mine \cup {i}
    BY Zenon DEF Protocol
  <2> DEFINE r == [w EXCEPT !.subs = subs, !.mine = mine]
  <2>11. ws' = r
    BY ZenonT(30), <2>6, <2>8, <2>9, <2>10 DEF Subscribed
  <2>12. r \in Protocol
    BY Zenon DEF Protocol
  <2>13. /\ r.open = w.open /\ r.auth = w.auth /\ r.token = w.token /\ r.timers = w.timers
         /\ r.subs = subs /\ r.mine = mine
    BY DEF Protocol
  <2> HIDE DEF r
  <2>14. subs[i] = s /\ s # None /\ \A j \in Ids \ {i} : subs[j] = w.subs[j]
    BY ZenonT(30), <2>9, SubscriptionsAssumption DEF Protocol
  <2>15. Recorded' = Recorded \cup {i}
    BY SMTT(30), <2>8, <2>11, <2>13, <2>14 DEF Recorded
  <2>16. ASSUME store # "swift", NEW j \in mine PROVE Kept(j)'
    <3>1. CASE j = i
      BY ZenonT(30), <2>4, <2>7, <2>11, <2>13, <2>14, <2>15, <2>16, <3>1 DEF Kept, Gone
    <3>2. CASE j # i
      <4>1. j \in ws.mine /\ j \in Ids
        BY Zenon, <2>8, <2>10, <3>2
      <4>2. Gone(j) \/ (j \in Recorded /\ sub[j].s = ws.subs[j])
        BY ZenonT(30), <2>5, <2>16, <4>1 DEF SessionInv, Kept
      <4>3. CASE Gone(j)
        BY Zenon, <2>4, <4>3 DEF Kept, Gone
      <4>4. CASE j \in Recorded /\ sub[j].s = ws.subs[j]
        <5>1. ws'.subs[j] = ws.subs[j]
          BY <2>8, <2>11, <2>13, <2>14, <3>2, <4>1
        <5>2. j \in Recorded' /\ sub'[j].s = ws'.subs[j]
          BY ZenonT(30), <2>4, <2>15, <4>4, <5>1
        <5> QED
          BY ZenonT(30), <5>2 DEF Kept
      <4> QED
        BY Zenon, <4>2, <4>3, <4>4
    <3> QED
      BY Zenon, <3>1, <3>2
  <2>17. (mine \cup Recorded') \cap fresh = {}
    <3>1. (ws.mine \cup Recorded) \cap fresh = {}
      BY Zenon DEF SessionInv
    <3> QED
      BY <2>6, <2>8, <2>10, <2>15, <3>1
  <2>18. Linked'
    <3>1. ws'.mine = mine /\ fresh' = fresh /\ store' = store /\ call'[Conn].op = "idle"
      BY ZenonT(30), <2>4, <2>11, <2>13, IdleFields
    <3>2. store' # "swift" => \A j \in ws'.mine : Kept(j)'
      BY ZenonT(30), <2>16, <3>1
    <3> QED
      BY ZenonT(30), <2>17, <3>1, <3>2 DEF Linked
  <2> QED
    BY <2>2, <2>3, <2>8, <2>11, <2>12, <2>13, <2>18, <1>ConnStep, ZenonT(30)

<1>clean_subscriptions. ASSUME Walks, clean_subscriptions PROVE SessionInv'
  <2> USE <1>clean_subscriptions
  <2>1. IInv /\ Conn \in Callers
    BY ZenonT(30), SessionTypes, SessionAssumption
  <2>2. ~ws.open /\ Free /\ UNCHANGED jobs /\ UNCHANGED http
    BY DEF clean_subscriptions
  <2>3. PICK i \in Least(Recorded) :
          subscription_delete(Conn, ws.subs[i], i) /\ ws' = [ws EXCEPT !.subs[i] = None]
    BY ZenonT(30) DEF clean_subscriptions
  <2>4. i \in Recorded /\ i \in Ids /\ i \in Known
    BY DEF Least, Recorded, SessionInv, Known
  <2>5. PICK w \in Protocol : w = ws
    BY ZenonT(30), SessionTypes
  <2>6. PICK s \in Sources : s = ws.subs[i]
    BY <2>4, ProtocolFields DEF Recorded
  <2>7. subscription_delete(Conn, s, i)
    BY <2>3, <2>6
  <2>8. Fits(Conn)
    BY <2>1, <2>4, <2>7, subscription_deleteFits
  <2>9. /\ call'[Conn].op = "delete" /\ call'[Conn].pc = "delete" /\ call'[Conn].s = s
        /\ call'[Conn].i = i
    BY <2>1, <2>7, IInvTypes DEF subscription_delete, Begin, Idle
  <2>10. UNCHANGED <<store, sub, fresh>> /\ call[Conn].op = "idle"
    BY SMTT(30), <2>2, <2>7, IdleFields DEF subscription_delete, Stored, Free
  <2>11. PICK subs \in [Ids -> Sources \cup {None}] : subs = [w.subs EXCEPT ![i] = None]
    BY ZenonT(30) DEF Protocol
  <2> DEFINE r == [w EXCEPT !.subs = subs]
  <2>12. ws' = r
    BY <2>3, <2>5, <2>11
  <2>13. r \in Protocol
    BY Zenon DEF Protocol
  <2>14. /\ r.open = w.open /\ r.auth = w.auth /\ r.token = w.token /\ r.timers = w.timers
         /\ r.subs = subs /\ r.mine = w.mine
    BY DEF Protocol
  <2> HIDE DEF r
  <2>15. subs[i] = None /\ \A j \in Ids \ {i} : subs[j] = w.subs[j]
    BY ZenonT(30), <2>4, <2>11 DEF Protocol
  <2>16. Recorded' = Recorded \ {i}
    BY <2>5, <2>12, <2>14, <2>15 DEF Recorded
  <2>17. ASSUME store # "swift", NEW j \in w.mine PROVE Kept(j)'
    <3>1. j \in Ids /\ (Gone(j) \/ (j \in Recorded /\ sub[j].s = ws.subs[j]))
      <4>1. j \in Ids /\ Kept(j)
        BY ZenonT(30), <2>5, <2>17, ProtocolFields DEF SessionInv
      <4>2. call[Conn].op # "delete"
        BY <2>10
      <4> QED
        BY Zenon, <4>1, <4>2 DEF Kept
    <3>2. CASE Gone(j)
      BY Zenon, <2>10, <3>2 DEF Kept, Gone
    <3>3. CASE j # i /\ j \in Recorded /\ sub[j].s = ws.subs[j]
      <4>1. j \in Recorded'
        BY ZenonT(30), <2>16, <3>3
      <4>2. ws'.subs[j] = ws.subs[j]
        BY <2>5, <2>12, <2>14, <2>15, <3>1, <3>3
      <4>3. sub'[j].s = ws'.subs[j]
        BY ZenonT(30), <2>10, <3>3, <4>2
      <4> QED
        BY ZenonT(30), <4>1, <4>3 DEF Kept
    <3>4. CASE j = i /\ sub[j].s = ws.subs[j]
      <4>1. ~ws'.open
        BY ZenonT(30), <2>2, <2>5, <2>12, <2>14
      <4>2. call'[Conn].i = j /\ call'[Conn].s = sub'[j].s
        BY ZenonT(30), <2>6, <2>9, <2>10, <3>4
      <4> QED
        BY ZenonT(30), <2>9, <4>1, <4>2 DEF Kept
    <3> QED
      BY Zenon, <3>1, <3>2, <3>3, <3>4
  <2>18. (w.mine \cup Recorded') \cap fresh = {}
    <3>1. (ws.mine \cup Recorded) \cap fresh = {}
      BY Zenon DEF SessionInv
    <3> QED
      BY <2>5, <2>16, <3>1
  <2>19. Linked'
    BY ZenonT(30), <2>9, <2>10, <2>12, <2>14, <2>17, <2>18 DEF Linked
  <2>20. ws' \in Protocol /\ ws'.auth = ws.auth /\ ws'.token = ws.token /\ ws'.timers = ws.timers
    BY ZenonT(30), <2>5, <2>12, <2>13, <2>14
  <2> QED
    BY ZenonT(30), <2>2, <2>8, <2>19, <2>20, <1>ConnStep

<1>Failed. ASSUME Walks, Failed PROVE SessionInv'
  <2> USE <1>Failed
  <2>1. IInv /\ Conn \in Callers
    BY Zenon, SessionTypes, SessionAssumption
  <2>2. Fail(Conn) /\ UNCHANGED jobs /\ UNCHANGED http
    BY DEF Failed
  <2>3. Fits(Conn)
    BY ZenonT(30), <2>1, <2>2, EndFits
  <2>4. call'[Conn] = Idle /\ UNCHANGED <<store, sub, fresh>>
    BY <2>1, <2>2, IInvTypes DEF Fail, Reply, Stored
  <2>5. PICK w \in Protocol : w = ws
    BY Zenon, SessionTypes
  <2>6. PICK mine \in SUBSET Ids : mine = IF w.open THEN w.mine ELSE w.mine \ {call[Conn].i}
    BY Zenon DEF Protocol
  <2> DEFINE r == [w EXCEPT !.mine = mine]
  <2>7. ws' = r
    BY <2>5, <2>6 DEF Failed
  <2>8. r \in Protocol
    BY Zenon DEF Protocol
  <2>9. /\ r.open = w.open /\ r.auth = w.auth /\ r.token = w.token /\ r.timers = w.timers
        /\ r.subs = w.subs /\ r.mine = mine
    BY Zenon DEF Protocol
  <2> HIDE DEF r
  <2>10. Recorded' = Recorded
    BY Zenon, <2>5, <2>7, <2>9 DEF Recorded
  <2>11. ASSUME store # "swift", NEW j \in mine PROVE Kept(j)'
    <3>1. j \in ws.mine /\ (~ws.open => j # call[Conn].i)
      BY ZenonT(30), <2>5, <2>6
    <3>2. Gone(j) \/ (j \in Recorded /\ sub[j].s = ws.subs[j])
      BY ZenonT(30), <2>11, <3>1 DEF SessionInv, Kept
    <3> QED
      BY ZenonT(30), <2>4, <2>5, <2>7, <2>9, <2>10, <3>2 DEF Kept, Gone
  <2>12. (mine \cup Recorded') \cap fresh = {}
    BY SMTT(30), <2>5, <2>6, <2>10 DEF SessionInv
  <2>13. Linked'
    BY ZenonT(30), <2>4, <2>7, <2>9, <2>11, <2>12, IdleFields DEF Linked
  <2> QED
    BY ZenonT(30), <2>2, <2>3, <2>5, <2>7, <2>8, <2>9, <2>13, <1>ConnStep

<1>1. CASE SessionNext
  <2>1. Walks
    BY Zenon, <1>1 DEF SessionNext
  <2>2. CASE Steps(Callers \ {Conn}) /\ Submitted /\ UNCHANGED <<ws, http>>
    BY <2>1, <2>2, <1>OtherSteps
  <2>3. CASE Serve(Conn) /\ UNCHANGED session
    BY <2>1, <2>3, ServeLinked
  <2>4. CASE Session
    BY <2>1, <2>4, <1>Authenticate, <1>Deauthenticate, <1>Subscribe, <1>Subscribed,
       <1>Unsubscribe, <1>OnClose, <1>clean_subscriptions, <1>Failed, <1>WebhookTask,
       <1>Receive, <1>Hangup, ZenonT(30) DEF Session
  <2> QED
    BY Zenon, <1>1, <2>2, <2>3, <2>4 DEF SessionNext
<1>2. CASE UNCHANGED all
  <2>1. UNCHANGED vars /\ UNCHANGED ws /\ UNCHANGED http /\ UNCHANGED jobs
    BY SMTT(30), <1>2 DEF all, session
  <2>2. Received'
    BY <2>1 DEF SessionInv, Received
  <2> QED
    BY SMTT(30), <2>1, <2>2, <1>Listener, SessionTypes
<1> QED
  BY Zenon, <1>1, <1>2

LEMMA SessionInitInv == SessionInit => SessionInv
<1> SUFFICES ASSUME SessionInit PROVE SessionInv
  OBVIOUS
<1>1. IInv
  BY Zenon, InitInv DEF SessionInit
<1>2. /\ ws.open = TRUE /\ ws.auth = FALSE /\ ws.timers = {} /\ ws.mine = {}
      /\ ws.subs = [i \in Ids |-> None] /\ ws \in Protocol
  <2>1. /\ {} \in SUBSET (1..MaxTokens) /\ 0 \in 0..MaxTokens /\ {} \in SUBSET Ids
        /\ [i \in Ids |-> None] \in [Ids -> Sources \cup {None}]
    BY SessionAssumption
  <2> QED
    BY ZenonT(30), <2>1 DEF SessionInit, Protocol
<1>3. SessionTypeOK
  <2>1. TypeOK /\ http \in Listener /\ jobs \subseteq Ids
    BY ZenonT(30), <1>1, NoRequestType DEF IInv, SessionInit
  <2> QED
    BY <1>2, <2>1, Zenon DEF SessionTypeOK, Protocol, Listener
<1>4. CutByLatestToken /\ Received
  BY <1>2, NoRequestType DEF SessionInit, CutByLatestToken, Received
<1>5. call[Conn] = Idle /\ Recorded = {}
  BY <1>2, SessionAssumption DEF SessionInit, Init, Recorded
<1>6. Linked
  BY <1>2, <1>5, IdleFields DEF Linked
<1> QED
  BY <1>1, <1>3, <1>4, <1>6, SessionParts

\* The invariant of a websocket connection beside the other requests.
THEOREM SessionInvariance == SessionSpec => []SessionInv
<1>1. SessionInv /\ [SessionNext]_all => SessionInv'
  BY SessionNextInv
<1> QED
  BY SessionInitInv, <1>1, PTL DEF SessionSpec

\* The variables of the session keep their types, and those of the store.
THEOREM SessionTypeCorrect == SessionSpec => []SessionTypeOK
<1>1. SessionInv => SessionTypeOK
  BY DEF SessionInv
<1> QED
  BY SessionInvariance, <1>1, PTL

\* A connection is authenticated exactly as long as the timer of its latest token runs
\* (MessagingProtocol._auth_start, _deauthenticate).
THEOREM LatestTokenCuts == SessionSpec => []CutByLatestToken
<1>1. SessionInv => CutByLatestToken
  BY DEF SessionInv
<1> QED
  BY SessionInvariance, <1>1, PTL

\* A notification is delivered when the whole of its request is here and not before,
\* however the network cuts it (NotificationProtocol.data_received).
THEOREM WholeIsDelivered == SessionSpec => []DeliveredWhole
<1>1. ASSUME SessionInv PROVE DeliveredWhole
  <2>1. http.state \in {"none", "INIT", "HEADERS", "BODY", "sent"} /\ http.data \in Nat
    BY <1>1, SessionTypes, TotalIsNumber DEF Listener
  <2>2. Received
    BY ZenonT(30), <1>1 DEF SessionInv
  <2> QED
    BY <2>1, <2>2, TotalIsNumber DEF Received, DeliveredWhole
<1> QED
  BY SessionInvariance, <1>1, PTL

\* When a connection has closed and onClose is done, none of the subscriptions it was
\* told of is left on MongoDB and Redis, unless the store failed the deletion
\* (ProtocolFactory.unregister, Handler.clean_subscriptions).
THEOREM NoneLeft == SessionSpec => []ClosedLeavesNone
<1>1. ASSUME SessionInv PROVE ClosedLeavesNone
  BY <1>1, IdleFields DEF SessionInv, ClosedLeavesNone, Free, Kept, Gone
<1> QED
  BY SessionInvariance, <1>1, PTL

===============================================================================
