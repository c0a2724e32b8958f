--------------------------- MODULE RedisClaimsProofs --------------------------
(* Proofs about RedisClaims, for any number of messages, claims and deleters, *)
(* any TTLs, limits and batch size, and any bound of the clock.               *)
EXTENDS RedisClaims, FiniteSetTheorems, TLAPS

\* A message that the queue owes its clients.
Live(m) == m \notin removed /\ due[m] > now

\* The key, the fields and the TTL that a write-back would restart all outlast
\* the TTL the message was posted with; only indexed messages are deleted, and
\* the ids of deleted ones are out of the set.
MsgSane(m) ==
    /\ m \in acked => due[m] # 0
    /\ m \in removed => m \in acked /\ msgset[m] = 0
    /\ msgset[m] # 0 => m \in acked
    /\ Live(m) =>
          /\ hash[m].end >= due[m] /\ hash[m].body
          /\ hash[m].env.e >= due[m] /\ now + hash[m].env.t >= due[m]
          /\ m \in acked => msgset[m] # 0

\* A call knows indexed messages only, and the envelopes that it will write back
\* outlast the posted TTLs too, however late they are written.
CallSane(r) ==
    /\ r.ids \subseteq acked
    /\ r.pc \in {"update", "release"} =>
          \A m \in r.ids :
              Live(m) => r.env[m].e >= due[m] /\ now + r.env[m].t >= due[m]
    /\ r.pc \in {"read", "persist", "update"} => r.exp <= now + r.ttl

\* The keys of a running claim last as long as its member of the claims set.
ClaimSane(c) ==
    /\ claim[c].ids \subseteq acked
    /\ cset[c] > now => claim[c].end >= cset[c] /\ claim[c].e = cset[c]

\* The garbage collector has seen that its messages are gone.
GcSane == gc.dead \subseteq acked /\ \A m \in gc.dead : ~Live(m)

\* The inductive invariant.
IInv ==
    /\ TypeOK /\ counter # 0
    /\ \A m \in Msgs : MsgSane(m)
    /\ \A c \in Claims : ClaimSane(c) /\ CallSane(call[c])
    /\ \A d \in Deleters : del[d].ids \subseteq acked
    /\ GcSane

-------------------------------------------------------------------------------
\* What the records are made of.
LEMMA HashFields ==
  ASSUME TypeOK, NEW m \in Msgs
  PROVE  /\ hash[m] \in Hash /\ hash[m].end \in Nat /\ hash[m].body \in BOOLEAN
         /\ hash[m].env \in Envelope /\ hash[m].env.c \in Claims \cup {NoClaim}
         /\ hash[m].env.ce \in Nat /\ hash[m].env.t \in Nat /\ hash[m].env.e \in Nat
  BY DEF TypeOK, Hash, Envelope

LEMMA CallFields ==
  ASSUME NEW r \in Call
  PROVE  /\ r.pop \in BOOLEAN /\ r.exp \in Nat /\ r.ttl \in Nat /\ r.ids \subseteq Msgs
         /\ r.env \in [Msgs -> Envelope] /\ r.own \in Owners
  BY DEF Call

LEMMA ClaimFields ==
  ASSUME TypeOK, NEW c \in Claims
  PROVE  /\ claim[c] \in Claim /\ claim[c].ids \subseteq Msgs /\ claim[c].e \in Nat
         /\ claim[c].n \in Int /\ claim[c].end \in Nat /\ cset[c] \in Nat
         /\ call[c] \in Call
  BY DEF TypeOK, Claim

LEMMA IInvTypes == IInv => TypeOK /\ counter # 0
  BY DEF IInv

LEMMA IdleType == Idle \in Call
<1>1. NoEnvelope \in Envelope /\ NoOwner \in Owners
  BY DEF NoEnvelope, Envelope, NoOwner, Owners
<1> QED
  BY <1>1 DEF Idle, Call

LEMMA EndedCall ==
  ASSUME NEW pc \in {"done", "open"}
  PROVE  /\ [Idle EXCEPT !.pc = pc] \in Call
         /\ CallSane([Idle EXCEPT !.pc = pc]) /\ CallSane([Idle EXCEPT !.pc = pc])'
<1>1. [Idle EXCEPT !.pc = pc] \in Call
  BY IdleType, Zenon DEF Call
<1>2. [Idle EXCEPT !.pc = pc].pc = pc /\ [Idle EXCEPT !.pc = pc].ids = {}
  BY DEF Idle
<1> QED
  BY <1>1, <1>2 DEF CallSane

-------------------------------------------------------------------------------
\* Time and the history only go forward.
Forward ==
    /\ now <= now'
    /\ acked \subseteq acked' /\ removed \subseteq removed'
    /\ \A m \in acked : due'[m] = due[m]

\* What a call knows stays true.
LEMMA CallKept ==
  ASSUME TypeOK, TypeOK', Forward, NEW r \in Call, CallSane(r)
  PROVE  CallSane(r)'
<1>1. r.ids \subseteq acked'
  BY Zenon DEF Forward, CallSane
<1>2. ASSUME r.pc \in {"update", "release"}, NEW m \in r.ids, Live(m)'
      PROVE  r.env[m].e >= due'[m] /\ now' + r.env[m].t >= due'[m]
  <2>1. m \in Msgs /\ r.env[m] \in Envelope
    BY CallFields
  <2>2. due'[m] = due[m] /\ Live(m)
    BY <1>2, <2>1 DEF CallSane, Forward, Live, TypeOK
  <2>3. r.env[m].t \in Nat /\ due[m] \in Nat /\ now \in Nat /\ now' \in Nat
    BY Zenon, <2>1 DEF Envelope, TypeOK
  <2> QED
    BY <1>2, <2>2, <2>3 DEF CallSane, Forward
<1>3. r.pc \in {"read", "persist", "update"} => r.exp <= now' + r.ttl
  BY CallFields DEF CallSane, Forward, TypeOK
<1> QED
  BY Zenon, <1>1, <1>2, <1>3 DEF CallSane

LEMMA CallsKept ==
  ASSUME IInv, TypeOK', Forward, UNCHANGED call
  PROVE  \A c \in Claims : CallSane(call[c])'
<1> SUFFICES ASSUME NEW c \in Claims PROVE CallSane(call[c])'
  OBVIOUS
<1>1. PICK r \in Call : r = call[c]
  BY Zenon, ClaimFields, IInvTypes
<1>2. CallSane(r)
  BY Zenon, <1>1 DEF IInv
<1>3. CallSane(r)'
  BY <1>2, CallKept DEF IInv
<1> QED
  BY Zenon, <1>1, <1>3

LEMMA CallSet ==
  ASSUME IInv, TypeOK', Forward, NEW c \in Claims, NEW r \in Call, CallSane(r)',
         call' = [call EXCEPT ![c] = r]
  PROVE  \A d \in Claims : CallSane(call[d])'
<1> SUFFICES ASSUME NEW d \in Claims PROVE CallSane(call[d])'
  OBVIOUS
<1>1. CASE d = c
  <2>1. call'[d] = r
    BY <1>1, IInvTypes DEF TypeOK
  <2> QED
    BY <2>1
<1>2. CASE d # c
  <2>1. PICK q \in Call : q = call[d]
    BY ClaimFields, IInvTypes
  <2>2. call'[d] = q
    BY Zenon, <1>2, <2>1, IInvTypes DEF TypeOK
  <2>3. CallSane(q)
    BY <2>1 DEF IInv
  <2>4. CallSane(q)'
    BY <2>3, CallKept DEF IInv
  <2> QED
    BY <2>2, <2>4
<1> QED
  BY <1>1, <1>2

\* What the garbage collector knows stays true.
LEMMA GcKept ==
  ASSUME IInv, TypeOK', Forward, gc'.dead \subseteq gc.dead
  PROVE  GcSane'
<1>1. gc.dead \subseteq acked /\ \A m \in gc.dead : ~Live(m)
  BY DEF IInv, GcSane
<1>2. ASSUME NEW m \in gc'.dead PROVE m \in acked' /\ ~Live(m)'
  BY SMTT(30), <1>1 DEF Forward, Live, TypeOK, IInv
<1> QED
  BY <1>2 DEF GcSane

\* A claim whose keys are left alone.
LEMMA ClaimKept ==
  ASSUME IInv, TypeOK', Forward, NEW c \in Claims,
         claim'[c] = claim[c], cset'[c] = cset[c] \/ cset'[c] = 0
  PROVE  ClaimSane(c)'
  BY SMTT(30), ClaimFields DEF IInv, ClaimSane, Forward, TypeOK

\* A message that is left alone.
LEMMA MsgKept ==
  ASSUME IInv, TypeOK', Forward, NEW m \in Msgs,
         hash'[m] = hash[m], msgset'[m] = msgset[m], due'[m] = due[m],
         m \in acked' => m \in acked, m \in removed' => m \in removed
  PROVE  MsgSane(m)'
  BY HashFields DEF IInv, MsgSane, Live, Forward, TypeOK

-------------------------------------------------------------------------------
LEMMA InitIInv == Init => IInv
<1> SUFFICES ASSUME Init PROVE IInv
  OBVIOUS
<1>1. NoHash \in Hash /\ NoInfo \in Claim /\ NoDeletion \in Deletion
  BY DEF NoHash, Hash, NoEnvelope, Envelope, NoInfo, Claim, NoDeletion, Deletion, NoOwner,
         Owners
<1>2. gc \in Gc /\ gc.dead = {}
  BY DEF Init, Gc
<1>3. TypeOK /\ counter # 0
  BY <1>1, <1>2, IdleType DEF Init, TypeOK
<1>4. \A m \in Msgs : MsgSane(m)
  BY SMTT(30) DEF Init, MsgSane, Live
<1>5. \A c \in Claims : ClaimSane(c) /\ CallSane(call[c])
  BY DEF Init, ClaimSane, CallSane, NoInfo, Idle
<1>6. \A d \in Deleters : del[d].ids \subseteq acked
  BY Zenon DEF Init, NoDeletion
<1> QED
  BY Zenon, <1>2, <1>3, <1>4, <1>5, <1>6 DEF IInv, GcSane

\* A step that changes one call, and that may drop members of the claims set.
LEMMA CallStep ==
  ASSUME IInv, NEW c \in Claims, NEW r \in Call, CallSane(r),
         call' = [call EXCEPT ![c] = r],
         cset' \in [Claims -> Nat], \A d \in Claims : cset'[d] = cset[d] \/ cset'[d] = 0,
         UNCHANGED <<now, hash, msgset, counter, claim, del, gc, due, acked, removed>>
  PROVE  IInv'
<1>1. TypeOK' /\ counter' # 0 /\ Forward
  <2>1. call' \in [Claims -> Call]
    BY Zenon, IInvTypes DEF TypeOK
  <2>2. now' \in Nat /\ hash' \in [Msgs -> Hash] /\ msgset' \in [Msgs -> Nat]
    BY IInvTypes DEF TypeOK
  <2> QED
    BY SMTT(30), <2>1, <2>2, IInvTypes DEF TypeOK, Forward
<1>2. CallSane(r)'
  BY <1>1, CallKept DEF IInv
<1>3. \A d \in Claims : CallSane(call[d])'
  BY <1>1, <1>2, CallSet, Zenon
<1>4. \A d \in Claims : ClaimSane(d)'
  BY Zenon, <1>1, ClaimKept
<1>5. \A m \in Msgs : MsgSane(m)'
  BY Zenon, <1>1, MsgKept
<1>6. GcSane'
  BY Zenon, <1>1, GcKept
<1> QED
  BY ZenonT(30), <1>1, <1>3, <1>4, <1>5, <1>6 DEF IInv

\* A call that ends.
LEMMA EndsFacts ==
  ASSUME IInv, NEW c \in Claims, Ends(c)
  PROVE  \E r \in Call : CallSane(r) /\ CallSane(r)' /\ call' = [call EXCEPT ![c] = r]
<1>1. PICK pc \in {"done", "open"} : call' = [call EXCEPT ![c] = [Idle EXCEPT !.pc = pc]]
  BY Zenon DEF Ends
<1> QED
  BY <1>1, EndedCall, Zenon

LEMMA EndsStep ==
  ASSUME IInv, NEW c \in Claims, Ends(c),
         cset' \in [Claims -> Nat], \A d \in Claims : cset'[d] = cset[d] \/ cset'[d] = 0,
         UNCHANGED <<now, hash, msgset, counter, claim, del, gc, due, acked, removed>>
  PROVE  IInv'
  BY SMTT(30), EndsFacts, CallStep

-------------------------------------------------------------------------------
LEMMA PostWriteIInv ==
  ASSUME IInv, NEW m \in Msgs, PostWrite(m)
  PROVE  IInv'
<1>1. PICK ttl \in MsgTtls :
        /\ hash' = [hash EXCEPT ![m] =
                         [env |-> [c |-> NoClaim, ce |-> now, t |-> ttl, e |-> now + ttl],
                          body |-> TRUE, end |-> now + ttl]]
        /\ due' = [due EXCEPT ![m] = now + ttl]
  BY Zenon DEF PostWrite
<1>2. ttl \in Nat /\ now \in Nat
  BY SMTT(30), RedisClaimsAssumption, IInvTypes DEF TypeOK
<1> DEFINE env == [c |-> NoClaim, ce |-> now, t |-> ttl, e |-> now + ttl]
           h == [env |-> env, body |-> TRUE, end |-> now + ttl]
<1>3. h \in Hash /\ h.env.e = now + ttl /\ h.env.t = ttl /\ h.body /\ h.end = now + ttl
  BY <1>2 DEF Envelope, Hash
<1>4. hash' = [hash EXCEPT ![m] = h]
  BY Zenon, <1>1
<1> HIDE DEF h
<1>5. TypeOK'
  <2>1. hash' \in [Msgs -> Hash]
    BY Zenon, <1>3, <1>4, IInvTypes DEF TypeOK
  <2>2. due' \in [Msgs -> Nat]
    BY SMTT(30), <1>1, <1>2, IInvTypes DEF TypeOK
  <2> QED
    BY Zenon, <2>1, <2>2, IInvTypes DEF PostWrite, TypeOK
<1>6. m \notin acked
  BY ZenonT(30) DEF IInv, MsgSane, PostWrite
<1>7. Forward
  BY <1>1, <1>2, <1>6, IInvTypes DEF PostWrite, Forward, TypeOK
<1>8. ASSUME NEW k \in Msgs PROVE MsgSane(k)'
  <2>1. CASE k = m
    <3>1. hash'[k] = h /\ due'[k] = now + ttl
      BY Zenon, <2>1, <1>1, <1>4, IInvTypes DEF TypeOK
    <3>2. k \notin removed /\ msgset[k] = 0
      BY Zenon, <2>1, <1>6 DEF IInv, MsgSane
    <3> QED
      BY SMTT(30), <3>1, <3>2, <2>1, <1>2, <1>3, <1>6 DEF PostWrite, MsgSane, Live
  <2>2. CASE k # m
    <3>1. hash'[k] = hash[k] /\ due'[k] = due[k]
      BY Zenon, <2>2, <1>1, <1>4, IInvTypes DEF TypeOK
    <3> QED
      BY <3>1, <1>5, <1>7, MsgKept, Zenon DEF PostWrite
  <2> QED
    BY ZenonT(30), <2>1, <2>2
<1>9. \A c \in Claims : ClaimSane(c)' /\ CallSane(call[c])'
  BY Zenon, <1>5, <1>7, ClaimKept, CallsKept DEF PostWrite
<1> QED
  BY Zenon, <1>5, <1>7, <1>8, <1>9, GcKept DEF PostWrite, IInv

LEMMA PostIndexIInv ==
  ASSUME IInv, NEW m \in Msgs, PostIndex(m)
  PROVE  IInv'
<1>1. TypeOK' /\ counter' # 0 /\ Forward
  BY IInvTypes DEF PostIndex, TypeOK, Forward
<1>2. ASSUME NEW k \in Msgs PROVE MsgSane(k)'
  <2>1. CASE k = m
    <3>1. msgset'[k] = counter /\ k \notin removed
      BY Zenon, <2>1 DEF PostIndex, IInv, TypeOK, MsgSane
    <3> QED
      BY Zenon, <2>1, <3>1 DEF PostIndex, IInv, MsgSane, Live
  <2>2. CASE k # m
    <3>1. msgset'[k] = msgset[k] /\ (k \in acked' <=> k \in acked)
      BY Zenon, <2>2, IInvTypes DEF PostIndex, TypeOK
    <3> QED
      BY Zenon, <3>1, <1>1, MsgKept DEF PostIndex
  <2> QED
    BY Zenon, <2>1, <2>2
<1>3. \A c \in Claims : ClaimSane(c)' /\ CallSane(call[c])'
  BY ZenonT(30), <1>1, ClaimKept, CallsKept DEF PostIndex
<1> QED
  BY ZenonT(30), <1>1, <1>2, <1>3, GcKept DEF PostIndex, IInv

-------------------------------------------------------------------------------
\* Only messages that are gone are cleaned up.
LEMMA LiveExists ==
  ASSUME IInv, NEW m \in Msgs, Live(m)
  PROVE  Exists(m)
  BY SMTT(30), HashFields DEF IInv, MsgSane, Live, Exists, TypeOK

\* A claim call or the garbage collector takes ids of dead messages out of the set.
LEMMA WithoutDead ==
  ASSUME IInv, NEW ids \in SUBSET Msgs, \A m \in ids : ~Live(m), msgset' = Without(ids)
  PROVE  /\ msgset' \in [Msgs -> Nat]
         /\ \A m \in Msgs : msgset'[m] \in {0, msgset[m]}
         /\ \A m \in Msgs : Live(m) => msgset'[m] = msgset[m]
  BY DEF Without, IInv, TypeOK

\* What claiming and renewing write into an envelope.
LEMMA TaggedFacts ==
  ASSUME NEW env \in Envelope, NEW c \in Claims \cup {NoClaim}, NEW exp \in Nat, NEW ttl \in Nat,
         NEW grace \in Nat
  PROVE  /\ Tagged(env, c, exp, ttl, grace) \in Envelope
         /\ Tagged(env, c, exp, ttl, grace).t = IF env.e < exp THEN ttl + grace ELSE env.t
         /\ Tagged(env, c, exp, ttl, grace).e = IF env.e < exp THEN exp + grace ELSE env.e
<1> DEFINE t == IF env.e < exp THEN ttl + grace ELSE env.t
           e == IF env.e < exp THEN exp + grace ELSE env.e
           x == [env EXCEPT !.c = c, !.ce = exp, !.t = t, !.e = e]
<1>1. t \in Nat /\ e \in Nat
  BY DEF Envelope
<1>2. Tagged(env, c, exp, ttl, grace) = x
  BY DEF Tagged
<1> HIDE DEF t, e
<1>3. x \in Envelope
  BY <1>1, Zenon DEF Envelope
<1>4. x.t = t /\ x.e = e
  BY DEF Envelope
<1> QED
  BY Zenon, <1>2, <1>3, <1>4 DEF t, e

LEMMA RenewedFacts ==
  ASSUME NEW env \in Envelope, NEW c \in Claims \cup {NoClaim}, NEW exp \in Nat, NEW ttl \in Nat,
         NEW grace \in Nat
  PROVE  /\ Renewed(env, c, exp, ttl, grace) \in Envelope
         /\ Renewed(env, c, exp, ttl, grace).t = IF env.e <= exp THEN ttl + grace ELSE env.t
         /\ Renewed(env, c, exp, ttl, grace).e = IF env.e <= exp THEN exp + grace ELSE env.e
<1> DEFINE t == IF env.e <= exp THEN ttl + grace ELSE env.t
           e == IF env.e <= exp THEN exp + grace ELSE env.e
           x == [env EXCEPT !.c = c, !.ce = exp, !.t = t, !.e = e]
<1>1. t \in Nat /\ e \in Nat
  BY DEF Envelope
<1>2. Renewed(env, c, exp, ttl, grace) = x
  BY Zenon DEF Renewed
<1> HIDE DEF t, e
<1>3. x \in Envelope
  BY <1>1, Zenon DEF Envelope
<1>4. x.t = t /\ x.e = e
  BY DEF Envelope
<1> QED
  BY Zenon, <1>2, <1>3, <1>4 DEF t, e

LEMMA ClaimMessagesIInv ==
  ASSUME IInv, NEW c \in Claims, NEW pop \in BOOLEAN, NEW ttl \in Nat, NEW grace \in Nat,
         NEW limit, ClaimMessages(c, pop, ttl, grace, limit)
  PROVE  IInv'
<1> DEFINE T == Taken(limit)
           exp == now + ttl
           tag(m) == Tagged(hash[m].env, c, exp, ttl, grace)
           next == IF T = {} THEN [Idle EXCEPT !.pc = "done"]
                   ELSE [Idle EXCEPT !.pc = "read", !.pop = pop, !.exp = exp, !.ttl = ttl,
                                     !.ids = T]
<1>1. /\ hash' = [m \in Msgs |-> IF m \in T THEN [hash[m] EXCEPT !.env = tag(m)] ELSE hash[m]]
      /\ msgset' = Without(Cleanup)
      /\ call' = [call EXCEPT ![c] = next]
      /\ UNCHANGED <<now, counter, claim, cset, del, gc, due, acked, removed>>
  BY Zenon DEF ClaimMessages
<1>2. T \subseteq Msgs /\ T \subseteq acked /\ exp \in Nat /\ now \in Nat
  BY DEF Taken, Members, IInv, MsgSane, TypeOK
<1>3. Cleanup \subseteq Msgs /\ \A m \in Cleanup : ~Live(m)
  BY LiveExists DEF Cleanup, Members
<1> HIDE DEF T, exp
<1>0. next \in Call /\ CallSane(next)
  <2>1. CASE T = {}
    BY <2>1, EndedCall
  <2>2. CASE T # {}
    <3> DEFINE q == [Idle EXCEPT !.pc = "read", !.pop = pop, !.exp = exp, !.ttl = ttl, !.ids = T]
    <3>1. q \in Call
      BY <1>2, IdleType, Zenon DEF Call
    <3>2. q.pc = "read" /\ q.exp = exp /\ q.ttl = ttl /\ q.ids = T
      BY DEF Idle
    <3>3. CallSane(q)
      BY <1>2, <3>2 DEF CallSane, exp
    <3> QED
      BY Zenon, <2>2, <3>1, <3>3
  <2> QED
    BY <2>1, <2>2
<1> HIDE DEF next
<1>4. PICK r \in Call : CallSane(r) /\ call' = [call EXCEPT ![c] = r]
  BY <1>0, <1>1, ZenonT(30)
<1>5. ASSUME NEW m \in Msgs
      PROVE  /\ hash'[m] \in Hash
             /\ hash'[m].end = hash[m].end /\ hash'[m].body = hash[m].body
             /\ hash'[m].env.e >= hash[m].env.e
             /\ \/ hash'[m].env.t = hash[m].env.t
                \/ now + hash'[m].env.t >= hash[m].env.e
  <2>1. hash[m] \in Hash /\ hash[m].env \in Envelope /\ hash[m].env.e \in Nat
    BY ZenonT(30), HashFields, IInvTypes
  <2>2. CASE m \in T
    <3>1. /\ tag(m) \in Envelope
          /\ tag(m).t = IF hash[m].env.e < exp THEN ttl + grace ELSE hash[m].env.t
          /\ tag(m).e = IF hash[m].env.e < exp THEN exp + grace ELSE hash[m].env.e
      <4>1. c \in Claims \cup {NoClaim}
        OBVIOUS
      <4>2. PICK env \in Envelope : env = hash[m].env
        BY <2>1
      <4>3. tag(m) = Tagged(env, c, exp, ttl, grace)
        BY Zenon, <4>2
      <4>4. /\ Tagged(env, c, exp, ttl, grace) \in Envelope
            /\ Tagged(env, c, exp, ttl, grace).t = IF env.e < exp THEN ttl + grace ELSE env.t
            /\ Tagged(env, c, exp, ttl, grace).e = IF env.e < exp THEN exp + grace ELSE env.e
        BY SMTT(30), <1>2, <4>1, TaggedFacts
      <4> QED
        BY SMTT(30), <4>2, <4>3, <4>4
    <3>2. hash'[m] = [hash[m] EXCEPT !.env = tag(m)]
      BY Zenon, <1>1, <2>2
    <3> HIDE DEF tag
    <3>3. /\ hash'[m] \in Hash /\ hash'[m].env = tag(m)
          /\ hash'[m].end = hash[m].end /\ hash'[m].body = hash[m].body
      BY ZenonT(30), <2>1, <3>1, <3>2 DEF Hash
    <3> QED
      BY SMTT(30), <1>2, <2>1, <3>1, <3>3 DEF exp
  <2>3. CASE m \notin T
    BY SMTT(30), <1>1, <2>1, <2>3
  <2> QED
    BY Zenon, <2>2, <2>3
<1>6. /\ msgset' \in [Msgs -> Nat]
      /\ \A m \in Msgs : msgset'[m] \in {0, msgset[m]}
      /\ \A m \in Msgs : Live(m) => msgset'[m] = msgset[m]
  BY Zenon, <1>1, <1>3, WithoutDead
<1>7. TypeOK' /\ counter' # 0
  <2>1. hash' \in [Msgs -> Hash]
    BY <1>1, <1>5
  <2>2. call' \in [Claims -> Call]
    BY Zenon, <1>1, <1>4, IInvTypes DEF TypeOK
  <2> QED
    BY ZenonT(30), <1>1, <1>6, <2>1, <2>2, IInvTypes DEF TypeOK
<1>8. Forward
  BY SMTT(30), <1>1, <1>2 DEF Forward
<1>9. ASSUME NEW m \in Msgs PROVE MsgSane(m)'
  <2>1. MsgSane(m) /\ due[m] \in Nat
    BY DEF IInv, TypeOK
  <2>2. Live(m)' => Live(m)
    BY Zenon, <1>1 DEF Live
  <2>3. hash[m].env.e \in Nat /\ hash[m].env.t \in Nat /\ hash'[m].env.e \in Nat
        /\ hash'[m].env.t \in Nat
    BY ZenonT(30), <1>7, HashFields, IInvTypes DEF TypeOK, Hash, Envelope
  <2>4. Live(m) => hash'[m].env.e >= due[m] /\ now + hash'[m].env.t >= due[m]
    BY SMTT(30), <1>2, <1>5, <2>1, <2>3 DEF MsgSane
  <2> QED
    BY ZenonT(30), <1>1, <1>5, <1>6, <2>1, <2>2, <2>4 DEF MsgSane
<1>10. CallSane(r)'
  BY Zenon, <1>4, <1>7, <1>8, CallKept DEF IInv
<1>11. \A d \in Claims : CallSane(call[d])'
  BY <1>1, <1>4, <1>7, <1>8, <1>10, CallSet, ZenonT(30)
<1>12. \A d \in Claims : ClaimSane(d)'
  BY Zenon, <1>1, <1>7, <1>8, ClaimKept
<1>13. GcSane'
  BY Zenon, <1>1, <1>7, <1>8, GcKept
<1> QED
  BY Zenon, <1>1, <1>7, <1>9, <1>11, <1>12, <1>13 DEF IInv

LEMMA CreateIInv ==
  ASSUME IInv, NEW c \in Claims, Create(c)
  PROVE  IInv'
  BY ClaimMessagesIInv, RedisClaimsAssumption, Zenon DEF Create

LEMMA ReadBackIInv ==
  ASSUME IInv, NEW c \in Claims, ReadBack(c)
  PROVE  IInv'
<1>1. cset' \in [Claims -> Nat] /\ UNCHANGED <<cset, keys>>
  BY IInvTypes DEF ReadBack, keys, TypeOK
<1>2. CASE Ends(c)
  BY Zenon, <1>1, <1>2, EndsStep DEF ReadBack, keys
<1>3. CASE call' = [call EXCEPT ![c].pc = "persist"]
  <2>1. PICK q \in Call : q = call[c]
    BY Zenon, ClaimFields, IInvTypes
  <2> DEFINE r == [q EXCEPT !.pc = "persist"]
  <2>2. r \in Call /\ r.pc = "persist" /\ r.ids = q.ids /\ r.exp = q.exp /\ r.ttl = q.ttl
    BY Zenon DEF Call
  <2>3. CallSane(r)
    BY Zenon, <2>1, <2>2 DEF IInv, ReadBack, CallSane
  <2>4. call' = [call EXCEPT ![c] = r]
    BY <1>3, <2>1
  <2> HIDE DEF r
  <2> QED
    BY <1>1, <2>2, <2>3, <2>4, CallStep, ZenonT(30) DEF ReadBack, keys
<1> QED
  BY Zenon, <1>2, <1>3 DEF ReadBack

LEMMA AbortIInv ==
  ASSUME IInv, NEW c \in Claims, Abort(c)
  PROVE  IInv'
  BY EndsStep, Zenon DEF Abort, keys, IInv, TypeOK

\* What a step that ends in one call and one claim leaves to show.
LEMMA ClaimStep ==
  ASSUME IInv, TypeOK', NEW c \in Claims, NEW r \in Call, CallSane(r),
         call' = [call EXCEPT ![c] = r], ClaimSane(c)',
         \A d \in Claims \ {c} : claim'[d] = claim[d] /\ cset'[d] = cset[d],
         \A m \in Msgs : MsgSane(m)',
         UNCHANGED <<now, counter, del, gc, due, acked, removed>>
  PROVE  IInv'
<1>1. Forward /\ counter' # 0
  BY SMTT(30), IInvTypes DEF Forward, TypeOK
<1>2. CallSane(r)'
  BY <1>1, CallKept DEF IInv
<1>3. \A d \in Claims : CallSane(call[d])'
  BY <1>1, <1>2, CallSet, ZenonT(30)
<1>4. \A d \in Claims : ClaimSane(d)'
  BY ZenonT(30), <1>1, ClaimKept
<1>5. GcSane'
  BY <1>1, GcKept
<1> QED
  BY <1>1, <1>3, <1>4, <1>5, ZenonT(30) DEF IInv

LEMMA PersistIInv ==
  ASSUME IInv, NEW c \in Claims, Persist(c)
  PROVE  IInv'
<1>1. PICK q \in Call : q = call[c]
  BY Zenon, ClaimFields, IInvTypes
<1>2. /\ q.pc = "persist" /\ CallSane(q) /\ q.ids \subseteq Msgs /\ q.exp \in Nat
      /\ q.ttl \in Nat /\ now \in Nat
  BY SMTT(30), <1>1, CallFields DEF Persist, IInv, TypeOK
<1> DEFINE i == [ids |-> q.ids, e |-> q.exp, n |-> Cardinality(q.ids), end |-> now + q.ttl]
<1>3. i \in Claim /\ i.ids = q.ids /\ i.e = q.exp /\ i.end = now + q.ttl
  <2>1. Cardinality(q.ids) \in Nat
    BY SMTT(30), <1>2, RedisClaimsAssumption, FS_Subset, FS_CardinalityType
  <2> QED
    BY SMTT(30), <1>2, <2>1 DEF Claim
<1>4. claim' = [claim EXCEPT ![c] = i] /\ cset' = [cset EXCEPT ![c] = q.exp]
  BY <1>1 DEF Persist
<1> HIDE DEF i
<1>5. PICK r \in Call : CallSane(r) /\ call' = [call EXCEPT ![c] = r]
  <2>1. CASE q.pop
    <3> DEFINE s == [q EXCEPT !.pc = "bulk"]
    <3>1. s \in Call /\ s.pc = "bulk" /\ s.ids = q.ids
      BY DEF Call
    <3>2. CallSane(s)
      BY Zenon, <1>2, <3>1 DEF CallSane
    <3>3. call' = [call EXCEPT ![c] = s]
      BY Zenon, <1>1, <2>1 DEF Persist
    <3> QED
      BY <3>1, <3>2, <3>3, Zenon
  <2>2. CASE ~q.pop
    BY <1>1, <2>2, EndedCall, Zenon DEF Persist
  <2> QED
    BY Zenon, <2>1, <2>2
<1>6. TypeOK'
  <2>1. claim' \in [Claims -> Claim] /\ cset' \in [Claims -> Nat]
    BY ZenonT(30), <1>2, <1>3, <1>4, IInvTypes DEF TypeOK
  <2>2. call' \in [Claims -> Call]
    BY SMTT(30), <1>5, IInvTypes DEF TypeOK
  <2> QED
    BY Zenon, <2>1, <2>2, IInvTypes DEF Persist, TypeOK
<1>7. /\ claim'[c] = i /\ cset'[c] = q.exp
      /\ \A d \in Claims \ {c} : claim'[d] = claim[d] /\ cset'[d] = cset[d]
  BY Zenon, <1>4, IInvTypes DEF TypeOK
<1>8. ClaimSane(c)'
  BY ZenonT(30), <1>2, <1>3, <1>7 DEF ClaimSane, CallSane, Persist
<1>9. \A m \in Msgs : MsgSane(m)'
  BY SMTT(30), <1>6, MsgKept DEF Persist, Forward, IInv, TypeOK
<1> QED
  BY <1>5, <1>6, <1>7, <1>8, <1>9, ClaimStep, ZenonT(30) DEF Persist

-------------------------------------------------------------------------------
\* A call that reads its claim goes on as it intends to, or ends.
LEMMA ReadsIInv ==
  ASSUME IInv, NEW c \in Claims, NEW r \in Call, CallSane(r), Reads(c, r)
  PROVE  IInv'
<1>1. cset' \in [Claims -> Nat] /\ \A d \in Claims : cset'[d] = cset[d] \/ cset'[d] = 0
  BY IInvTypes, SMTT(30) DEF Reads, TypeOK
<1>2. call' = [call EXCEPT ![c] = r] \/ Ends(c)
  BY Zenon DEF Reads
<1> QED
  BY ZenonT(30), <1>1, <1>2, CallStep, EndsStep DEF Reads

\* The envelope of a live message that a claim lists, as a renewal will write it.
LEMMA RenewedLasts ==
  ASSUME IInv, NEW m \in Msgs, NEW c \in Claims, NEW ttl \in Nat, NEW grace \in Nat
  PROVE  /\ Renewed(hash[m].env, c, now + ttl, ttl, grace) \in Envelope
         /\ Live(m) =>
              /\ Renewed(hash[m].env, c, now + ttl, ttl, grace).e >= due[m]
              /\ now + Renewed(hash[m].env, c, now + ttl, ttl, grace).t >= due[m]
<1>1. PICK env \in Envelope : env = hash[m].env
  BY Zenon, HashFields, IInvTypes
<1>2. PICK exp \in Nat : exp = now + ttl
  BY IInvTypes DEF TypeOK
<1>3. c \in Claims \cup {NoClaim}
  BY SMTT(30)
<1>4. /\ Renewed(env, c, exp, ttl, grace) \in Envelope
      /\ Renewed(env, c, exp, ttl, grace).t = IF env.e <= exp THEN ttl + grace ELSE env.t
      /\ Renewed(env, c, exp, ttl, grace).e = IF env.e <= exp THEN exp + grace ELSE env.e
  BY SMTT(30), <1>3, RenewedFacts
<1>5. Live(m) => env.e >= due[m] /\ now + env.t >= due[m]
  BY Zenon, <1>1 DEF IInv, MsgSane
<1>6. env.e \in Nat /\ env.t \in Nat /\ due[m] \in Nat /\ now \in Nat
  BY IInvTypes DEF Envelope, TypeOK
<1>7. Renewed(hash[m].env, c, now + ttl, ttl, grace) = Renewed(env, c, exp, ttl, grace)
  BY ZenonT(30), <1>1, <1>2
<1>8. Live(m) => /\ Renewed(env, c, exp, ttl, grace).e >= due[m]
                 /\ now + Renewed(env, c, exp, ttl, grace).t >= due[m]
  BY SMTT(30), <1>2, <1>4, <1>5, <1>6
<1> QED
  BY Zenon, <1>4, <1>7, <1>8

LEMMA UpdateIInv ==
  ASSUME IInv, NEW c \in Claims, Update(c)
  PROVE  IInv'
<1>1. PICK ttl \in ClaimTtls, grace \in Graces :
          Reads(c, [Idle EXCEPT !.pc = "update", !.exp = now + ttl, !.ttl = ttl,
                       !.ids = claim[c].ids,
                       !.env = [m \in Msgs |->
                                  IF m \in claim[c].ids
                                  THEN Renewed(hash[m].env, c, now + ttl, ttl, grace)
                                  ELSE NoEnvelope]])
  BY Zenon DEF Update
<1>2. ttl \in Nat /\ grace \in Nat
  BY Zenon, RedisClaimsAssumption
<1>3. PICK exp \in Nat : exp = now + ttl
  BY SMTT(30), <1>2, IInvTypes DEF TypeOK
<1>4. PICK ids \in SUBSET Msgs : ids = claim[c].ids
  BY ClaimFields, IInvTypes, SMTT(30)
<1> DEFINE new == [m \in Msgs |-> IF m \in ids
                                  THEN Renewed(hash[m].env, c, now + ttl, ttl, grace)
                                  ELSE NoEnvelope]
<1>5. /\ new \in [Msgs -> Envelope]
      /\ \A m \in ids : Live(m) => new[m].e >= due[m] /\ now + new[m].t >= due[m]
  <2>1. NoEnvelope \in Envelope
    BY DEF NoEnvelope, Envelope
  <2> QED
    BY ZenonT(30), <1>2, <2>1, RenewedLasts
<1>6. PICK env \in [Msgs -> Envelope] : env = new
  BY <1>5, Zenon
<1> DEFINE r == [Idle EXCEPT !.pc = "update", !.exp = exp, !.ttl = ttl, !.ids = ids, !.env = env]
<1>7. r \in Call
  BY <1>2, IdleType, Zenon DEF Call
<1>8. r.pc = "update" /\ r.exp = exp /\ r.ttl = ttl /\ r.ids = ids /\ r.env = env
  BY Zenon DEF Idle
<1>9. CallSane(r)
  <2>1. ids \subseteq acked
    BY Zenon, <1>4 DEF IInv, ClaimSane
  <2>2. \A m \in ids : Live(m) => env[m].e >= due[m] /\ now + env[m].t >= due[m]
    BY Zenon, <1>5, <1>6
  <2>3. now \in Nat /\ exp <= now + ttl
    BY SMTT(30), <1>2, <1>3, IInvTypes DEF TypeOK
  <2> HIDE DEF r
  <2> QED
    BY <1>8, <2>1, <2>2, <2>3, Zenon DEF CallSane
<1>10. Reads(c, r)
  BY Zenon, <1>1, <1>3, <1>4, <1>6
<1> HIDE DEF r
<1> QED
  BY Zenon, <1>7, <1>9, <1>10, ReadsIInv

LEMMA ReleaseIInv ==
  ASSUME IInv, NEW c \in Claims, Release(c)
  PROVE  IInv'
<1>1. PICK ids \in SUBSET Msgs : ids = claim[c].ids
  BY Zenon, ClaimFields, IInvTypes
<1>2. PICK q \in Call : q = call[c]
  BY Zenon, ClaimFields, IInvTypes
<1> DEFINE old(m) == [hash[m].env EXCEPT !.c = NoClaim, !.ce = now]
           new == [m \in Msgs |-> IF m \in ids THEN old(m) ELSE NoEnvelope]
<1>3. ASSUME NEW m \in Msgs
      PROVE  old(m) \in Envelope /\ old(m).e = hash[m].env.e /\ old(m).t = hash[m].env.t
  <2>1. hash[m].env \in Envelope /\ now \in Nat
    BY SMTT(30), HashFields, IInvTypes DEF TypeOK
  <2>2. NoClaim \in Claims \cup {NoClaim}
    OBVIOUS
  <2>3. old(m) \in Envelope
    BY <2>1, <2>2, ZenonT(30) DEF Envelope
  <2> QED
    BY ZenonT(30), <2>1, <2>3 DEF Envelope
<1> HIDE DEF old
<1>4. /\ new \in [Msgs -> Envelope]
      /\ \A m \in ids : Live(m) => new[m].e >= due[m] /\ now + new[m].t >= due[m]
  <2>1. NoEnvelope \in Envelope
    BY DEF NoEnvelope, Envelope
  <2>2. \A m \in ids : new[m] = old(m)
    BY SMTT(30)
  <2>3. \A m \in ids : Live(m) => hash[m].env.e >= due[m] /\ now + hash[m].env.t >= due[m]
    BY Zenon DEF IInv, MsgSane
  <2>4. new \in [Msgs -> Envelope]
    BY Zenon, <1>3, <2>1
  <2> QED
    BY ZenonT(30), <1>3, <2>2, <2>3, <2>4
<1>5. PICK env \in [Msgs -> Envelope] : env = new
  BY <1>4, Zenon
<1> DEFINE r == [q EXCEPT !.pc = "release", !.ids = ids, !.env = env]
<1>6. r \in Call
  BY Zenon DEF Call
<1>7. r.pc = "release" /\ r.ids = ids /\ r.env = env
  BY Zenon DEF Call
<1>8. CallSane(r)
  <2>1. ids \subseteq acked
    BY Zenon, <1>1 DEF IInv, ClaimSane
  <2> HIDE DEF r
  <2> QED
    BY Zenon, <1>4, <1>5, <1>7, <2>1 DEF CallSane
<1>9. Reads(c, r)
  BY <1>1, <1>2, <1>5, ZenonT(30) DEF Release, old
<1> HIDE DEF r
<1> QED
  BY Zenon, <1>6, <1>8, <1>9, ReadsIInv

\* A write-back keeps the messages sane, whatever happened since it was read: a
\* live message still has its body, and the envelope outlasts it.
LEMMA ToRedisSane ==
  ASSUME IInv, NEW r \in Call, CallSane(r), r.pc \in {"update", "release"},
         ToRedis(r.ids, r.env), UNCHANGED <<now, msgset, due, acked, removed>>
  PROVE  hash' \in [Msgs -> Hash] /\ \A m \in Msgs : MsgSane(m)'
<1>1. ASSUME NEW m \in Msgs PROVE hash'[m] \in Hash /\ MsgSane(m)'
  <2>1. CASE m \in r.ids
    <3>1. r.env[m] \in Envelope /\ r.env[m].t \in Nat /\ r.env[m].e \in Nat
      BY SMTT(30), CallFields DEF Envelope
    <3>2. now \in Nat /\ due[m] \in Nat /\ hash[m].body \in BOOLEAN
      BY ZenonT(30), HashFields, IInvTypes DEF TypeOK
    <3> DEFINE h == [env |-> r.env[m], body |-> hash[m].body, end |-> now + r.env[m].t]
    <3>3. h \in Hash /\ h.env = r.env[m] /\ h.body = hash[m].body /\ h.end = now + r.env[m].t
      BY SMTT(30), <3>1, <3>2 DEF Hash
    <3>4. hash'[m] = h
      BY SMTT(30), <2>1 DEF ToRedis
    <3> HIDE DEF h
    <3>5. MsgSane(m) /\ (Live(m)' <=> Live(m))
      BY Zenon DEF IInv, Live
    <3>6. Live(m) => r.env[m].e >= due[m] /\ now + r.env[m].t >= due[m]
      BY Zenon, <2>1 DEF CallSane
    <3> QED
      BY ZenonT(30), <3>3, <3>4, <3>5, <3>6 DEF MsgSane
  <2>2. CASE m \notin r.ids
    <3>1. hash'[m] = hash[m] /\ hash[m] \in Hash
      BY ZenonT(30), <2>2, IInvTypes DEF ToRedis, TypeOK
    <3> QED
      BY Zenon, <3>1 DEF IInv, MsgSane, Live
  <2> QED
    BY ZenonT(30), <2>1, <2>2
<1>2. hash' = [m \in Msgs |-> hash'[m]]
  BY DEF ToRedis
<1> QED
  BY Zenon, <1>1, <1>2

LEMMA UpdateWriteIInv ==
  ASSUME IInv, NEW c \in Claims, UpdateWrite(c)
  PROVE  IInv'
<1>1. PICK q \in Call : q = call[c]
  BY Zenon, ClaimFields, IInvTypes
<1>2. q.pc = "update" /\ CallSane(q) /\ q.exp \in Nat /\ q.ttl \in Nat /\ now \in Nat
  BY Zenon, <1>1, CallFields DEF UpdateWrite, IInv, TypeOK
<1>3. hash' \in [Msgs -> Hash] /\ \A m \in Msgs : MsgSane(m)'
  BY Zenon, <1>1, <1>2, ToRedisSane DEF UpdateWrite
<1> DEFINE i == [claim[c] EXCEPT !.e = q.exp, !.end = now + q.ttl]
<1>4. i \in Claim /\ i.ids = claim[c].ids /\ i.e = q.exp /\ i.end = now + q.ttl
  <2>1. claim[c] \in Claim /\ now + q.ttl \in Nat
    BY <1>2, ClaimFields, IInvTypes
  <2>2. i \in Claim
    BY <1>2, <2>1, Zenon DEF Claim
  <2> QED
    BY Zenon, <2>1, <2>2 DEF Claim
<1>5. claim' = [claim EXCEPT ![c] = i] /\ cset' = [cset EXCEPT ![c] = q.exp]
  BY <1>1, Zenon, IInvTypes DEF UpdateWrite, TypeOK, Claim
<1> HIDE DEF i
<1>6. PICK r \in Call : CallSane(r) /\ call' = [call EXCEPT ![c] = r]
  BY Zenon, EndsFacts DEF UpdateWrite
<1>7. TypeOK'
  <2>1. claim' \in [Claims -> Claim] /\ cset' \in [Claims -> Nat]
    BY ZenonT(30), <1>2, <1>4, <1>5, IInvTypes DEF TypeOK
  <2>2. call' \in [Claims -> Call]
    BY ZenonT(30), <1>6, IInvTypes DEF TypeOK
  <2> QED
    BY ZenonT(30), <1>3, <2>1, <2>2, IInvTypes DEF UpdateWrite, TypeOK
<1>8. /\ claim'[c] = i /\ cset'[c] = q.exp
      /\ \A d \in Claims \ {c} : claim'[d] = claim[d] /\ cset'[d] = cset[d]
  BY Zenon, <1>5, IInvTypes DEF TypeOK
<1>9. ClaimSane(c)'
  BY <1>2, <1>4, <1>8, Zenon DEF ClaimSane, CallSane, UpdateWrite, IInv
<1> QED
  BY <1>3, <1>6, <1>7, <1>8, <1>9, ClaimStep, ZenonT(30) DEF UpdateWrite

LEMMA ReleaseWriteIInv ==
  ASSUME IInv, NEW c \in Claims, ReleaseWrite(c)
  PROVE  IInv'
<1>1. PICK q \in Call : q = call[c]
  BY SMTT(30), ClaimFields, IInvTypes
<1>2. q.pc = "release" /\ CallSane(q)
  BY <1>1 DEF ReleaseWrite, IInv
<1>3. hash' \in [Msgs -> Hash] /\ \A m \in Msgs : MsgSane(m)'
  BY <1>1, <1>2, ToRedisSane, ZenonT(30) DEF ReleaseWrite
<1>4. NoInfo \in Claim /\ NoInfo.ids = {}
  BY DEF NoInfo, Claim
<1>5. claim' = [claim EXCEPT ![c] = NoInfo] /\ cset' = [cset EXCEPT ![c] = 0]
  BY Zenon DEF ReleaseWrite
<1>6. PICK r \in Call : CallSane(r) /\ call' = [call EXCEPT ![c] = r]
  BY ZenonT(30), EndsFacts DEF ReleaseWrite
<1>7. TypeOK'
  <2>1. claim' \in [Claims -> Claim] /\ cset' \in [Claims -> Nat]
    BY ZenonT(30), <1>4, <1>5, IInvTypes DEF TypeOK
  <2>2. call' \in [Claims -> Call]
    BY Zenon, <1>6, IInvTypes DEF TypeOK
  <2> QED
    BY <1>3, <2>1, <2>2, IInvTypes, SMTT(30) DEF ReleaseWrite, TypeOK
<1>8. /\ claim'[c] = NoInfo /\ cset'[c] = 0
      /\ \A d \in Claims \ {c} : claim'[d] = claim[d] /\ cset'[d] = cset[d]
  BY ZenonT(30), <1>5, IInvTypes DEF TypeOK
<1>9. ClaimSane(c)'
  BY SMTT(30), <1>4, <1>7, <1>8 DEF ClaimSane, TypeOK
<1> QED
  BY <1>3, <1>6, <1>7, <1>8, <1>9, ClaimStep, ZenonT(30) DEF ReleaseWrite

-------------------------------------------------------------------------------
\* Deleting messages keeps the messages and the claims sane.
LEMMA DeletedSane ==
  ASSUME IInv, NEW gone \in SUBSET Msgs, gone \subseteq acked, NEW own \in Owners,
         Deleted(gone, own), UNCHANGED <<now, cset, due, acked>>
  PROVE  /\ hash' \in [Msgs -> Hash] /\ msgset' \in [Msgs -> Nat]
         /\ claim' \in [Claims -> Claim] /\ removed' \in SUBSET Msgs
         /\ Forward
         /\ \A m \in Msgs : MsgSane(m)'
         /\ \A c \in Claims : ClaimSane(c)'
<1>1. NoHash \in Hash
  BY SMTT(30) DEF NoHash, Hash, NoEnvelope, Envelope
<1>2. /\ hash' \in [Msgs -> Hash] /\ msgset' \in [Msgs -> Nat] /\ removed' \in SUBSET Msgs
      /\ \A m \in gone : msgset'[m] = 0
      /\ \A m \in Msgs \ gone : hash'[m] = hash[m] /\ msgset'[m] = msgset[m]
  <2>1. hash' = [m \in Msgs |-> IF m \in gone THEN NoHash ELSE hash[m]]
    BY Zenon DEF Deleted
  <2>2. msgset' = [m \in Msgs |-> IF m \in gone THEN 0 ELSE msgset[m]]
    BY Zenon DEF Deleted, Without
  <2>3. removed' = removed \cup gone
    BY Zenon DEF Deleted
  <2>4. hash \in [Msgs -> Hash] /\ msgset \in [Msgs -> Nat] /\ removed \subseteq Msgs
    BY Zenon, IInvTypes DEF TypeOK
  <2>5. hash' \in [Msgs -> Hash] /\ \A m \in Msgs \ gone : hash'[m] = hash[m]
    BY ZenonT(30), <1>1, <2>1, <2>4
  <2> QED
    BY Zenon, <2>2, <2>3, <2>4, <2>5
<1>3. Forward
  <2>1. removed' = removed \cup gone /\ now \in Nat
    BY Zenon, IInvTypes DEF Deleted, TypeOK
  <2> QED
    BY <2>1 DEF Forward
<1>4. ASSUME NEW m \in Msgs PROVE MsgSane(m)'
  <2>1. MsgSane(m) /\ removed' = removed \cup gone
    BY ZenonT(30) DEF IInv, Deleted
  <2>2. CASE m \in gone
    BY Zenon, <1>2, <2>1, <2>2 DEF MsgSane, Live
  <2>3. CASE m \notin gone
    BY ZenonT(30), <1>2, <2>1, <2>3 DEF MsgSane, Live
  <2> QED
    BY Zenon, <2>2, <2>3
<1>5. ASSUME NEW c \in Claims PROVE claim'[c] \in Claim /\ ClaimSane(c)'
  <2> DEFINE of == {m \in gone : own[m] = c}
             end == IF claim[c].end = 0 THEN Never ELSE claim[c].end
             i == [claim[c] EXCEPT !.ids = claim[c].ids \ of, !.n = claim[c].n - Cardinality(of),
                                   !.end = end]
  <2>1. /\ claim[c] \in Claim /\ claim[c].ids \subseteq Msgs /\ claim[c].e \in Nat
        /\ claim[c].n \in Int /\ claim[c].end \in Nat /\ cset[c] \in Nat /\ now \in Nat
    BY Zenon, ClaimFields, IInvTypes DEF TypeOK
  <2>2. CASE of = {}
    <3>1. claim'[c] = claim[c]
      BY <2>2, ZenonT(30) DEF Deleted
    <3> QED
      BY Zenon, <2>1, <3>1 DEF IInv, ClaimSane
  <2>3. CASE of # {}
    <3>1. claim'[c] = i
      BY <2>3, ZenonT(30) DEF Deleted
    <3>2. Cardinality(of) \in Nat
      BY ZenonT(30), RedisClaimsAssumption, FS_Subset, FS_CardinalityType
    <3>3. end \in Nat /\ claim[c].n - Cardinality(of) \in Int /\ claim[c].ids \ of \in SUBSET Msgs
      BY SMTT(30), <2>1, <3>2, RedisClaimsAssumption DEF Never
    <3>4. i \in Claim
      <4> DEFINE n == claim[c].n - Cardinality(of)
                 ids == claim[c].ids \ of
      <4> HIDE DEF n, ids, end
      <4>1. [claim[c] EXCEPT !.ids = ids, !.n = n, !.end = end] \in Claim
        <5>1. ids \in SUBSET Msgs /\ n \in Int /\ end \in Nat
          BY <3>3 DEF n, ids
        <5> QED
          BY <2>1, <5>1, ZenonT(30) DEF Claim
      <4> QED
        BY <4>1 DEF n, ids
    <3>5. i.ids = claim[c].ids \ of /\ i.e = claim[c].e /\ i.end = end
      BY ZenonT(30), <2>1 DEF Claim
    <3>6. ClaimSane(c)
      BY DEF IInv
    <3> HIDE DEF i, of
    <3> QED
      BY SMTT(30), <2>1, <3>1, <3>4, <3>5, <3>6 DEF ClaimSane
  <2> QED
    BY Zenon, <2>2, <2>3
<1>6. claim' \in [Claims -> Claim]
  BY <1>5, ZenonT(30) DEF Deleted
<1> QED
  BY ZenonT(30), <1>2, <1>3, <1>4, <1>5, <1>6

\* The claims that a deletion reads.
LEMMA GetClaimsType ==
  ASSUME IInv, NEW ids \in SUBSET Msgs
  PROVE  GetClaims(ids) \in Owners
  BY HashFields, SMTT(30) DEF GetClaims, GetClaim, Owners, IInv

LEMMA DelSet ==
  ASSUME IInv, NEW d \in Deleters, NEW x \in Deletion, x.ids \subseteq acked,
         del' = [del EXCEPT ![d] = x],
         UNCHANGED <<now, keys, call, gc, due, acked, removed>>
  PROVE  IInv'
<1>1. TypeOK' /\ counter' # 0 /\ Forward
  BY IInvTypes, SMTT(30) DEF TypeOK, Forward, keys
<1>2. \A e \in Deleters : del'[e].ids \subseteq acked
  BY IInvTypes, SMTT(30) DEF IInv, TypeOK
<1>3. \A c \in Claims : ClaimSane(c)' /\ CallSane(call[c])'
  BY Zenon, <1>1, ClaimKept, CallsKept DEF keys
<1>4. \A m \in Msgs : MsgSane(m)'
  BY Zenon, <1>1, MsgKept DEF keys
<1>5. GcSane'
  BY Zenon, <1>1, GcKept
<1> QED
  BY <1>1, <1>2, <1>3, <1>4, <1>5, ZenonT(30) DEF IInv

LEMMA DeleteCheckIInv ==
  ASSUME IInv, NEW d \in Deleters, NEW m \in Msgs, NEW c, DeleteCheck(d, m, c)
  PROVE  IInv'
<1>1. PICK x \in Deletion : x = [ids |-> {m}, own |-> GetClaims({m})]
  BY GetClaimsType, ZenonT(30) DEF Deletion
<1>2. x.ids = {m} /\ m \in acked
  BY Zenon, <1>1 DEF DeleteCheck
<1> QED
  BY <1>1, <1>2, DelSet, Zenon DEF DeleteCheck

LEMMA BulkCheckIInv ==
  ASSUME IInv, NEW d \in Deleters, NEW ids \in SUBSET acked, BulkCheck(d, ids)
  PROVE  IInv'
<1>1. PICK found \in SUBSET Msgs : found = {m \in ids : Exists(m)}
  BY Zenon, IInvTypes DEF TypeOK
<1>2. PICK x \in Deletion : x = [ids |-> found, own |-> GetClaims(found)]
  BY GetClaimsType, Zenon DEF Deletion
<1>3. x.ids \subseteq acked
  BY Zenon, <1>1, <1>2
<1>4. del' = [del EXCEPT ![d] = x]
  BY ZenonT(30), <1>1, <1>2 DEF BulkCheck
<1> QED
  BY ZenonT(30), <1>3, <1>4, DelSet DEF BulkCheck

LEMMA DeleteExecuteIInv ==
  ASSUME IInv, NEW d \in Deleters, DeleteExecute(d)
  PROVE  IInv'
<1>1. PICK x \in Deletion : x = del[d]
  BY Zenon, IInvTypes DEF TypeOK
<1>2. x.ids \in SUBSET Msgs /\ x.ids \subseteq acked /\ x.own \in Owners
  BY SMTT(30), <1>1, IInvTypes DEF IInv, Deletion
<1>3. Deleted(x.ids, x.own)
  BY <1>1 DEF DeleteExecute
<1>4. /\ hash' \in [Msgs -> Hash] /\ msgset' \in [Msgs -> Nat]
      /\ claim' \in [Claims -> Claim] /\ removed' \in SUBSET Msgs
      /\ Forward
      /\ \A m \in Msgs : MsgSane(m)'
      /\ \A c \in Claims : ClaimSane(c)'
  BY <1>2, <1>3, DeletedSane, ZenonT(30) DEF DeleteExecute
<1>5. NoDeletion \in Deletion /\ NoDeletion.ids = {}
  BY ZenonT(30) DEF NoDeletion, Deletion, NoOwner, Owners
<1>6. del' \in [Deleters -> Deletion] /\ \A e \in Deleters : del'[e].ids \subseteq acked
  BY <1>5, IInvTypes, SMTT(30) DEF DeleteExecute, IInv, TypeOK
<1>7. TypeOK' /\ counter' # 0
  BY <1>4, <1>6, IInvTypes, ZenonT(30) DEF DeleteExecute, TypeOK
<1>8. \A c \in Claims : CallSane(call[c])'
  BY Zenon, <1>4, <1>7, CallsKept DEF DeleteExecute
<1>9. GcSane'
  BY <1>4, <1>7, GcKept, ZenonT(30) DEF DeleteExecute
<1> QED
  BY ZenonT(30), <1>4, <1>6, <1>7, <1>8, <1>9 DEF IInv, DeleteExecute

LEMMA PopCheckIInv ==
  ASSUME IInv, NEW c \in Claims, PopCheck(c)
  PROVE  IInv'
<1>1. PICK q \in Call : q = call[c]
  BY ClaimFields, IInvTypes
<1>2. PICK found \in SUBSET Msgs : found = {m \in q.ids : Exists(m)}
  BY CallFields, Zenon
<1>3. PICK own \in Owners : own = GetClaims(found)
  BY GetClaimsType
<1> DEFINE r == [q EXCEPT !.pc = "remove", !.ids = found, !.own = own]
<1>4. r \in Call
  BY Zenon DEF Call
<1>5. r.pc = "remove" /\ r.ids = found
  BY Zenon DEF Call
<1>6. CallSane(r)
  BY ZenonT(30), <1>1, <1>2, <1>5 DEF IInv, CallSane
<1>7. call' = [call EXCEPT ![c] = r]
  BY ZenonT(30), <1>1, <1>2, <1>3 DEF PopCheck
<1> HIDE DEF r
<1> QED
  BY <1>4, <1>6, <1>7, CallStep, ZenonT(30) DEF PopCheck, keys, IInv, TypeOK

LEMMA PopRemoveIInv ==
  ASSUME IInv, NEW c \in Claims, PopRemove(c)
  PROVE  IInv'
<1>1. PICK q \in Call : q = call[c]
  BY ClaimFields, IInvTypes
<1>2. q.ids \in SUBSET Msgs /\ q.ids \subseteq acked /\ q.own \in Owners
  BY <1>1, CallFields, Zenon DEF IInv, CallSane
<1>3. Deleted(q.ids, q.own)
  BY <1>1 DEF PopRemove
<1>4. /\ hash' \in [Msgs -> Hash] /\ msgset' \in [Msgs -> Nat]
      /\ claim' \in [Claims -> Claim] /\ removed' \in SUBSET Msgs
      /\ Forward
      /\ \A m \in Msgs : MsgSane(m)'
      /\ \A d \in Claims : ClaimSane(d)'
  BY <1>2, <1>3, DeletedSane, Zenon DEF PopRemove
<1> DEFINE r == [q EXCEPT !.pc = "drop", !.ids = {}, !.own = NoOwner]
<1>5. r \in Call
  <2>1. NoOwner \in Owners
    BY DEF NoOwner, Owners
  <2> QED
    BY <2>1, Zenon DEF Call
<1>6. r.pc = "drop" /\ r.ids = {}
  BY DEF Call
<1>7. CallSane(r)'
  BY <1>6 DEF CallSane
<1>8. call' = [call EXCEPT ![c] = r]
  BY Zenon, <1>1 DEF PopRemove
<1> HIDE DEF r
<1>9. TypeOK' /\ counter' # 0
  <2>1. call' \in [Claims -> Call]
    BY Zenon, <1>5, <1>8, IInvTypes DEF TypeOK
  <2> QED
    BY ZenonT(30), <1>4, <2>1, IInvTypes DEF PopRemove, TypeOK
<1>10. \A d \in Claims : CallSane(call[d])'
  BY <1>4, <1>5, <1>7, <1>8, <1>9, CallSet, ZenonT(30)
<1>11. GcSane'
  BY ZenonT(30), <1>4, <1>9, GcKept DEF PopRemove
<1> QED
  BY ZenonT(30), <1>4, <1>9, <1>10, <1>11 DEF IInv, PopRemove

-------------------------------------------------------------------------------
LEMMA GcStartIInv ==
  ASSUME IInv, GcStart
  PROVE  IInv'
<1>1. gc' \in Gc /\ gc'.dead = gc.dead
  BY Zenon, IInvTypes DEF GcStart, TypeOK, Gc
<1>2. cset' \in [Claims -> Nat] /\ \A c \in Claims : cset'[c] = cset[c] \/ cset'[c] = 0
  BY Zenon, IInvTypes DEF GcStart, TypeOK
<1>3. TypeOK' /\ counter' # 0 /\ Forward
  BY SMTT(30), <1>1, <1>2, IInvTypes DEF GcStart, TypeOK, Forward
<1>4. \A c \in Claims : ClaimSane(c)' /\ CallSane(call[c])'
  BY ZenonT(30), <1>2, <1>3, ClaimKept, CallsKept DEF GcStart
<1>5. \A m \in Msgs : MsgSane(m)'
  BY Zenon, <1>3, MsgKept DEF GcStart
<1>6. GcSane'
  BY Zenon, <1>1, <1>3, GcKept
<1> QED
  BY ZenonT(30), <1>3, <1>4, <1>5, <1>6 DEF IInv, GcStart

\* A slice of the set is some of its members.
LEMMA SliceFacts ==
  ASSUME IInv, NEW off, NEW n
  PROVE  /\ Slice(off, n) \in SUBSET Msgs /\ Slice(off, n) \subseteq acked
         /\ Cardinality(Slice(off, n)) \in Nat
<1>1. Slice(off, n) \in SUBSET Msgs /\ Slice(off, n) \subseteq acked
  BY DEF Slice, Members, IInv, MsgSane
<1> QED
  BY ZenonT(30), <1>1, RedisClaimsAssumption, FS_Subset, FS_CardinalityType

LEMMA GcScanIInv ==
  ASSUME IInv, GcScan
  PROVE  IInv'
<1> DEFINE mids == Slice(gc.off, GcBatch)
<1>1. mids \in SUBSET Msgs /\ mids \subseteq acked /\ Cardinality(mids) \in Nat
  BY ZenonT(30), SliceFacts
<1>2. gc' = IF mids = {}
            THEN [pc |-> "idle", off |-> 0, dead |-> {}]
            ELSE [pc |-> "remove", off |-> gc.off + Cardinality(mids),
                  dead |-> {m \in mids : ~Exists(m)}]
  BY SMTT(30) DEF GcScan
<1> HIDE DEF mids
<1>3. gc.off \in Nat
  BY Zenon, IInvTypes DEF TypeOK, Gc
<1>4. gc' \in Gc /\ \A m \in gc'.dead : m \in mids /\ ~Exists(m)
  <2>1. CASE mids = {}
    BY ZenonT(30), <1>2, <2>1 DEF Gc
  <2>2. CASE mids # {}
    BY SMTT(30), <1>1, <1>2, <1>3, <2>2 DEF Gc
  <2> QED
    BY ZenonT(30), <2>1, <2>2
<1>5. TypeOK' /\ counter' # 0 /\ Forward
  BY <1>4, IInvTypes, SMTT(30) DEF GcScan, keys, TypeOK, Forward
<1>6. GcSane'
  <2>1. \A m \in gc'.dead : m \in acked /\ ~Live(m)
    BY ZenonT(30), <1>1, <1>4, LiveExists
  <2> QED
    BY Zenon, <2>1 DEF GcSane, GcScan, Live
<1>7. \A c \in Claims : ClaimSane(c)' /\ CallSane(call[c])'
  BY <1>5, ClaimKept, CallsKept, ZenonT(30) DEF GcScan, keys
<1>8. \A m \in Msgs : MsgSane(m)'
  BY Zenon, <1>5, MsgKept DEF GcScan, keys
<1> QED
  BY <1>5, <1>6, <1>7, <1>8, ZenonT(30) DEF IInv, GcScan

LEMMA GcRemoveIInv ==
  ASSUME IInv, GcRemove
  PROVE  IInv'
<1>1. PICK dead \in SUBSET Msgs : dead = gc.dead
  BY IInvTypes, Zenon DEF TypeOK, Gc
<1>2. \A m \in dead : ~Live(m)
  BY <1>1 DEF IInv, GcSane
<1>3. /\ msgset' \in [Msgs -> Nat]
      /\ \A m \in Msgs : msgset'[m] \in {0, msgset[m]}
      /\ \A m \in Msgs : Live(m) => msgset'[m] = msgset[m]
  BY ZenonT(30), <1>1, <1>2, WithoutDead DEF GcRemove
<1>4. gc' \in Gc /\ gc'.dead \subseteq gc.dead
  BY Zenon, IInvTypes DEF GcRemove, TypeOK, Gc
<1>5. TypeOK' /\ counter' # 0 /\ Forward
  BY SMTT(30), <1>3, <1>4, IInvTypes DEF GcRemove, TypeOK, Forward
<1>6. ASSUME NEW m \in Msgs PROVE MsgSane(m)'
  BY <1>3 DEF GcRemove, IInv, MsgSane, Live
<1>7. \A c \in Claims : ClaimSane(c)' /\ CallSane(call[c])'
  BY ZenonT(30), <1>5, ClaimKept, CallsKept DEF GcRemove
<1>8. GcSane'
  BY ZenonT(30), <1>4, <1>5, GcKept
<1> QED
  BY ZenonT(30), <1>5, <1>6, <1>7, <1>8 DEF IInv, GcRemove

LEMMA TickIInv ==
  ASSUME IInv, Tick
  PROVE  IInv'
<1>1. NoHash \in Hash /\ NoInfo \in Claim /\ NoInfo.ids = {} /\ now \in Nat /\ now' = now + 1
  BY SMTT(30), IInvTypes DEF NoHash, Hash, NoEnvelope, Envelope, NoInfo, Claim, Tick, TypeOK
<1>2. /\ hash' \in [Msgs -> Hash]
      /\ \A m \in Msgs : hash[m].end > now' => hash'[m] = hash[m]
  <2>1. \A m \in Msgs : hash[m] \in Hash /\ hash[m].end \in Nat
    BY HashFields, ZenonT(30), IInvTypes
  <2> QED
    BY SMTT(30), <1>1, <2>1 DEF Tick
<1>3. /\ claim' \in [Claims -> Claim]
      /\ \A c \in Claims :
            (claim'[c] = NoInfo /\ claim[c].end <= now') \/ claim'[c] = claim[c]
  <2>1. \A c \in Claims : claim[c] \in Claim
    BY ClaimFields, IInvTypes, ZenonT(30)
  <2> QED
    BY ZenonT(30), <1>1, <2>1 DEF Tick
<1>4. TypeOK' /\ counter' # 0 /\ Forward
  BY <1>1, <1>2, <1>3, IInvTypes, SMTT(30) DEF Tick, TypeOK, Forward
<1>5. ASSUME NEW m \in Msgs PROVE MsgSane(m)'
  <2>1. /\ MsgSane(m) /\ due[m] \in Nat
        /\ hash[m].end \in Nat /\ hash[m].env.e \in Nat /\ hash[m].env.t \in Nat
    BY HashFields, ZenonT(30) DEF IInv, TypeOK
  <2>2. Live(m)' => Live(m) /\ due[m] > now'
    BY <1>1, <2>1, SMTT(30) DEF Live, Tick
  <2>3. Live(m)' => hash'[m] = hash[m]
    BY SMTT(30), <1>1, <1>2, <2>1, <2>2 DEF MsgSane
  <2>4. UNCHANGED <<msgset, due, acked, removed>>
    BY ZenonT(30) DEF Tick
  <2>5. Live(m)' => now' + hash[m].env.t >= due[m]
    BY SMTT(30), <1>1, <2>1, <2>2 DEF MsgSane
  <2> QED
    BY ZenonT(30), <2>1, <2>2, <2>3, <2>4, <2>5 DEF MsgSane
<1>6. ASSUME NEW c \in Claims PROVE ClaimSane(c)'
  <2>1. ClaimSane(c) /\ claim[c].end \in Nat /\ cset[c] \in Nat
    BY ZenonT(30), ClaimFields DEF IInv
  <2>2. CASE claim'[c] = NoInfo /\ claim[c].end <= now'
    BY SMTT(30), <1>1, <2>1, <2>2 DEF ClaimSane, Tick
  <2>3. CASE claim'[c] = claim[c]
    BY SMTT(30), <1>1, <2>1, <2>3 DEF ClaimSane, Tick
  <2> QED
    BY <1>3, <2>2, <2>3, ZenonT(30)
<1>7. \A c \in Claims : CallSane(call[c])'
  BY Zenon, <1>4, CallsKept DEF Tick
<1>8. GcSane'
  BY ZenonT(30), <1>4, GcKept DEF Tick
<1> QED
  BY <1>4, <1>5, <1>6, <1>7, <1>8, ZenonT(30) DEF IInv, Tick

LEMMA NextIInv == IInv /\ [Next]_vars => IInv'
<1> SUFFICES ASSUME IInv, [Next]_vars PROVE IInv'
  OBVIOUS
<1>1. ASSUME NEW m \in Msgs, PostWrite(m) \/ PostIndex(m) PROVE IInv'
  BY Zenon, <1>1, PostWriteIInv, PostIndexIInv
<1>2. ASSUME NEW c \in Claims,
             \/ Create(c) \/ ReadBack(c) \/ Persist(c)
             \/ Update(c) \/ UpdateWrite(c) \/ Release(c) \/ ReleaseWrite(c)
             \/ PopCheck(c) \/ PopRemove(c) \/ Abort(c)
      PROVE  IInv'
  BY ZenonT(30), <1>2, CreateIInv, ReadBackIInv, PersistIInv, UpdateIInv, UpdateWriteIInv,
     ReleaseIInv, ReleaseWriteIInv, PopCheckIInv, PopRemoveIInv, AbortIInv
<1>3. ASSUME NEW d \in Deleters, NEW m \in Msgs, NEW c \in Claims \cup {NoClaim},
             DeleteCheck(d, m, c)
      PROVE  IInv'
  BY Zenon, <1>3, DeleteCheckIInv
<1>4. ASSUME NEW d \in Deleters, NEW ids \in SUBSET acked, BulkCheck(d, ids)
      PROVE  IInv'
  BY Zenon, <1>4, BulkCheckIInv
<1>5. ASSUME NEW d \in Deleters, DeleteExecute(d) PROVE IInv'
  BY Zenon, <1>5, DeleteExecuteIInv
<1>6. CASE GcStart \/ GcScan \/ GcRemove
  BY ZenonT(30), <1>6, GcStartIInv, GcScanIInv, GcRemoveIInv
<1>7. CASE Tick
  BY <1>7, TickIInv, SMTT(30)
<1>8. CASE UNCHANGED vars
  <2>1. TypeOK' /\ counter' # 0 /\ Forward
    BY SMTT(30), <1>8, IInvTypes DEF vars, keys, TypeOK, Forward
  <2>2. \A c \in Claims : ClaimSane(c)' /\ CallSane(call[c])'
    BY ZenonT(30), <1>8, <2>1, ClaimKept, CallsKept DEF vars, keys
  <2>3. \A m \in Msgs : MsgSane(m)'
    BY ZenonT(30), <1>8, <2>1, MsgKept DEF vars, keys
  <2>4. GcSane'
    BY SMTT(30), <1>8, <2>1, GcKept DEF vars
  <2> QED
    BY ZenonT(30), <1>8, <2>1, <2>2, <2>3, <2>4, IInvTypes DEF IInv, vars
<1> QED
  BY SMTT(30), <1>1, <1>2, <1>3, <1>4, <1>5, <1>6, <1>7, <1>8 DEF Next

-------------------------------------------------------------------------------
\* The invariant holds in every reachable state.
THEOREM Invariance == Spec => []IInv
<1>1. Init => IInv
  BY Zenon, InitIInv
<1>2. IInv /\ [Next]_vars => IInv'
  BY NextIInv
<1> QED
  BY <1>1, <1>2, PTL DEF Spec

\* The state has its types: hashes, sets, calls, deletions and the collector.
THEOREM TypeCorrect == Spec => []TypeOK
<1>1. IInv => TypeOK
  BY DEF IInv
<1> QED
  BY <1>1, Invariance, PTL

\* A posted message stays readable and listed until its TTL ends or it is deleted,
\* whatever claims, stale write-backs and garbage collection do in between.
THEOREM NoneLost == Spec => []MessageKept
<1>1. IInv => MessageKept
  <2> SUFFICES ASSUME IInv, NEW m \in acked \ removed, due[m] > now
               PROVE  GetMessage(m) /\ m \in Members
    BY ZenonT(30) DEF MessageKept
  <2>1. m \in Msgs /\ MsgSane(m) /\ Live(m)
    BY DEF IInv, TypeOK, Live
  <2>2. /\ hash[m].end \in Nat /\ hash[m].env.e \in Nat /\ due[m] \in Nat /\ now \in Nat
    BY <2>1, HashFields, ZenonT(30), IInvTypes DEF TypeOK
  <2> QED
    BY SMTT(30), <2>1, <2>2 DEF MsgSane, GetMessage, Exists, Members
<1> QED
  BY <1>1, Invariance, PTL

\* A deleted or popped message never comes back into the queue.
THEOREM NoneBack == Spec => []RemovedStaysOut
<1>1. IInv => RemovedStaysOut
  BY ZenonT(30) DEF IInv, MsgSane, RemovedStaysOut, Members
<1> QED
  BY <1>1, Invariance, PTL

\* A claim that the claims set says is running has its hash, with the same expiry.
THEOREM ClaimsRecorded == Spec => []RunningClaimRecorded
<1>1. IInv => RunningClaimRecorded
  BY ClaimFields DEF IInv, ClaimSane, RunningClaimRecorded, TypeOK
<1> QED
  BY <1>1, Invariance, PTL
===============================================================================
