---------------------------- MODULE TransportProofs ---------------------------
(* Proofs about Transport: what the handlers store is valid, a purge leaves     *)
(* none of its messages, and a POST that creates the queue is not told that it  *)
(* does not exist.                                                              *)
EXTENDS Transport, TLAPS

\* A PATCH writes metadata that was validated.
Writing(c) == call[c].pc = "set" => queue_metadata_putting(call[c].meta)

\* The messages of a request under way are valid, and nobody has stored them.
Posting(c) ==
    \A m \in DOMAIN call[c].batch : message_content(call[c].batch[m]) /\ box[m] = New

\* What a purge must remove is free, as long as it is stored.
Purging(c) ==
    /\ \A m \in call[c].doomed : box[m] # New
    /\ call[c].pc = "pop" => call[c].doomed \cap Stored \subseteq Free
    /\ call[c].pc = "subs" => call[c].doomed \cap Stored = {}

\* A lazy POST finds a queue from the step that read or created it.
Lazily(c) ==
    call[c].calm =>
        /\ call[c].pc \in {"meta", "lazy", "check", "count", "insert"}
        /\ call[c].pc \in {"check", "count", "insert"} => queue # None

Sane(c) == Writing(c) /\ Posting(c) /\ Purging(c) /\ Lazily(c)

\* Two requests never post the same message.
Apart ==
    \A c, d \in Clients :
        c # d => DOMAIN call[c].batch \cap DOMAIN call[d].batch = {}

IInv ==
    /\ TypeOK /\ StoredValid /\ ~lost /\ Apart
    /\ \A c \in Clients : Sane(c)

\* What a step leaves alone, but for posting and for dropping the queue: messages
\* are only removed, claimed ones released, and the queue stays.
Moves ==
    /\ \A m \in Msgs : box'[m] = New <=> box[m] = New
    /\ \A m \in Msgs :
          m \in Stored' =>
              m \in Stored /\ box'[m].ttl = box[m].ttl /\ (m \in Free => m \in Free')
    /\ queue # None => queue' # None

-------------------------------------------------------------------------------
(* Types.                                                                       *)

LEMMA IdleType == Idle \in Call
<1>1. NoBatch \in Batch
  <2>1. NoBatch \in [{} -> 0..(MaxTtl + 1)]
    BY DEF NoBatch
  <2> QED
    BY Zenon, <2>1 DEF Batch
<1>2. Blank \in Meta
  BY ValidationAssumption DEF Blank, Meta
<1> QED
  BY <1>1, <1>2, Zenon DEF Idle, Call

LEMMA IdleFields ==
  /\ Idle.op = "idle" /\ Idle.pc = "idle" /\ DOMAIN Idle.batch = {} /\ Idle.doomed = {}
  /\ Idle.calm = FALSE
  BY DEF Idle, NoBatch

LEMMA CallFields ==
  ASSUME NEW r \in Call
  PROVE  /\ r.op \in {"idle", "http", "ws"}
         /\ r.pc \in {"idle", "exists", "create", "meta", "lazy", "check", "count", "insert",
                      "set", "pop", "subs", "drop", "first"}
         /\ r.batch \in Batch /\ r.meta \in Meta /\ r.doomed \subseteq Msgs
         /\ r.calm \in BOOLEAN
  BY DEF Call

LEMMA BatchDomain ==
  ASSUME NEW batch \in Batch
  PROVE  /\ DOMAIN batch \subseteq Msgs
         /\ \A m \in DOMAIN batch : batch[m] \in 0..(MaxTtl + 1)
  BY DEF Batch

-------------------------------------------------------------------------------
(* Frames.                                                                      *)

\* A request that a step leaves alone stays sane.
LEMMA Kept ==
  ASSUME IInv, Moves, NEW d \in Clients, call'[d] = call[d]
  PROVE  Sane(d)'
<1>1. Sane(d) /\ call[d] \in Call
  BY DEF IInv, TypeOK
<1>2. PICK r \in Call : r = call[d]
  BY <1>1
<1>3. Writing(d)'
  BY <1>1 DEF Sane, Writing
<1>4. Posting(d)'
  BY <1>1, <1>2, CallFields, BatchDomain DEF Sane, Posting, Moves
<1>5. Purging(d)'
  <2>1. r.doomed \subseteq Msgs
    BY Zenon, CallFields
  <2> QED
    BY <1>1, <1>2, <2>1 DEF Sane, Purging, Moves
<1>6. Lazily(d)'
  BY <1>1 DEF Sane, Lazily, Moves
<1> QED
  BY <1>3, <1>4, <1>5, <1>6 DEF Sane

\* What is stored stays valid.
LEMMA KeptValid ==
  ASSUME IInv, Moves, queue' # None => queue_metadata_putting(queue')
  PROVE  StoredValid'
  BY DEF IInv, StoredValid, Moves, Stored

\* A step that changes no request.
LEMMA NoCall ==
  ASSUME IInv, Moves, TypeOK', queue' # None => queue_metadata_putting(queue'),
         UNCHANGED <<call, lost>>
  PROVE  IInv'
<1>1. \A d \in Clients : Sane(d)'
  BY Kept
<1>2. StoredValid'
  BY KeptValid
<1>3. Apart'
  BY DEF IInv, Apart
<1> QED
  BY <1>1, <1>2, <1>3 DEF IInv

\* A step of one request.
LEMMA OneCall ==
  ASSUME IInv, Moves, TypeOK', queue' # None => queue_metadata_putting(queue'), ~lost',
         NEW c \in Clients, NEW r, call' = [call EXCEPT ![c] = r], Sane(c)',
         \A d \in Clients \ {c} : DOMAIN r.batch \cap DOMAIN call[d].batch = {}
  PROVE  IInv'
<1>0. call'[c] = r /\ \A d \in Clients \ {c} : call'[d] = call[d]
  BY DEF IInv, TypeOK
<1>1. \A d \in Clients : Sane(d)'
  BY <1>0, Kept
<1>2. StoredValid'
  BY KeptValid
<1>3. Apart'
  BY <1>0 DEF IInv, Apart
<1> QED
  BY <1>1, <1>2, <1>3 DEF IInv

\* The frame of the steps that leave messages alone.
LEMMA SameBox ==
  ASSUME UNCHANGED box, queue # None => queue' # None
  PROVE  Moves
  BY DEF Moves, Stored, Free

-------------------------------------------------------------------------------
(* Replies and the steps of a request.                                          *)

\* A request that is answered at once leaves no trace in the requests.
LEMMA AnswerSame ==
  ASSUME IInv, NEW c \in Clients, NEW status, Answer(c, status)
  PROVE  UNCHANGED <<call, lost>>
<1>1. call' = call
  BY DEF IInv, TypeOK, Answer, Reply
<1>2. lost' = lost
  BY IdleFields, Zenon DEF IInv, TypeOK, Answer, Reply
<1> QED
  BY <1>1, <1>2

\* One that reads changes nothing at all.
LEMMA Quiet ==
  ASSUME IInv, NEW c \in Clients, NEW status, Answer(c, status), Nothing
  PROVE  IInv'
<1>1. UNCHANGED <<call, lost, queue, seen, box>>
  BY AnswerSame DEF Nothing
<1>2. TypeOK'
  BY <1>1 DEF IInv, TypeOK
<1> QED
  BY <1>1, <1>2, SameBox, NoCall DEF IInv, StoredValid

LEMMA IdleSane ==
  ASSUME NEW c \in Clients, call'[c] = Idle
  PROVE  Sane(c)'
  BY IdleFields DEF Sane, Writing, Posting, Purging, Lazily

LEMMA ReplyStep ==
  ASSUME IInv, NEW c \in Clients, NEW status, Reply(c, status), call[c].calm => status # 404,
         Moves, queue' \in Meta \cup {None}, queue' # None => queue_metadata_putting(queue'),
         seen' \in [Clients -> BOOLEAN], box' \in [Msgs -> Message \cup {New, Gone}]
  PROVE  IInv'
<1>1. ~lost' /\ lost' \in BOOLEAN
  BY ZenonT(30) DEF IInv, TypeOK, Reply
<1>2. call' = [call EXCEPT ![c] = Idle] /\ call' \in [Clients -> Call] /\ call'[c] = Idle
  BY IdleType DEF IInv, TypeOK, Reply
<1>3. TypeOK'
  BY <1>1, <1>2 DEF TypeOK
<1>4. Sane(c)' /\ \A d \in Clients \ {c} : DOMAIN Idle.batch \cap DOMAIN call[d].batch = {}
  BY <1>2, IdleSane, IdleFields
<1> QED
  BY <1>1, <1>2, <1>3, <1>4, OneCall, Zenon

\* A posting request goes on.
LEMMA GoStep ==
  ASSUME IInv, NEW c \in Clients, NEW pc \in {"create", "lazy", "check", "count", "insert"},
         Go(c, pc), UNCHANGED <<box, lost>>, seen' \in [Clients -> BOOLEAN],
         queue' \in Meta \cup {None}, queue' # None => queue_metadata_putting(queue'),
         queue # None => queue' # None,
         call[c].calm => pc # "create" /\ (pc # "lazy" => queue' # None)
  PROVE  IInv'
<1>1. PICK q \in Call : q = call[c]
  BY DEF IInv, TypeOK
<1>2. PICK r \in Call :
        /\ r = [q EXCEPT !.pc = pc]
        /\ r.pc = pc /\ r.batch = q.batch /\ r.doomed = q.doomed /\ r.calm = q.calm
  <2> DEFINE x == [q EXCEPT !.pc = pc]
  <2>1. x \in Call
    BY Zenon DEF Call
  <2>2. x.pc = pc /\ x.batch = q.batch /\ x.doomed = q.doomed /\ x.calm = q.calm
    BY DEF Call
  <2> QED
    BY <2>1, <2>2, Zenon
<1>4. call' = [call EXCEPT ![c] = r] /\ call'[c] = r
  BY <1>1, <1>2 DEF Go, IInv, TypeOK
<1>5. TypeOK'
  BY <1>4 DEF IInv, TypeOK
<1>6. Sane(c)'
  <2>1. Sane(c)
    BY DEF IInv
  <2>2. Writing(c)'
    BY <1>2, <1>4 DEF Writing
  <2>3. Posting(c)'
    BY <1>1, <1>2, <1>4, <2>1 DEF Sane, Posting
  <2>4. Purging(c)'
    BY <1>1, <1>2, <1>4, <2>1, Zenon DEF Sane, Purging
  <2>5. Lazily(c)'
    BY <1>1, <1>2, <1>4, Zenon DEF Lazily
  <2> QED
    BY <2>2, <2>3, <2>4, <2>5 DEF Sane
<1>7. \A d \in Clients \ {c} : DOMAIN r.batch \cap DOMAIN call[d].batch = {}
  BY <1>1, <1>2 DEF IInv, Apart
<1> QED
  BY <1>4, <1>5, <1>6, <1>7, SameBox, OneCall, Zenon DEF IInv

\* What a client posts has limits and ids of its own.
LEMMA Sanitized ==
  ASSUME NEW given \in Requests, NEW default, message_posting(sanitize(given, default))
  PROVE  /\ sanitize(given, default) \in Batch
         /\ DOMAIN sanitize(given, default) \subseteq Fresh
         /\ \A m \in DOMAIN sanitize(given, default) :
               message_content(sanitize(given, default)[m])
<1>1. PICK S \in SUBSET Fresh : given \in [S -> 0..(MaxTtl + 1) \cup {None}]
  BY DEF Requests
<1> DEFINE b == sanitize(given, default)
<1>2. b = [m \in S |-> b[m]] /\ DOMAIN b = S
  BY <1>1 DEF sanitize
<1>3. \A m \in S : message_content(b[m])
  BY <1>2 DEF message_posting
<1>4. \A m \in S : b[m] \in 0..(MaxTtl + 1)
  BY <1>3, ValidationAssumption DEF message_content
<1>5. b \in Batch
  BY <1>1, <1>2, <1>4 DEF Batch, Fresh
<1> QED
  BY <1>2, <1>3, <1>5

LEMMA ValidatedStep ==
  ASSUME IInv, NEW c \in Clients, NEW op \in {"idle", "http", "ws"}, NEW size, NEW default,
         NEW pc \in {"check", "exists"}, NEW calm \in BOOLEAN,
         Validated(c, op, size, default, pc, calm), UNCHANGED <<box, seen>>,
         queue' \in Meta \cup {None}, queue' # None => queue_metadata_putting(queue'),
         queue # None => queue' # None, calm => pc = "check" /\ queue' # None
  PROVE  IInv'
<1>1. CASE Reply(c, 400)
  BY <1>1, SameBox, ReplyStep DEF IInv, TypeOK
<1>2. CASE ~Reply(c, 400)
  <2>1. PICK given \in Requests :
          LET batch == sanitize(given, default)
          IN  /\ message_posting(batch)
              /\ call' = [call EXCEPT ![c] = [Idle EXCEPT !.op = op, !.pc = pc, !.batch = batch,
                                                         !.calm = calm]]
              /\ UNCHANGED lost
    BY <1>2, Zenon DEF Validated
  <2>2. PICK batch \in Batch :
          /\ batch = sanitize(given, default) /\ DOMAIN batch \subseteq Fresh
          /\ \A m \in DOMAIN batch : message_content(batch[m])
    BY <2>1, Sanitized
  <2> DEFINE q == [Idle EXCEPT !.op = op, !.pc = pc, !.batch = batch, !.calm = calm]
  <2>3. q \in Call
    BY IdleType, Zenon DEF Call
  <2>4. q.pc = pc /\ q.batch = batch /\ q.doomed = {} /\ q.calm = calm
    BY DEF Idle
  <2>5. call' = [call EXCEPT ![c] = q]
    BY Zenon, <2>1, <2>2
  <2> HIDE DEF q
  <2>6. call'[c] = q /\ TypeOK'
    BY <2>1, <2>3, <2>5 DEF IInv, TypeOK
  <2>7. Sane(c)'
    <3>1. Writing(c)' /\ Purging(c)' /\ Lazily(c)'
      BY SMTT(30), <2>4, <2>6 DEF Writing, Purging, Lazily
    <3>2. Posting(c)'
      BY SMTT(30), <2>2, <2>4, <2>6 DEF Posting, Fresh
    <3> QED
      BY ZenonT(30), <3>1, <3>2 DEF Sane
  <2>8. \A d \in Clients \ {c} : DOMAIN q.batch \cap DOMAIN call[d].batch = {}
    BY <2>2, <2>4 DEF Fresh
  <2> QED
    BY <2>1, <2>5, <2>6, <2>7, <2>8, SameBox, OneCall, Zenon DEF IInv
<1> QED
  BY SMTT(30), <1>1, <1>2
-------------------------------------------------------------------------------
(* The storage.                                                                 *)

LEMMA RememberType ==
  ASSUME IInv, NEW c \in Clients, Remember(c)
  PROVE  seen' \in [Clients -> BOOLEAN]
<1>1. _exists(c) \in BOOLEAN
  BY DEF IInv, TypeOK, _exists
<1> QED
  BY <1>1 DEF IInv, TypeOK, Remember

LEMMA CreateValid ==
  ASSUME IInv, NEW meta \in Meta, queue_metadata_putting(meta), _create(meta)
  PROVE  /\ queue' \in Meta \cup {None}
         /\ queue' # None => queue_metadata_putting(queue')
         /\ queue # None => queue' # None
  BY DEF IInv, TypeOK, StoredValid, _create

LEMMA BlankValid == Blank \in Meta /\ queue_metadata_putting(Blank) /\ None \notin Meta
<1>1. Blank \in Meta /\ Blank.ttl = 0 /\ Blank.size = 0
  BY ValidationAssumption DEF Blank, Meta
<1> QED
  BY <1>1, TransportAssumption DEF queue_metadata_putting

LEMMA RemovedMoves ==
  ASSUME IInv, NEW S \in SUBSET Stored, Removed(S), queue # None => queue' # None
  PROVE  Moves /\ box' \in [Msgs -> Message \cup {New, Gone}]
<1>1. box' \in [Msgs -> Message \cup {New, Gone}]
  BY DEF IInv, TypeOK, Removed
<1>2. \A m \in Msgs : box'[m] = IF m \in S THEN Gone ELSE box[m]
  BY DEF Removed
<1>3. \A m \in S : box[m] # New
  BY SMTT(30) DEF Stored
<1>4. \A m \in Msgs : box'[m] = New <=> box[m] = New
  BY <1>2, <1>3, TransportAssumption
<1>5. ASSUME NEW m \in Msgs, m \in Stored'
      PROVE  m \in Stored /\ box'[m] = box[m] /\ (m \in Free => m \in Free')
  BY <1>2, <1>5 DEF Stored, Free
<1> QED
  BY <1>1, <1>4, <1>5 DEF Moves

\* Messages lose their claim, or their claim ends.
LEMMA LoosedMoves ==
  ASSUME IInv, NEW S \in SUBSET Stored, box' \in [Msgs -> Message \cup {New, Gone}],
         \A m \in S : box'[m] \in Message /\ box'[m].ttl = box[m].ttl /\ ~box'[m].live,
         \A m \in Msgs \ S : box'[m] = box[m], UNCHANGED queue
  PROVE  Moves
<1>1. \A m \in S : box[m] \notin {New, Gone} /\ box'[m] \notin {New, Gone}
  BY TransportAssumption DEF Stored
<1>2. \A m \in Msgs : box'[m] = New <=> box[m] = New
  BY <1>1
<1>3. ASSUME NEW m \in Msgs, m \in Stored'
      PROVE  m \in Stored /\ box'[m].ttl = box[m].ttl /\ (m \in Free => m \in Free')
  BY <1>1, <1>3 DEF Stored, Free
<1> QED
  BY Zenon, <1>2, <1>3 DEF Moves

LEMMA StoredType ==
  ASSUME IInv
  PROVE  Stored \subseteq Msgs /\ \A m \in Stored : box[m] \in Message
  BY DEF IInv, TypeOK, Stored

-------------------------------------------------------------------------------
(* Requests that begin.                                                         *)

LEMMA StartStep ==
  ASSUME IInv, NEW c \in Clients, NEW q \in Call, call' = [call EXCEPT ![c] = q],
         UNCHANGED <<queue, lost>>, Moves, seen' \in [Clients -> BOOLEAN],
         box' \in [Msgs -> Message \cup {New, Gone}],
         DOMAIN q.batch = {}, q.doomed \subseteq Free', q.pc = "subs" => q.doomed = {},
         q.pc = "set" => queue_metadata_putting(q.meta), q.calm => q.pc = "meta"
  PROVE  IInv'
<1>1. call'[c] = q /\ TypeOK'
  BY Zenon DEF IInv, TypeOK
<1>2. Sane(c)'
  <2>1. Writing(c)' /\ Posting(c)' /\ Lazily(c)'
    BY SMTT(30), <1>1 DEF Writing, Posting, Lazily
  <2>2. Purging(c)'
    BY <1>1 DEF Purging, Free, Stored
  <2> QED
    BY SMTT(30), <2>1, <2>2 DEF Sane
<1> QED
  BY <1>1, <1>2, OneCall, Zenon DEF IInv, StoredValid

LEMMA LazyStart ==
  ASSUME IInv, NEW c \in Clients, NEW op \in {"http", "ws"}, UNCHANGED lost, Nothing,
         call' = [call EXCEPT ![c] = [Idle EXCEPT !.op = op, !.pc = "meta", !.calm = TRUE]]
  PROVE  IInv'
<1> DEFINE q == [Idle EXCEPT !.op = op, !.pc = "meta", !.calm = TRUE]
<1>1. q \in Call
  BY IdleType, Zenon DEF Call
<1>2. q.pc = "meta" /\ DOMAIN q.batch = {} /\ q.doomed = {}
  BY DEF Idle, NoBatch
<1> HIDE DEF q
<1>3. Moves
  BY SameBox DEF Nothing
<1> QED
  BY <1>1, <1>2, <1>3, StartStep, Zenon DEF q, Nothing, IInv, TypeOK

LEMMA PutStep ==
  ASSUME IInv, NEW c \in Clients, NEW meta \in Meta, queue_metadata_putting(meta), Put(c, meta)
  PROVE  IInv'
<1>1. UNCHANGED <<call, lost, seen, box>>
  BY AnswerSame DEF Put
<1>2. /\ queue' \in Meta \cup {None}
      /\ queue' # None => queue_metadata_putting(queue')
      /\ queue # None => queue' # None
  BY CreateValid DEF Put
<1>3. TypeOK'
  BY <1>1, <1>2 DEF IInv, TypeOK
<1> QED
  BY <1>1, <1>2, <1>3, SameBox, NoCall

LEMMA PutValidatedStep ==
  ASSUME IInv, NEW c \in Clients, PutValidated(c)
  PROVE  IInv'
<1>1. \A meta \in Accepted : meta \in Meta /\ queue_metadata_putting(meta)
  BY BlankValid DEF Accepted
<1> QED
  BY <1>1, PutStep, Quiet DEF PutValidated

LEMMA DeleteStep ==
  ASSUME IInv, NEW c \in Clients, NEW op \in {"http", "ws"}, Delete(c, op)
  PROVE  IInv'
<1> DEFINE q == [Idle EXCEPT !.op = op, !.pc = "drop"]
<1>1. q \in Call
  BY IdleType, Zenon DEF Call
<1>2. q.pc = "drop" /\ DOMAIN q.batch = {} /\ q.doomed = {} /\ q.calm = FALSE
  BY DEF Idle, NoBatch
<1>3. call' = [call EXCEPT ![c] = q]
  BY DEF Delete
<1> HIDE DEF q
<1>4. Moves /\ box' \in [Msgs -> Message \cup {New, Gone}]
  BY RemovedMoves DEF Delete, _purge_queue
<1> QED
  BY <1>1, <1>2, <1>3, <1>4, StartStep, Zenon DEF Delete, IInv, TypeOK

LEMMA PatchStep ==
  ASSUME IInv, NEW c \in Clients, PatchQueueV2(c)
  PROVE  IInv'
<1>1. CASE \E status : Answer(c, status) /\ Nothing
  BY <1>1, Quiet
<1>2. CASE ~\E status : Answer(c, status) /\ Nothing
  <2>1. PICK change \in Washed :
          /\ queue # None /\ UNCHANGED lost /\ Nothing
          /\ queue_metadata_putting(Patched(queue, change))
          /\ call' = [call EXCEPT ![c] = [Idle EXCEPT !.op = "http", !.pc = "set",
                                                     !.meta = Patched(queue, change)]]
    BY <1>2, ZenonT(30) DEF PatchQueueV2
  <2>2. Patched(queue, change) \in Meta
    <3>1. queue \in Meta
      BY <2>1 DEF IInv, TypeOK
    <3>2. /\ change.op \in {"add", "replace", "remove"} /\ change.path \in {"ttl", "size", "user"}
          /\ change.op # "remove" => change.value \in 0..(MaxTtl + MaxSize)
      BY DEF Washed, Changes, queue_patching, _get_change_operation_d10, _get_change_value
    <3>3. 0 \in 0..(MaxTtl + MaxSize)
      BY ValidationAssumption
    <3>4. PICK v \in 0..(MaxTtl + MaxSize) :
            Patched(queue, change) = IF change.path = "user" THEN queue
                                     ELSE [queue EXCEPT ![change.path] = v]
      BY <3>2, <3>3, Zenon DEF Patched, _do_replace, _do_add, _do_remove
    <3>5. CASE change.path = "ttl"
      BY <3>1, <3>4, <3>5 DEF Meta
    <3>6. CASE change.path = "size"
      BY <3>1, <3>4, <3>6 DEF Meta
    <3>7. CASE change.path = "user"
      BY <3>1, <3>4, <3>7
    <3> QED
      BY <3>2, <3>5, <3>6, <3>7
  <2>3. PICK meta \in Meta : meta = Patched(queue, change)
    BY <2>2
  <2> DEFINE q == [Idle EXCEPT !.op = "http", !.pc = "set", !.meta = meta]
  <2>4. q \in Call
    BY IdleType, Zenon DEF Call
  <2>5. q.pc = "set" /\ DOMAIN q.batch = {} /\ q.doomed = {} /\ q.calm = FALSE /\ q.meta = meta
    BY DEF Idle, NoBatch
  <2>6. call' = [call EXCEPT ![c] = q]
    BY <2>1, <2>3
  <2> HIDE DEF q
  <2>7. Moves
    BY <2>1, SameBox DEF Nothing
  <2>8. queue_metadata_putting(q.meta)
    BY Zenon, <2>1, <2>3, <2>5
  <2>9. /\ UNCHANGED <<queue, lost, seen, box>> /\ seen \in [Clients -> BOOLEAN]
        /\ box \in [Msgs -> Message \cup {New, Gone}]
    BY <2>1 DEF Nothing, IInv, TypeOK
  <2> QED
    BY <2>4, <2>5, <2>6, <2>7, <2>8, <2>9, StartStep, Zenon
<1> QED
  BY <1>1, <1>2

LEMMA StatsStep ==
  ASSUME IInv, NEW c \in Clients, NEW op \in {"http", "ws"}, NEW missing, Stats(c, op, missing)
  PROVE  IInv'
<1>1. Moves /\ UNCHANGED <<queue, box>>
  BY SameBox DEF Stats
<1>2. /\ seen' \in [Clients -> BOOLEAN] /\ queue' \in Meta \cup {None}
      /\ box' \in [Msgs -> Message \cup {New, Gone}]
  BY <1>1, RememberType DEF Stats, IInv, TypeOK
<1>3. queue' # None => queue_metadata_putting(queue')
  BY <1>1 DEF IInv, StoredValid
<1>4. ~call[c].calm
  BY Zenon, IdleFields DEF Stats
<1>5. CASE \E status : Reply(c, status)
  BY <1>1, <1>2, <1>3, <1>4, <1>5, ReplyStep
<1>6. CASE ~\E status : Reply(c, status)
  <2> DEFINE q == [Idle EXCEPT !.op = op, !.pc = "first"]
  <2>1. q \in Call
    BY IdleType, Zenon DEF Call
  <2>2. q.pc = "first" /\ DOMAIN q.batch = {} /\ q.doomed = {} /\ q.calm = FALSE
    BY DEF Idle, NoBatch
  <2>3. call' = [call EXCEPT ![c] = q] /\ UNCHANGED lost
    BY <1>6 DEF Stats
  <2> HIDE DEF q
  <2> QED
    BY <1>1, <1>2, <2>1, <2>2, <2>3, StartStep, Zenon
<1> QED
  BY <1>5, <1>6

LEMMA PurgeStep ==
  ASSUME IInv, NEW c \in Clients, NEW op \in {"http", "ws"}, NEW types, Purge(c, op, types),
         Nothing
  PROVE  IInv'
<1>1. Moves /\ UNCHANGED <<queue, box, seen, lost>>
  BY SameBox DEF Nothing, Purge
<1>2. seen' \in [Clients -> BOOLEAN] /\ box' \in [Msgs -> Message \cup {New, Gone}]
  BY <1>1 DEF IInv, TypeOK
<1>3. CASE "messages" \in types
  <2>1. PICK S \in SUBSET Msgs : S = Free
    BY Zenon DEF Free, Stored
  <2> DEFINE q == [Idle EXCEPT !.op = op, !.pc = "pop", !.doomed = S]
  <2>2. q \in Call
    BY IdleType, Zenon DEF Call
  <2>3. q.pc = "pop" /\ DOMAIN q.batch = {} /\ q.doomed = S /\ q.calm = FALSE
    BY DEF Idle, NoBatch
  <2>4. call' = [call EXCEPT ![c] = q]
    BY <1>3, <2>1 DEF Purge
  <2> HIDE DEF q
  <2>5. q.doomed \subseteq Free'
    BY <1>1, <2>1, <2>3 DEF Free, Stored
  <2> QED
    BY <1>1, <1>2, <2>2, <2>3, <2>4, <2>5, StartStep, Zenon
<1>4. CASE "messages" \notin types
  <2> DEFINE q == [Idle EXCEPT !.op = op, !.pc = "subs"]
  <2>2. q \in Call
    BY IdleType, Zenon DEF Call
  <2>3. q.pc = "subs" /\ DOMAIN q.batch = {} /\ q.doomed = {} /\ q.calm = FALSE
    BY DEF Idle, NoBatch
  <2>4. call' = [call EXCEPT ![c] = q]
    BY <1>4 DEF Purge
  <2> HIDE DEF q
  <2> QED
    BY <1>1, <1>2, <2>2, <2>3, <2>4, StartStep, Zenon
<1> QED
  BY <1>3, <1>4

\* Requests that only read.
LEMMA QuietHandle ==
  ASSUME NEW c,
         \/ ListQueuesV10(c) \/ ListQueuesV11(c) \/ ListQueuesV2(c) \/ queue_list(c)
         \/ GetQueueV11(c) \/ GetQueueV2(c) \/ queue_get(c) \/ GetMetadataV10(c)
         \/ StorageFails(c)
  PROVE  \E status : Answer(c, status) /\ Nothing
  BY DEF ListQueuesV10, ListQueuesV11, ListQueuesV2, queue_list, ListQueues, GetQueueV11,
         GetQueueV2, queue_get, GetMetadataV10, StorageFails

LEMMA QuietRead ==
  ASSUME NEW c, Read(c)
  PROVE  \E status : Answer(c, status) /\ Nothing
<1>1. CASE _getV10(c) \/ _getV11(c) \/ _getV2(c) \/ message_list(c)
  BY <1>1 DEF _getV10, _getV11, _getV2, message_list, List
<1>2. CASE _get_by_idV10(c) \/ _get_by_idV11(c) \/ _get_by_idV2(c) \/ message_get_many(c)
  BY <1>2 DEF _get_by_idV10, _get_by_idV11, _get_by_idV2, message_get_many, GetByIds
<1>3. CASE GetItemV10(c) \/ GetItemV11(c) \/ GetItemV2(c) \/ message_get(c)
  BY SMTT(30), <1>3 DEF GetItemV10, GetItemV11, GetItemV2, message_get, GetItem
<1> QED
  BY Zenon, <1>1, <1>2, <1>3 DEF Read

LEMMA QuietClaim ==
  ASSUME NEW c,
         \/ GetClaimV10(c) \/ GetClaimV11(c) \/ GetClaimV2(c) \/ claim_get(c)
         \/ UpdateClaimV10(c) \/ UpdateClaimV11(c) \/ UpdateClaimV2(c) \/ claim_update(c)
  PROVE  \E status : Answer(c, status) /\ Nothing
  BY SMTT(30) DEF GetClaimV10, GetClaimV11, GetClaimV2, claim_get, GetClaim,
         UpdateClaimV10, UpdateClaimV11, UpdateClaimV2, claim_update, UpdateClaim

LEMMA HandleIInv ==
  ASSUME IInv, NEW c \in Clients, Handle(c)
  PROVE  IInv'
<1>0. /\ queue \in Meta \cup {None} /\ seen \in [Clients -> BOOLEAN]
      /\ box \in [Msgs -> Message \cup {New, Gone}]
  BY DEF IInv, TypeOK
<1>1. CASE PostV10(c)
  BY <1>0, <1>1, ValidatedStep, Zenon DEF PostV10, Nothing, IInv, StoredValid
<1>2. CASE PostV11(c)
  BY <1>0, <1>2, ValidatedStep, Zenon DEF PostV11, Nothing, IInv, StoredValid
<1>3. CASE PostV2(c)
  BY <1>3, LazyStart, Zenon DEF PostV2
<1>4. CASE message_post(c)
  <2>1. CASE Reply(c, 400)
    <3>1. Answer(c, 400) /\ Nothing
      BY <1>4, <2>1 DEF message_post, Answer
    <3> QED
      BY <3>1, Quiet
  <2>2. CASE ~Reply(c, 400)
    BY <1>4, <2>2, LazyStart DEF message_post
  <2> QED
    BY <2>1, <2>2
<1>5. CASE PutQueueV10(c) \/ PutQueueV11(c) \/ PutQueueV2(c) \/ queue_create(c)
  BY SMTT(30), <1>5, PutStep, BlankValid, PutValidatedStep
     DEF PutQueueV10, PutQueueV11, PutQueueV2, queue_create
<1>6. CASE \/ ListQueuesV10(c) \/ ListQueuesV11(c) \/ ListQueuesV2(c) \/ queue_list(c)
           \/ GetQueueV11(c) \/ GetQueueV2(c) \/ queue_get(c) \/ GetMetadataV10(c)
           \/ StorageFails(c)
  BY Zenon, <1>6, QuietHandle, Quiet
<1>7. CASE HeadQueueV10(c)
  <2>1. UNCHANGED <<call, lost, queue, box>>
    BY SMTT(30), <1>7, AnswerSame DEF HeadQueueV10
  <2>2. TypeOK'
    BY <1>7, <2>1, RememberType DEF HeadQueueV10, IInv, TypeOK
  <2> QED
    BY Zenon, <2>1, <2>2, SameBox, NoCall DEF IInv, StoredValid
<1>8. CASE PutMetadataV10(c)
  <2>1. CASE UNCHANGED queue
    BY <1>8, <2>1, Quiet DEF PutMetadataV10, Nothing
  <2>2. CASE queue' # queue
    <3>1. UNCHANGED <<call, lost, seen, box>> /\ queue # None /\ queue' = Blank
      BY SMTT(30), <1>8, <2>2, AnswerSame DEF PutMetadataV10
    <3>2. TypeOK'
      BY <3>1, BlankValid DEF IInv, TypeOK
    <3> QED
      BY Zenon, <3>1, <3>2, BlankValid, SameBox, NoCall
  <2> QED
    BY <2>1, <2>2
<1>9. CASE PatchQueueV2(c)
  BY Zenon, <1>9, PatchStep
<1>10. CASE DeleteQueueV10(c) \/ DeleteQueueV11(c) \/ DeleteQueueV2(c) \/ queue_delete(c)
  BY Zenon, <1>10, DeleteStep DEF DeleteQueueV10, DeleteQueueV11, DeleteQueueV2, queue_delete
<1>11. CASE StatsV10(c) \/ StatsV11(c) \/ StatsV2(c) \/ queue_get_stats(c)
  BY SMTT(30), <1>11, StatsStep DEF StatsV10, StatsV11, StatsV2, queue_get_stats
<1>12. CASE PurgeQueueV2(c) \/ queue_purge(c)
  <2>1. CASE \E status : Answer(c, status) /\ Nothing
    BY <2>1, Quiet
  <2>2. CASE ~\E status : Answer(c, status) /\ Nothing
    BY SMTT(30), <1>12, <2>2, PurgeStep DEF PurgeQueueV2, queue_purge
  <2> QED
    BY <2>1, <2>2
<1> QED
  BY SMTT(30), <1>1, <1>2, <1>3, <1>4, <1>5, <1>6, <1>7, <1>8, <1>9, <1>10, <1>11, <1>12 DEF Handle

-------------------------------------------------------------------------------
(* Messages and claims.                                                         *)

\* A request answered at once that only removes or releases messages.
LEMMA BoxStep ==
  ASSUME IInv, NEW c \in Clients, NEW status, Answer(c, status), UNCHANGED <<queue, seen>>,
         Moves, box' \in [Msgs -> Message \cup {New, Gone}]
  PROVE  IInv'
<1>1. UNCHANGED <<call, lost>>
  BY AnswerSame
<1>2. TypeOK'
  BY <1>1 DEF IInv, TypeOK
<1> QED
  BY <1>1, <1>2, NoCall DEF IInv, StoredValid

LEMMA RemoveStep ==
  ASSUME IInv, NEW c \in Clients, NEW status, Answer(c, status), UNCHANGED <<queue, seen>>,
         NEW S \in SUBSET Stored, Removed(S)
  PROVE  IInv'
  BY Zenon, RemovedMoves, BoxStep

\* What a step that does not remove leaves alone.
LEMMA BoxQuiet ==
  ASSUME IInv, NEW c \in Clients, NEW status, Answer(c, status), UNCHANGED <<queue, seen, box>>
  PROVE  IInv'
  BY Quiet DEF Nothing

LEMMA DeleteItemStep ==
  ASSUME IInv, NEW c \in Clients, NEW failure, DeleteItem(c, failure)
  PROVE  IInv'
<1>1. CASE Answer(c, failure) /\ UNCHANGED box
  BY <1>1, BoxQuiet DEF DeleteItem
<1>2. CASE ~(Answer(c, failure) /\ UNCHANGED box)
  <2>1. PICK m \in Msgs, claim \in Clients \cup {None} :
          /\ Answer(c, DeleteStatus(m, claim))
          /\ Removed(IF DeleteStatus(m, claim) = 204 THEN {m} \cap Stored ELSE {})
    BY <1>2 DEF DeleteItem
  <2>2. PICK S \in SUBSET Stored :
          S = IF DeleteStatus(m, claim) = 204 THEN {m} \cap Stored ELSE {}
    BY Zenon
  <2>3. Removed(S)
    BY <2>1, <2>2
  <2> QED
    BY <2>1, <2>3, RemoveStep DEF DeleteItem
<1> QED
  BY <1>1, <1>2

LEMMA ByIdStep ==
  ASSUME IInv, NEW c \in Clients, NEW failure, NEW ids, _delete_messages_by_id(c, ids, failure),
         UNCHANGED <<queue, seen>>
  PROVE  IInv'
<1>1. PICK S \in SUBSET Stored : S = ids \cap Stored
  BY Zenon
<1> QED
  BY <1>1, RemoveStep, BoxQuiet DEF _delete_messages_by_id

LEMMA PopStep ==
  ASSUME IInv, NEW c \in Clients, NEW failure, NEW limit, _pop_messages(c, limit, failure),
         UNCHANGED <<queue, seen>>
  PROVE  IInv'
<1>1. CASE Answer(c, failure) /\ UNCHANGED box
  BY <1>1, BoxQuiet
<1>2. CASE ~(Answer(c, failure) /\ UNCHANGED box)
  <2>1. PICK S \in Popped(limit) : Answer(c, 200) /\ Removed(S)
    BY <1>2 DEF _pop_messages
  <2>2. S \in SUBSET Stored
    BY SMTT(30) DEF Popped, Free
  <2> QED
    BY <2>1, <2>2, RemoveStep
<1> QED
  BY <1>1, <1>2

LEMMA DeleteManyStep ==
  ASSUME IInv, NEW c \in Clients, NEW failure, DeleteMany(c, failure)
  PROVE  IInv'
<1>1. CASE Answer(c, 400) /\ UNCHANGED box
  BY SMTT(30), <1>1, BoxQuiet DEF DeleteMany
<1>2. CASE \E ids : _delete_messages_by_id(c, ids, failure)
  BY SMTT(30), <1>2, ByIdStep DEF DeleteMany
<1>3. CASE \E limit : _pop_messages(c, limit, failure)
  BY <1>3, PopStep DEF DeleteMany
<1> QED
  BY SMTT(30), <1>1, <1>2, <1>3 DEF DeleteMany

LEMMA RemoveIInv ==
  ASSUME IInv, NEW c \in Clients, Remove(c)
  PROVE  IInv'
<1>1. CASE DeleteItemV10(c) \/ DeleteItemV11(c) \/ DeleteItemV2(c) \/ message_delete(c)
  BY <1>1, DeleteItemStep DEF DeleteItemV10, DeleteItemV11, DeleteItemV2, message_delete
<1>2. CASE DeleteManyV10(c)
  BY <1>2, ByIdStep, BoxQuiet DEF DeleteManyV10
<1>3. CASE DeleteManyV11(c) \/ DeleteManyV2(c) \/ message_delete_many(c)
  BY <1>3, DeleteManyStep DEF DeleteManyV11, DeleteManyV2, message_delete_many
<1> QED
  BY <1>1, <1>2, <1>3 DEF Remove

\* A claim takes free messages, and purges leave them.
LEMMA ClaimedStep ==
  ASSUME IInv, NEW c \in Clients, NEW S \in SUBSET Free, Claimed(c, S), UNCHANGED <<queue, seen>>
  PROVE  IInv'
<1>1. \A m \in S : m \in Stored /\ box[m] \in Message
  BY StoredType DEF Free
<1>2. \A m \in S : /\ [box[m] EXCEPT !.claim = c, !.live = TRUE] \in Message
                   /\ [box[m] EXCEPT !.claim = c, !.live = TRUE].ttl = box[m].ttl
  <2> SUFFICES ASSUME NEW m \in S
               PROVE  /\ [box[m] EXCEPT !.claim = c, !.live = TRUE] \in Message
                      /\ [box[m] EXCEPT !.claim = c, !.live = TRUE].ttl = box[m].ttl
    BY Zenon
  <2>1. PICK x \in Message : x = box[m]
    BY <1>1
  <2>2. [x EXCEPT !.claim = c, !.live = TRUE] \in Message
    BY Zenon DEF Message
  <2>3. [x EXCEPT !.claim = c, !.live = TRUE].ttl = x.ttl
    BY DEF Message
  <2> QED
    BY <2>1, <2>2, <2>3
<1>3. /\ box' \in [Msgs -> Message \cup {New, Gone}]
      /\ \A m \in S : box'[m] \in Message /\ box'[m].ttl = box[m].ttl
      /\ \A m \in Msgs \ S : box'[m] = box[m]
  <2>1. S \subseteq Msgs /\ box \in [Msgs -> Message \cup {New, Gone}]
    BY DEF Free, Stored, IInv, TypeOK
  <2> QED
    BY <1>2, <2>1, Zenon DEF Claimed
<1>4. ASSUME NEW d \in Clients
      PROVE  /\ call'[d] \in Call
             /\ call'[d].pc = call[d].pc /\ call'[d].batch = call[d].batch
             /\ call'[d].meta = call[d].meta /\ call'[d].calm = call[d].calm
             /\ call'[d].doomed = call[d].doomed \ S
  <2>1. PICK r \in Call : r = call[d]
    BY DEF IInv, TypeOK
  <2>2. PICK D \in SUBSET Msgs : D = r.doomed \ S
    BY CallFields, Zenon
  <2>3. [r EXCEPT !.doomed = D] \in Call
    BY Zenon DEF Call
  <2>4. call'[d] = [r EXCEPT !.doomed = D]
    BY <2>1, <2>2, Zenon DEF Claimed
  <2>5. /\ call'[d].pc = r.pc /\ call'[d].batch = r.batch
        /\ call'[d].meta = r.meta /\ call'[d].calm = r.calm /\ call'[d].doomed = D
    BY <2>4 DEF Call
  <2> QED
    BY ZenonT(30), <2>1, <2>2, <2>3, <2>4, <2>5
<1>5. TypeOK'
  BY <1>3, <1>4, Zenon DEF Claimed, IInv, TypeOK
<1>6. \A m \in Msgs : box'[m] = New <=> box[m] = New
  BY Zenon, <1>1, <1>3, TransportAssumption DEF Stored
<1>7. \A m \in Msgs : m \in Stored' => /\ m \in Stored /\ box'[m].ttl = box[m].ttl
                                       /\ (m \notin S /\ m \in Free) => m \in Free'
  BY Zenon, <1>1, <1>3 DEF Stored, Free
<1>8. StoredValid'
  BY ZenonT(30), <1>3, <1>7 DEF IInv, StoredValid, Stored
<1>9. Apart'
  BY <1>4 DEF IInv, Apart
<1>10. ASSUME NEW d \in Clients PROVE Sane(d)'
  <2>1. Sane(d) /\ call[d] \in Call
    BY DEF IInv, TypeOK
  <2>2. PICK r \in Call : r = call[d]
    BY SMTT(30), <2>1
  <2>3. Writing(d)' /\ Lazily(d)'
    BY Zenon, <1>4, <2>1 DEF Sane, Writing, Lazily
  <2>4. Posting(d)'
    BY ZenonT(30), <1>4, <1>6, <2>1, <2>2, CallFields, BatchDomain DEF Sane, Posting
  <2>5. Purging(d)'
    <3>1. r.doomed \subseteq Msgs
      BY CallFields
    <3> QED
      BY SMTT(30), <1>4, <1>6, <1>7, <2>1, <2>2, <3>1 DEF Sane, Purging
  <2> QED
    BY <2>3, <2>4, <2>5 DEF Sane
<1> QED
  BY <1>5, <1>8, <1>9, <1>10, Zenon DEF IInv, Claimed

LEMMA CreateClaimStep ==
  ASSUME IInv, NEW c \in Clients, NEW lease, NEW pause, NEW malformed, NEW failure,
         CreateClaim(c, lease, pause, malformed, failure)
  PROVE  IInv'
<1>1. CASE \E status : Answer(c, status) /\ UNCHANGED box
  BY <1>1, BoxQuiet DEF CreateClaim
<1>2. CASE ~\E status : Answer(c, status) /\ UNCHANGED box
  <2>0. PICK limit : \E S \in Popped(limit) : Claimed(c, S)
    BY <1>2 DEF CreateClaim
  <2>1. PICK S \in Popped(limit) : Claimed(c, S)
    BY <2>0
  <2>2. S \in SUBSET Free
    BY DEF Popped
  <2> QED
    BY <2>1, <2>2, ClaimedStep DEF CreateClaim
<1> QED
  BY Zenon, <1>1, <1>2

\* Messages whose claim is taken away keep their ttl.
LEMMA Loosed ==
  ASSUME NEW x \in Message
  PROVE  /\ [x EXCEPT !.live = FALSE] \in Message
         /\ [x EXCEPT !.live = FALSE].ttl = x.ttl /\ ~[x EXCEPT !.live = FALSE].live
         /\ [x EXCEPT !.claim = None, !.live = FALSE] \in Message
         /\ [x EXCEPT !.claim = None, !.live = FALSE].ttl = x.ttl
         /\ ~[x EXCEPT !.claim = None, !.live = FALSE].live
<1>1. [x EXCEPT !.live = FALSE] \in Message /\ [x EXCEPT !.claim = None, !.live = FALSE] \in Message
  BY Zenon DEF Message
<1> QED
  BY <1>1 DEF Message

LEMMA DeleteClaimStep ==
  ASSUME IInv, NEW c \in Clients, NEW failure, DeleteClaim(c, failure)
  PROVE  IInv'
<1>1. CASE Answer(c, failure) /\ UNCHANGED box
  BY ZenonT(30), <1>1, BoxQuiet DEF DeleteClaim
<1>2. CASE ~(Answer(c, failure) /\ UNCHANGED box)
  <2>1. PICK d \in Clients : Answer(c, 204) /\ Released(Held(d))
    BY <1>2 DEF DeleteClaim
  <2>2. PICK S \in SUBSET Stored : S = Held(d)
    BY Zenon DEF Held
  <2>3. /\ box' \in [Msgs -> Message \cup {New, Gone}]
        /\ \A m \in S : box'[m] \in Message /\ box'[m].ttl = box[m].ttl /\ ~box'[m].live
        /\ \A m \in Msgs \ S : box'[m] = box[m]
    <3>1. \A m \in S : m \in Msgs /\ box[m] \in Message
      BY StoredType
    <3>2. box \in [Msgs -> Message \cup {New, Gone}]
      BY DEF IInv, TypeOK
    <3>3. box' = [m \in Msgs |-> IF m \in S THEN [box[m] EXCEPT !.claim = None, !.live = FALSE]
                                 ELSE box[m]]
      BY <2>1, <2>2, Zenon DEF Released
    <3> QED
      BY <3>1, <3>2, <3>3, Loosed, Zenon
  <2> QED
    BY SMTT(30), <2>1, <2>3, LoosedMoves, BoxStep DEF DeleteClaim
<1> QED
  BY <1>1, <1>2

LEMMA ClaimIInv ==
  ASSUME IInv, NEW c \in Clients, Claim(c)
  PROVE  IInv'
<1>1. CASE CreateClaimV10(c) \/ CreateClaimV11(c) \/ CreateClaimV2(c) \/ claim_create(c)
  BY <1>1, CreateClaimStep DEF CreateClaimV10, CreateClaimV11, CreateClaimV2, claim_create
<1>2. CASE \/ GetClaimV10(c) \/ GetClaimV11(c) \/ GetClaimV2(c) \/ claim_get(c)
           \/ UpdateClaimV10(c) \/ UpdateClaimV11(c) \/ UpdateClaimV2(c) \/ claim_update(c)
  BY ZenonT(30), <1>2, QuietClaim, Quiet
<1>3. CASE DeleteClaimV10(c) \/ DeleteClaimV11(c) \/ DeleteClaimV2(c) \/ claim_delete(c)
  BY <1>3, DeleteClaimStep DEF DeleteClaimV10, DeleteClaimV11, DeleteClaimV2, claim_delete
<1> QED
  BY Zenon, <1>1, <1>2, <1>3 DEF Claim

-------------------------------------------------------------------------------
(* Requests that go on.                                                         *)

LEMMA PostInsertIInv ==
  ASSUME IInv, NEW c \in Clients, PostInsert(c)
  PROVE  IInv'
<1>1. PICK q \in Call : q = call[c]
  BY DEF IInv, TypeOK
<1>2. PICK D \in SUBSET Msgs : D = DOMAIN q.batch
  BY SMTT(30), CallFields, BatchDomain
<1>3. /\ box' \in [Msgs -> Message \cup {New, Gone}]
      /\ \A m \in D : box[m] = New /\ box'[m] \in Message /\ ~box'[m].live
                      /\ message_content(box'[m].ttl)
      /\ \A m \in Msgs \ D : box'[m] = box[m]
  <2>1. \A m \in D : q.batch[m] \in 0..(MaxTtl + 1)
    BY Zenon, <1>2, CallFields, BatchDomain
  <2>2. \A m \in D : message_content(q.batch[m]) /\ box[m] = New
    BY Zenon, <1>1, <1>2 DEF IInv, Sane, Posting
  <2>3. \A m \in D : box'[m] = [ttl |-> q.batch[m], claim |-> None, live |-> FALSE]
    BY ZenonT(30), <1>1, <1>2 DEF PostInsert
  <2>4. ASSUME NEW m \in D
        PROVE  box'[m] \in Message /\ box'[m].ttl = q.batch[m] /\ ~box'[m].live
    <3>1. PICK t \in 0..(MaxTtl + 1) : t = q.batch[m]
      BY ZenonT(30), <2>1
    <3>2. box'[m] = [ttl |-> t, claim |-> None, live |-> FALSE]
      BY <2>3, <3>1
    <3>3. [ttl |-> t, claim |-> None, live |-> FALSE] \in Message
      BY ZenonT(30) DEF Message
    <3> QED
      BY SMTT(30), <3>1, <3>2, <3>3
  <2>5. box' = [m \in Msgs |-> box'[m]] /\ \A m \in Msgs \ D : box'[m] = box[m]
    BY Zenon, <1>1, <1>2 DEF PostInsert
  <2>6. box' \in [Msgs -> Message \cup {New, Gone}]
    BY ZenonT(30), <2>4, <2>5 DEF IInv, TypeOK
  <2> QED
    BY Zenon, <2>2, <2>4, <2>5, <2>6
<1>4. /\ call' = [call EXCEPT ![c] = Idle] /\ call' \in [Clients -> Call] /\ call'[c] = Idle
      /\ \A d \in Clients \ {c} : call'[d] = call[d]
  BY IdleType DEF PostInsert, Reply, IInv, TypeOK
<1>5. ~lost' /\ lost' \in BOOLEAN
  <2>1. 201 # 404
    OBVIOUS
  <2> QED
    BY <2>1, ZenonT(30) DEF PostInsert, Reply, IInv, TypeOK
<1>6. TypeOK'
  BY Zenon, <1>3, <1>4, <1>5 DEF PostInsert, IInv, TypeOK
<1>7. \A m \in Msgs : m \notin D /\ m \in Stored' => m \in Stored /\ box'[m] = box[m]
  BY Zenon, <1>3 DEF Stored
<1>8. StoredValid'
  BY ZenonT(30), <1>3, <1>7 DEF IInv, StoredValid, PostInsert, Stored
<1>9. Apart'
  BY <1>4, IdleFields DEF IInv, Apart
<1>10. ASSUME NEW d \in Clients \ {c} PROVE Sane(d)'
  <2>1. Sane(d) /\ call'[d] = call[d]
    BY Zenon, <1>4 DEF IInv
  <2>2. PICK r \in Call : r = call[d]
    BY Zenon DEF IInv, TypeOK
  <2>3. Writing(d)' /\ Lazily(d)'
    BY Zenon, <2>1 DEF Sane, Writing, Lazily, PostInsert
  <2>4. Posting(d)'
    <3>1. D \cap DOMAIN r.batch = {} /\ DOMAIN r.batch \subseteq Msgs
      BY SMTT(30), <1>1, <1>2, <2>2, CallFields, BatchDomain DEF IInv, Apart
    <3> QED
      BY ZenonT(30), <1>3, <2>1, <2>2, <3>1 DEF Sane, Posting
  <2>5. Purging(d)'
    <3>1. r.doomed \subseteq Msgs /\ r.doomed \cap D = {}
      BY ZenonT(30), <1>3, <2>1, <2>2, CallFields DEF Sane, Purging
    <3>2. \A m \in r.doomed : box'[m] = box[m]
      BY <1>3, <3>1
    <3> QED
      BY SMTT(30), <2>1, <2>2, <3>1, <3>2 DEF Sane, Purging, Stored, Free
  <2> QED
    BY SMTT(30), <2>3, <2>4, <2>5 DEF Sane
<1> QED
  BY SMTT(30), <1>4, <1>5, <1>6, <1>8, <1>9, <1>10, IdleSane DEF IInv

LEMMA DropIInv ==
  ASSUME IInv, NEW c \in Clients, Drop(c)
  PROVE  IInv'
<1>1. ASSUME NEW d \in Clients
      PROVE  /\ call'[d] \in Call /\ ~call'[d].calm
             /\ \/ call'[d] = Idle
                \/ /\ call'[d].pc = call[d].pc /\ call'[d].batch = call[d].batch
                   /\ call'[d].meta = call[d].meta /\ call'[d].doomed = call[d].doomed
  <2>1. CASE d = c
    BY Zenon, <2>1, IdleType, IdleFields DEF Drop
  <2>2. CASE d # c
    <3>1. PICK r \in Call : r = call[d]
      BY DEF IInv, TypeOK
    <3>2. call'[d] = [r EXCEPT !.calm = FALSE]
      BY <2>2, <3>1 DEF Drop
    <3>3. [r EXCEPT !.calm = FALSE] \in Call
      BY Zenon DEF Call
    <3>4. /\ [r EXCEPT !.calm = FALSE].pc = r.pc /\ [r EXCEPT !.calm = FALSE].batch = r.batch
          /\ [r EXCEPT !.calm = FALSE].meta = r.meta /\ [r EXCEPT !.calm = FALSE].doomed = r.doomed
          /\ [r EXCEPT !.calm = FALSE].calm = FALSE
      BY DEF Call
    <3> QED
      BY SMTT(30), <3>1, <3>2, <3>3, <3>4
  <2> QED
    BY Zenon, <2>1, <2>2
<1>2. TypeOK'
  BY <1>1 DEF Drop, IInv, TypeOK
<1>3. StoredValid'
  BY SMTT(30) DEF Drop, IInv, StoredValid, Stored
<1>4. Apart'
  BY <1>1, IdleFields DEF IInv, Apart
<1>5. ASSUME NEW d \in Clients PROVE Sane(d)'
  <2>1. CASE call'[d] = Idle
    BY ZenonT(30), <2>1, IdleSane
  <2>2. CASE call'[d] # Idle
    BY SMTT(30), <1>1, <2>2 DEF Drop, IInv, Sane, Writing, Posting, Purging, Lazily, Stored, Free
  <2> QED
    BY <2>1, <2>2
<1> QED
  BY Zenon, <1>2, <1>3, <1>4, <1>5 DEF IInv, Drop

\* From the definition of Cardinality, whose recursive function has a value here.
LEMMA EmptySize == Cardinality({}) = 0
<1> DEFINE size == [T \in SUBSET {} |-> 0]
           Sizes(f) == f = [T \in SUBSET {} |->
                              IF T = {} THEN 0 ELSE 1 + f[T \ {CHOOSE x : x \in T}]]
<1>1. Sizes(size)
  OBVIOUS
<1>2. Sizes(CHOOSE f : Sizes(f))
  BY <1>1, Zenon
<1>3. (CHOOSE f : Sizes(f))[{}] = 0
  BY <1>2, Zenon
<1> QED
  BY <1>3, Zenon DEF Cardinality

\* A pop that returns nothing found no free message.
LEMMA EmptyPop ==
  ASSUME {} \in Popped(PopLimit)
  PROVE  Free = {}
<1>1. Cardinality({}) # PopLimit
  BY Zenon, EmptySize, TransportAssumption
<1> QED
  BY <1>1 DEF Popped

LEMMA PurgePopIInv ==
  ASSUME IInv, NEW c \in Clients, PurgePop(c)
  PROVE  IInv'
<1>1. PICK S \in Popped(PopLimit) : Removed(S) /\ Go(c, IF S = {} THEN "subs" ELSE "pop")
  BY DEF PurgePop
<1>2. S \in SUBSET Stored
  BY Zenon DEF Popped, Free
<1>3. Moves /\ box' \in [Msgs -> Message \cup {New, Gone}]
  BY Zenon, <1>1, <1>2, RemovedMoves DEF PurgePop
<1>4. PICK q \in Call : q = call[c]
  BY DEF IInv, TypeOK
<1>5. PICK pc \in {"subs", "pop"} : pc = IF S = {} THEN "subs" ELSE "pop"
  OBVIOUS
<1> DEFINE r == [q EXCEPT !.pc = pc]
<1>6. r \in Call
  BY Zenon DEF Call
<1>7. r.pc = pc /\ r.batch = q.batch /\ r.doomed = q.doomed /\ r.calm = q.calm
  BY DEF Call
<1>8. call' = [call EXCEPT ![c] = r]
  BY ZenonT(30), <1>1, <1>4, <1>5 DEF Go
<1> HIDE DEF r
<1>9. call'[c] = r /\ TypeOK'
  BY SMTT(30), <1>3, <1>6, <1>8 DEF PurgePop, IInv, TypeOK
<1>10. Sane(c)'
  <2>1. Sane(c) /\ q.pc = "pop" /\ q.doomed \subseteq Msgs
    BY Zenon, <1>4, CallFields DEF IInv, PurgePop
  <2>2. Writing(c)' /\ Lazily(c)'
    BY Zenon, <1>4, <1>7, <1>9, <2>1 DEF Sane, Writing, Lazily
  <2>3. Posting(c)'
    BY ZenonT(30), <1>3, <1>4, <1>7, <1>9, <2>1, CallFields, BatchDomain DEF Sane, Posting, Moves
  <2>4. Purging(c)'
    <3>1. \A m \in q.doomed : box'[m] # New
      BY Zenon, <1>3, <1>4, <2>1 DEF Sane, Purging, Moves
    <3>2. q.doomed \cap Stored' \subseteq Free'
      BY Zenon, <1>3, <1>4, <2>1 DEF Sane, Purging, Moves
    <3>3. pc = "subs" => q.doomed \cap Stored' = {}
      <4>1. pc = "subs" => Free = {}
        BY ZenonT(30), <1>5, EmptyPop
      <4> QED
        BY Zenon, <1>3, <1>4, <2>1, <4>1 DEF Sane, Purging, Moves
    <3> QED
      BY Zenon, <1>7, <1>9, <3>1, <3>2, <3>3 DEF Purging
  <2> QED
    BY Zenon, <2>2, <2>3, <2>4 DEF Sane
<1>11. \A d \in Clients \ {c} : DOMAIN r.batch \cap DOMAIN call[d].batch = {}
  BY SMTT(30), <1>4, <1>7 DEF IInv, Apart
<1> QED
  BY <1>3, <1>8, <1>9, <1>10, <1>11, OneCall, ZenonT(30) DEF PurgePop, IInv, StoredValid

LEMMA Status ==
  ASSUME NEW op
  PROVE  Failure(op) # 404
  BY SMTT(30) DEF Failure

LEMMA ResumeIInv ==
  ASSUME IInv, NEW c \in Clients, Resume(c)
  PROVE  IInv'
<1>0. /\ queue \in Meta \cup {None} /\ seen \in [Clients -> BOOLEAN]
      /\ box \in [Msgs -> Message \cup {New, Gone}]
      /\ queue # None => queue_metadata_putting(queue)
  BY SMTT(30) DEF IInv, TypeOK, StoredValid
<1>a. /\ call[c].op \in {"idle", "http", "ws"} /\ call[c].calm \in BOOLEAN
      /\ Writing(c) /\ Lazily(c)
  BY CallFields DEF IInv, TypeOK, Sane
<1>b. Nothing => Moves
  BY Zenon, SameBox DEF Nothing
<1>1. CASE PostV11Exists(c)
  <2>1. ~call[c].calm /\ seen' \in [Clients -> BOOLEAN] /\ UNCHANGED <<queue, box, lost>>
    BY Zenon, <1>1, <1>a, RememberType DEF PostV11Exists, Lazily
  <2>2. PICK pc \in {"check", "create"} : Go(c, pc)
    BY SMTT(30), <1>1 DEF PostV11Exists
  <2> QED
    BY Zenon, <1>0, <2>1, <2>2, GoStep
<1>2. CASE PostV11Create(c)
  <2>1. ~call[c].calm /\ UNCHANGED <<seen, box, lost>> /\ Go(c, "check")
    BY SMTT(30), <1>2, <1>a DEF PostV11Create, Lazily
  <2>2. /\ queue' \in Meta \cup {None}
        /\ queue' # None => queue_metadata_putting(queue')
        /\ queue # None => queue' # None
    BY Zenon, <1>2, BlankValid, CreateValid DEF PostV11Create
  <2> QED
    BY ZenonT(30), <1>0, <2>1, <2>2, GoStep
<1>3. CASE PostMeta(c)
  <2>1. UNCHANGED <<queue, seen, box>>
    BY SMTT(30), <1>3 DEF PostMeta, Nothing
  <2>2. CASE queue = None
    <3>1. Go(c, "lazy") /\ UNCHANGED lost
      BY SMTT(30), <1>3, <2>2 DEF PostMeta
    <3> QED
      BY ZenonT(30), <1>0, <2>1, <3>1, GoStep
  <2>3. CASE queue # None
    <3>1. Validated(c, call[c].op, queue.size, DefaultOf(queue), "check", call[c].calm)
      BY Zenon, <1>3, <2>3 DEF PostMeta
    <3>2. PICK op \in {"idle", "http", "ws"}, calm \in BOOLEAN : op = call[c].op /\ calm = call[c].calm
      BY Zenon, <1>a
    <3>3. Validated(c, op, queue.size, DefaultOf(queue), "check", calm)
      BY ZenonT(30), <3>1, <3>2
    <3> QED
      BY Zenon, <1>0, <2>1, <2>3, <3>3, ValidatedStep
  <2> QED
    BY SMTT(30), <2>2, <2>3
<1>4. CASE PostLazy(c)
  <2>1. /\ queue' \in Meta /\ queue' # None
        /\ queue_metadata_putting(queue')
        /\ UNCHANGED <<seen, box>>
    BY ZenonT(30), <1>0, <1>4, BlankValid DEF PostLazy, _create
  <2>2. PICK op \in {"idle", "http", "ws"}, calm \in BOOLEAN : op = call[c].op /\ calm = call[c].calm
    BY SMTT(30), <1>a
  <2>3. Validated(c, op, 0, DefaultTtl, "check", calm)
    BY SMTT(30), <1>4, <2>2 DEF PostLazy
  <2> QED
    BY SMTT(30), <1>0, <2>1, <2>3, ValidatedStep
<1>5. CASE PostCheck(c)
  <2>1. seen' \in [Clients -> BOOLEAN] /\ UNCHANGED <<queue, box>> /\ Moves
    BY Zenon, <1>5, RememberType, SameBox DEF PostCheck
  <2>2. CASE _exists(c)
    <3>1. Go(c, "count") /\ UNCHANGED lost
      BY <1>5, <2>2, ZenonT(30) DEF PostCheck
    <3>2. call[c].calm => queue # None
      BY Zenon, <1>5, <1>a DEF PostCheck, Lazily
    <3> QED
      BY Zenon, <1>0, <2>1, <3>1, <3>2, GoStep
  <2>3. CASE ~_exists(c)
    <3>1. Reply(c, 404) /\ ~call[c].calm
      BY <1>5, <1>a, <2>3 DEF PostCheck, Lazily, _exists
    <3> QED
      BY SMTT(30), <1>0, <2>1, <3>1, ReplyStep
  <2> QED
    BY SMTT(30), <2>2, <2>3
<1>6. CASE PostCount(c)
  <2>1. UNCHANGED <<queue, seen, box>> /\ Moves
    BY SMTT(30), <1>6, <1>b DEF PostCount, Nothing
  <2>2. CASE queue # None
    <3>1. Go(c, "insert") /\ UNCHANGED lost
      BY ZenonT(30), <1>6, <2>2 DEF PostCount, _get_counter, _inc_counter
    <3> QED
      BY Zenon, <1>0, <2>1, <2>2, <3>1, GoStep
  <2>3. CASE queue = None
    <3>1. Reply(c, 404) /\ ~call[c].calm
      BY Zenon, <1>6, <1>a, <2>3 DEF PostCount, Lazily, _get_counter, _inc_counter
    <3> QED
      BY SMTT(30), <1>0, <2>1, <3>1, ReplyStep
  <2> QED
    BY SMTT(30), <2>2, <2>3
<1>7. CASE PostInsert(c)
  BY <1>7, PostInsertIInv
<1>8. CASE PostFails(c) \/ QueueFails(c)
  <2>1. UNCHANGED <<queue, seen, box>> /\ Moves
    BY Zenon, <1>8, <1>b DEF PostFails, QueueFails, Nothing
  <2>2. PICK status : Reply(c, status) /\ status # 404
    BY SMTT(30), <1>8, Status DEF PostFails, QueueFails
  <2> QED
    BY ZenonT(30), <1>0, <2>1, <2>2, ReplyStep
<1>9. CASE set_metadata(c)
  <2>1. /\ UNCHANGED <<seen, box>> /\ ~call[c].calm
        /\ queue' = IF queue = None THEN None ELSE call[c].meta
    BY Zenon, <1>9, <1>a DEF set_metadata, Lazily
  <2>2. call[c].meta \in Meta /\ None \notin Meta /\ queue_metadata_putting(call[c].meta)
    BY ZenonT(30), <1>9, <1>a, CallFields, BlankValid DEF set_metadata, Writing, IInv, TypeOK
  <2>3. Moves
    BY ZenonT(30), <2>1, <2>2, SameBox
  <2>4. PICK status : Reply(c, status)
    BY SMTT(30), <1>9 DEF set_metadata
  <2> QED
    BY Zenon, <1>0, <2>1, <2>2, <2>3, <2>4, ReplyStep
<1>10. CASE Drop(c)
  BY <1>10, DropIInv
<1>11. CASE StatsFirst(c) \/ PurgeEnds(c)
  <2>1. UNCHANGED <<queue, seen, box>> /\ Moves
    BY ZenonT(30), <1>11, <1>b DEF StatsFirst, PurgeEnds, Nothing
  <2>2. PICK status : Reply(c, status) /\ status # 404
    BY SMTT(30), <1>11 DEF StatsFirst, PurgeEnds
  <2> QED
    BY <1>0, <2>1, <2>2, ReplyStep
<1>12. CASE PurgePop(c)
  BY <1>12, PurgePopIInv
<1> QED
  BY SMTT(30), <1>1, <1>2, <1>3, <1>4, <1>5, <1>6, <1>7, <1>8, <1>9, <1>10, <1>11, <1>12 DEF Resume

-------------------------------------------------------------------------------
(* Time, and the theorems.                                                      *)

LEMMA TimeIInv ==
  ASSUME IInv, \/ \E c \in Clients : CacheExpires(c) \/ ClaimExpires(c)
               \/ \E m \in Msgs : MessageExpires(m)
  PROVE  IInv'
<1>1. CASE \E c \in Clients : CacheExpires(c)
  <2>1. TypeOK' /\ UNCHANGED <<queue, box, call, lost>>
    BY <1>1 DEF CacheExpires, IInv, TypeOK
  <2> QED
    BY SMTT(30), <2>1, SameBox, NoCall DEF IInv, StoredValid
<1>2. CASE \E c \in Clients : ClaimExpires(c)
  <2>1. PICK c \in Clients : ClaimExpires(c)
    BY <1>2
  <2>2. PICK S \in SUBSET Stored : S = Held(c)
    BY Zenon DEF Held
  <2>3. /\ box' \in [Msgs -> Message \cup {New, Gone}]
        /\ \A m \in S : box'[m] \in Message /\ box'[m].ttl = box[m].ttl /\ ~box'[m].live
        /\ \A m \in Msgs \ S : box'[m] = box[m]
    <3>1. \A m \in S : m \in Msgs /\ box[m] \in Message
      BY SMTT(30), StoredType
    <3>2. box \in [Msgs -> Message \cup {New, Gone}]
      BY DEF IInv, TypeOK
    <3>3. box' = [m \in Msgs |-> IF m \in S THEN [box[m] EXCEPT !.live = FALSE] ELSE box[m]]
      BY <2>1, <2>2 DEF ClaimExpires
    <3> QED
      BY <3>1, <3>2, <3>3, Loosed, Zenon
  <2>4. UNCHANGED <<queue, seen, call, lost>>
    BY <2>1 DEF ClaimExpires
  <2>5. TypeOK' /\ Moves
    BY <2>3, <2>4, LoosedMoves, Zenon DEF IInv, TypeOK
  <2> QED
    BY <2>4, <2>5, NoCall, Zenon DEF IInv, StoredValid
<1>3. CASE \E m \in Msgs : MessageExpires(m)
  <2>1. PICK m \in Msgs : MessageExpires(m)
    BY SMTT(30), <1>3
  <2>2. UNCHANGED <<queue, seen, call, lost>> /\ {m} \in SUBSET Stored /\ Removed({m})
    BY SMTT(30), <2>1 DEF MessageExpires
  <2>3. Moves /\ box' \in [Msgs -> Message \cup {New, Gone}]
    BY SMTT(30), <2>2, RemovedMoves
  <2>4. TypeOK'
    BY SMTT(30), <2>2, <2>3 DEF IInv, TypeOK
  <2> QED
    BY <2>2, <2>3, <2>4, NoCall, Zenon DEF IInv, StoredValid
<1> QED
  BY SMTT(30), <1>1, <1>2, <1>3

LEMMA NextIInv ==
  ASSUME IInv, [Next]_vars
  PROVE  IInv'
<1>1. CASE \E c \in Clients : Handle(c) \/ Read(c) \/ Remove(c) \/ Claim(c)
  BY Zenon, <1>1, HandleIInv, QuietRead, Quiet, RemoveIInv, ClaimIInv
<1>2. CASE \E c \in Clients : Resume(c)
  BY <1>2, ResumeIInv
<1>3. CASE \/ \E c \in Clients : CacheExpires(c) \/ ClaimExpires(c)
           \/ \E m \in Msgs : MessageExpires(m)
  BY SMTT(30), <1>3, TimeIInv
<1>4. CASE UNCHANGED vars
  <2>1. UNCHANGED <<queue, seen, box, call, lost>>
    BY Zenon, <1>4 DEF vars
  <2>2. TypeOK'
    BY <2>1 DEF IInv, TypeOK
  <2> QED
    BY Zenon, <2>1, <2>2, SameBox, NoCall DEF IInv, StoredValid
<1> QED
  BY SMTT(30), <1>1, <1>2, <1>3, <1>4 DEF Next

LEMMA InitIInv ==
  ASSUME Init
  PROVE  IInv
<1>1. TypeOK
  BY IdleType, Zenon DEF Init, TypeOK
<1>2. StoredValid
  BY SMTT(30) DEF Init, StoredValid, Stored
<1>3. Apart
  BY ZenonT(30), IdleFields DEF Init, Apart
<1>4. ASSUME NEW c \in Clients PROVE Sane(c)
  <2>1. call[c] = Idle
    BY DEF Init
  <2> QED
    BY SMTT(30), <2>1, IdleFields DEF Sane, Writing, Posting, Purging, Lazily
<1> QED
  BY <1>1, <1>2, <1>3, <1>4 DEF IInv, Init

\* The invariant holds in every reachable state.
THEOREM Invariance == Spec => []IInv
  BY InitIInv, NextIInv, PTL DEF Spec

\* The state of the queue, the caches, the messages and the requests is well
\* typed.
THEOREM TypeCorrect == Spec => []TypeOK
<1>1. IInv => TypeOK
  BY DEF IInv
<1> QED
  BY <1>1, Invariance, PTL

\* Whatever requests of the three APIs and the websocket race, the attributes of
\* the queue and the ttl of every stored message are within their limits.
THEOREM LimitsKept == Spec => []StoredValid
<1>1. IInv => StoredValid
  BY ZenonT(30) DEF IInv
<1> QED
  BY <1>1, Invariance, PTL

\* A purge that is done with messages leaves none that was free when it began and
\* that nobody claimed since.
THEOREM PurgeComplete == Spec => []PurgedGone
<1>1. IInv => PurgedGone
  BY DEF IInv, Sane, Purging, PurgedGone
<1> QED
  BY <1>1, Invariance, PTL

\* A POST that creates a missing queue is told that it does not exist only when a
\* queue deletion ended since it began.
THEOREM LazyPostsFind == Spec => []LazyPosts
<1>1. IInv => LazyPosts
  BY DEF IInv, LazyPosts
<1> QED
  BY <1>1, Invariance, PTL
===============================================================================
