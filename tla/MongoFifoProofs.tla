---------------------------- MODULE MongoFifoProofs ---------------------------
(* Proofs about MongoFifo, for any number of producers and any batch sizes.  *)
EXTENDS MongoFifo, TLAPS

\* The fields of a call have their types.
LEMMA PostFields ==
  ASSUME TypeOK, NEW p \in Producers
  PROVE  /\ post[p] \in Post
         /\ post[p].base \in Nat /\ post[p].i \in Nat /\ post[p].run \in Nat
         /\ Batch[p] \in Nat \ {0}
  BY MongoFifoAssumption DEF MongoFifoAssumption, TypeOK, Post

\* The fields of a document have their types.
LEMMA DocFields ==
  ASSUME TypeOK, NEW d \in docs
  PROVE  /\ d \in Doc /\ d.k \in Nat /\ d.fin \in BOOLEAN
         /\ d.msg \in Msg /\ d.msg.p \in Producers /\ d.msg.i \in Nat
         /\ d.msg.run \in Nat
  BY DEF TypeOK, Doc, Msg

\* Writing the state of one call keeps the calls well typed.
LEMMA PostSet ==
  ASSUME TypeOK, NEW p \in Producers, NEW r \in Post, post' = [post EXCEPT ![p] = r]
  PROVE  post' \in [Producers -> Post]
  BY DEF TypeOK

\* The names of messages are well typed.
LEMMA MessageType ==
  ASSUME TypeOK, NEW p \in Producers, NEW i \in Nat PROVE Message(p, i) \in Msg
  BY Zenon, PostFields DEF Message, Msg

\* What a step of call p does to the state of p, and to no other.
LEMMA InsertEffect ==
  ASSUME TypeOK, NEW p \in Producers, Insert(p)
  PROVE  /\ post[p].pc = "insert"
         /\ \A q \in Producers \ {p} : post'[q] = post[q]
         /\ post'[p].base = post[p].base /\ post'[p].run = post[p].run
         /\ \/ /\ post'[p].pc = "retry" /\ docs' = docs
               /\ \E d \in docs : \/ d.k = post[p].base + post[p].i
                                  \/ d.msg = Message(p, post[p].i)
            \/ /\ post'[p].pc = IF post[p].i + 1 = Batch[p] THEN "inc" ELSE "insert"
               /\ post'[p].i = post[p].i + 1
               /\ \A d \in docs : /\ d.k # post[p].base + post[p].i
                                  /\ d.msg # Message(p, post[p].i)
               /\ docs' = docs \cup {[k |-> post[p].base + post[p].i,
                                      msg |-> Message(p, post[p].i),
                                      fin |-> Batch[p] = 1]}
         /\ post' \in [Producers -> Post]
<1> DEFINE k == post[p].base + post[p].i
           m == Message(p, post[p].i)
<1>1. CASE \E d \in docs : d.k = k \/ d.msg = m
  <2>1. post' = [post EXCEPT ![p].pc = "retry"] /\ docs' = docs
    BY <1>1 DEF Insert
  <2>2. [post[p] EXCEPT !.pc = "retry"] \in Post
    BY PostFields DEF Post
  <2>3. post' \in [Producers -> Post]
    BY <2>1, <2>2 DEF TypeOK
  <2> QED
    BY <1>1, <2>1, <2>3, PostFields DEF Insert, TypeOK, Post
<1>2. CASE ~ \E d \in docs : d.k = k \/ d.msg = m
  <2> DEFINE pc == IF post[p].i + 1 = Batch[p] THEN "inc" ELSE "insert"
  <2>1. /\ docs' = docs \cup {[k |-> k, msg |-> m, fin |-> Batch[p] = 1]}
        /\ post' = [post EXCEPT ![p] = [@ EXCEPT !.i = post[p].i + 1, !.pc = pc]]
    BY <1>2 DEF Insert
  <2>a. post[p].i + 1 \in Nat
    BY PostFields
  <2>2. [post[p] EXCEPT !.i = post[p].i + 1, !.pc = pc] \in Post
    BY <2>a, PostFields, Zenon DEF Post
  <2>3. post' \in [Producers -> Post]
    BY <2>1, <2>2, PostSet, Zenon
  <2> QED
    BY <1>2, <2>1, <2>3, PostFields DEF Insert, TypeOK, Post
<1> QED
  BY <1>1, <1>2

\* Every step keeps the types.
LEMMA NextTypeOK == TypeOK /\ [Next]_vars => TypeOK'
<1> SUFFICES ASSUME TypeOK, [Next]_vars PROVE TypeOK'
  OBVIOUS
<1>1. ASSUME NEW p \in Producers, Read(p) PROVE TypeOK'
  <2>1. [post[p] EXCEPT !.pc = "insert", !.base = counter, !.i = 0] \in Post
    BY PostFields, ZenonT(30) DEF Post, TypeOK
  <2>2. post' \in [Producers -> Post]
    BY <1>1, <2>1, PostSet, Zenon DEF Read
  <2> QED
    BY <1>1, <2>2 DEF Read, TypeOK
<1>2. ASSUME NEW p \in Producers, Insert(p) PROVE TypeOK'
  <2>1. [k |-> post[p].base + post[p].i, msg |-> Message(p, post[p].i),
         fin |-> Batch[p] = 1] \in Doc
    BY PostFields, MessageType DEF Doc
  <2>2. docs' \subseteq Doc
    BY <1>2, <2>1, InsertEffect DEF TypeOK
  <2> QED
    BY <1>2, <2>2, InsertEffect, Zenon DEF Insert, TypeOK
<1>3. ASSUME NEW p \in Producers, Inc(p) PROVE TypeOK'
  <2> DEFINE pc == IF Batch[p] = 1 THEN "done" ELSE "finalize"
  <2>1. [post[p] EXCEPT !.pc = pc] \in Post
    BY PostFields DEF Post
  <2>2. post' \in [Producers -> Post]
    BY <1>3, <2>1 DEF Inc, TypeOK
  <2>3. counter' \in Nat
    BY <1>3, PostFields DEF Inc, TypeOK
  <2>4. lost' \in Nat
    BY <1>3 DEF Inc, TypeOK
  <2> QED
    BY <1>3, <2>2, <2>3, <2>4, Zenon DEF Inc, TypeOK
<1>4. ASSUME NEW p \in Producers, Finalize(p) PROVE TypeOK'
  <2>1. [post[p] EXCEPT !.pc = "done"] \in Post
    BY PostFields DEF Post
  <2>2. post' \in [Producers -> Post]
    BY <1>4, <2>1 DEF Finalize, TypeOK
  <2>3. \A d \in docs : [d EXCEPT !.fin = TRUE] \in Doc
    BY DocFields, Zenon DEF Doc
  <2>4. docs' \subseteq Doc
    BY <1>4, <2>3 DEF Finalize, Open, TypeOK
  <2> QED
    BY Zenon, <1>4, <2>2, <2>4 DEF Finalize, TypeOK
<1>5. ASSUME NEW p \in Producers, Retry(p) PROVE TypeOK'
  <2>a. counter + 1 \in Nat
    BY DEF TypeOK
  <2>1. [post[p] EXCEPT !.pc = "insert", !.base = counter + 1, !.i = 0] \in Post
    BY <2>a, PostFields, Zenon DEF Post
  <2>2. [post[p] EXCEPT !.pc = "read"] \in Post
    BY PostFields DEF Post
  <2>3. post' \in [Producers -> Post]
    BY <1>5, <2>1, <2>2 DEF Retry, TypeOK
  <2>4. counter' \in Nat
    BY <1>5, <2>a DEF Retry, TypeOK
  <2>5. stale' \in BOOLEAN
    BY <1>5, Zenon DEF Retry, TypeOK
  <2>6. lost' \in Nat
    BY <1>5 DEF Retry, TypeOK
  <2> QED
    BY <1>5, <2>3, <2>4, <2>5, <2>6 DEF Retry, TypeOK
<1>6. ASSUME NEW p \in Producers, GiveUp(p) \/ ReadNone(p) \/ Crash(p) PROVE TypeOK'
  <2>1. /\ [post[p] EXCEPT !.pc = "failed"] \in Post
        /\ [post[p] EXCEPT !.pc = "crashed"] \in Post
    BY PostFields DEF Post
  <2>2. post' \in [Producers -> Post]
    BY <1>6, <2>1 DEF GiveUp, ReadNone, Crash, TypeOK
  <2> QED
    BY <1>6, <2>2 DEF GiveUp, ReadNone, Crash, TypeOK
<1>7. ASSUME NEW p \in Producers, Reconnect(p) PROVE TypeOK'
  <2>a. post[p].run + 1 \in Nat
    BY PostFields
  <2>1. [post[p] EXCEPT !.pc = "read", !.run = post[p].run + 1] \in Post
    BY <2>a, PostFields, Zenon DEF Post
  <2>2. post' \in [Producers -> Post]
    BY <1>7, <2>1, PostSet, Zenon DEF Reconnect
  <2> QED
    BY <1>7, <2>2 DEF Reconnect, TypeOK
<1>8. ASSUME NEW d \in docs, Remove(d) PROVE TypeOK'
  BY <1>8, DocFields DEF Remove, TypeOK
<1>9. CASE Stall
  BY <1>9 DEF Stall, TypeOK
<1>10. CASE List
  BY <1>10, DocFields DEF List, TypeOK
<1>11. CASE UNCHANGED vars
  BY <1>11 DEF vars, TypeOK
<1> QED
  BY <1>1, <1>2, <1>3, <1>4, <1>5, <1>6, <1>7, <1>8, <1>9, <1>10, <1>11
  DEF Next, PostStep

\* The state of FIFO posting keeps its type.
THEOREM TypeCorrect == Spec => []TypeOK
<1>1. Init => TypeOK
  BY MongoFifoAssumption DEF MongoFifoAssumption, Init, TypeOK, Post
<1> QED
  BY <1>1, NextTypeOK, PTL DEF Spec

-------------------------------------------------------------------------------
\* The FIFO guarantee, where the counter never stalls, nothing is removed, no
\* connection is lost and every call posts one message.

\* Every marker below the counter is taken, none above it.
Dense ==
    /\ counter >= 1
    /\ \A k \in Nat : 1 <= k /\ k < counter => \E d \in docs : d.k = k
    /\ \A d \in docs : 1 <= d.k /\ d.k <= counter

\* The marker at the counter belongs to the one call that is to increment it.
OneTurn ==
    /\ \A d, e \in docs : d.k = e.k => d = e
    /\ \A p \in Producers : post[p].pc = "inc" =>
          \E d \in docs : d.k = counter /\ d.msg.p = p

\* A call inserts at a marker that was the counter's, once.
BasesBelow ==
    \A p \in Producers :
        /\ post[p].pc = "insert" =>
              1 <= post[p].base /\ post[p].base <= counter /\ post[p].i = 0
        /\ post[p].pc # "finalize"

\* The observer stands at a message.
MarkerTaken == marker = 0 \/ \E d \in docs : d.k = marker

FifoInv ==
    /\ TypeOK
    /\ ~stale
    /\ Dense
    /\ OneTurn
    /\ BasesBelow
    /\ MarkerTaken
    /\ ObserverMissesNothing

\* The conditions of the guarantee.
Quiet ==
    /\ ~Stalls /\ ~Removals /\ MaxLost = 0
    /\ \A p \in Producers : Batch[p] = 1

\* The invariant holds in the empty queue.
LEMMA InitFifo == Quiet /\ Init => FifoInv
  BY MongoFifoAssumption
  DEF MongoFifoAssumption, Quiet, Init, FifoInv, TypeOK, Post, Dense, OneTurn,
      BasesBelow, MarkerTaken, ObserverMissesNothing

\* A step that leaves counter, documents and observer alone keeps the invariant,
\* if the call that steps does not insert or increment next.
LEMMA IdleFifo ==
  ASSUME FifoInv, TypeOK', NEW p \in Producers,
         UNCHANGED <<counter, stale, docs, marker, seen>>,
         \A q \in Producers \ {p} : post'[q] = post[q],
         post'[p].pc \notin {"insert", "inc", "finalize"}
  PROVE  FifoInv'
<1>1. Dense' /\ MarkerTaken' /\ ObserverMissesNothing'
  BY DEF FifoInv, Dense, MarkerTaken, ObserverMissesNothing
<1>2. OneTurn'
  BY DEF FifoInv, OneTurn
<1>3. BasesBelow'
  BY DEF FifoInv, BasesBelow
<1> QED
  BY <1>1, <1>2, <1>3 DEF FifoInv

\* An insert succeeds at the counter only, past the observer.
LEMMA InsertFifo ==
  ASSUME Quiet, FifoInv, TypeOK', NEW p \in Producers, Insert(p) PROVE FifoInv'
<1> USE DEF FifoInv
<1>1. UNCHANGED <<counter, stale, marker, seen>>
  BY DEF Insert
<1>2. post[p].pc = "insert" /\ post[p].i = 0 /\ Batch[p] = 1
  BY InsertEffect DEF BasesBelow, Quiet
<1>3. CASE post'[p].pc = "retry" /\ docs' = docs
  BY <1>1, <1>3, IdleFifo, InsertEffect
<1>4. CASE ~(post'[p].pc = "retry" /\ docs' = docs)
  <2> DEFINE new == [k |-> post[p].base, msg |-> Message(p, 0), fin |-> TRUE]
  <2>1. post[p].base + post[p].i = post[p].base
    BY <1>2, PostFields
  <2>2. post[p].i + 1 = Batch[p]
    BY <1>2
  <2>3. /\ post'[p].pc = "inc"
        /\ \A d \in docs : d.k # post[p].base
        /\ docs' = docs \cup {new}
        /\ \A q \in Producers \ {p} : post'[q] = post[q]
    BY <1>2, <1>4, <2>1, <2>2, InsertEffect, ZenonT(30)
  <2>4. post[p].base = counter
    BY SMTT(30), <1>2, <2>3, PostFields DEF Dense, BasesBelow, TypeOK
  <2>5. \A d \in docs : d.k < counter
    BY <2>3, <2>4, DocFields DEF Dense, TypeOK
  <2>6. Dense'
    BY <1>1, <2>3, <2>4, DocFields DEF Dense, TypeOK
  <2>7. OneTurn'
    <3>1. \A d, e \in docs' : d.k = e.k => d = e
      <4>1. new.k = post[p].base
        OBVIOUS
      <4>2. \A d \in docs : d.k # new.k
        BY <2>3, <4>1
      <4> HIDE DEF new
      <4> QED
        BY <2>3, <4>2 DEF OneTurn
    <3>2. \A q \in Producers : post'[q].pc = "inc" => q = p
      <4>1. ASSUME NEW q \in Producers \ {p}, post[q].pc = "inc" PROVE FALSE
        BY <2>3, <2>4, <4>1 DEF OneTurn
      <4> QED
        BY <2>3, <4>1
    <3>3. new \in docs' /\ new.k = counter /\ new.msg.p = p
      BY <2>3, <2>4 DEF Message
    <3> QED
      BY <1>1, <3>1, <3>2, <3>3 DEF OneTurn
  <2>8. BasesBelow'
    BY <1>1, <2>3 DEF BasesBelow
  <2>9. MarkerTaken' /\ marker < counter
    BY <1>1, <2>3, <2>5 DEF MarkerTaken, Dense, TypeOK
  <2>10. ObserverMissesNothing'
    BY <1>1, <2>3, <2>4, <2>9 DEF ObserverMissesNothing, TypeOK
  <2> QED
    BY <1>1, <2>6, <2>7, <2>8, <2>9, <2>10
<1> QED
  BY <1>3, <1>4

\* The increment is the turn of one call, and passes it on.
LEMMA IncFifo ==
  ASSUME Quiet, FifoInv, TypeOK', NEW p \in Producers, Inc(p) PROVE FifoInv'
<1> USE DEF FifoInv
<1>1. /\ counter' = counter + 1 /\ stale' = FALSE
      /\ UNCHANGED <<docs, marker, seen>>
      /\ post' = [post EXCEPT ![p].pc = "done"]
  BY DEF Inc, Quiet, TypeOK
<1>2. post'[p].pc = "done" /\ \A q \in Producers \ {p} : post'[q] = post[q]
  BY <1>1 DEF TypeOK, Post
<1>3. PICK d \in docs : d.k = counter /\ d.msg.p = p
  BY DEF OneTurn, Inc
<1>4. Dense'
  <2>1. \A k \in Nat : 1 <= k /\ k < counter + 1 => k = counter \/ k < counter
    BY DEF TypeOK
  <2>2. \A e \in docs : e.k <= counter + 1
    BY DocFields DEF Dense, TypeOK
  <2>3. counter + 1 >= 1
    BY DEF TypeOK
  <2> QED
    BY <1>1, <1>3, <2>1, <2>2, <2>3 DEF Dense
<1>5. OneTurn'
  <2>1. ASSUME NEW q \in Producers \ {p}, post[q].pc = "inc" PROVE FALSE
    BY <1>3, <2>1 DEF OneTurn
  <2> QED
    BY <1>1, <1>2, <2>1 DEF OneTurn
<1>6. BasesBelow'
  BY <1>1, <1>2, PostFields DEF BasesBelow, TypeOK
<1>7. MarkerTaken' /\ ObserverMissesNothing'
  BY <1>1 DEF MarkerTaken, ObserverMissesNothing
<1> QED
  BY <1>1, <1>4, <1>5, <1>6, <1>7

\* Every step keeps the invariant under the conditions of the guarantee.
LEMMA NextFifo == Quiet /\ FifoInv /\ [Next]_vars => FifoInv'
<1> SUFFICES ASSUME Quiet, FifoInv, [Next]_vars PROVE FifoInv'
  OBVIOUS
<1>1. TypeOK /\ TypeOK'
  BY NextTypeOK DEF FifoInv
<1>2. ASSUME NEW p \in Producers, Read(p) PROVE FifoInv'
  <2>1. /\ post'[p].pc = "insert" /\ post'[p].base = counter /\ post'[p].i = 0
        /\ \A q \in Producers \ {p} : post'[q] = post[q]
    BY <1>1, <1>2 DEF Read, TypeOK, Post
  <2>2. Dense' /\ MarkerTaken' /\ ObserverMissesNothing' /\ stale' = stale
    BY <1>2 DEF Read, FifoInv, Dense, MarkerTaken, ObserverMissesNothing
  <2>3. OneTurn'
    BY <1>2, <2>1 DEF Read, FifoInv, OneTurn
  <2>4. BasesBelow'
    BY <1>1, <1>2, <2>1 DEF Read, FifoInv, BasesBelow, Dense, TypeOK
  <2> QED
    BY <1>1, <2>2, <2>3, <2>4 DEF FifoInv
<1>3. ASSUME NEW p \in Producers, Finalize(p) PROVE FifoInv'
  BY <1>3 DEF Finalize, FifoInv, BasesBelow
<1>4. ASSUME NEW p \in Producers, Retry(p) \/ GiveUp(p) \/ Crash(p) PROVE FifoInv'
  <2>1. post'[p].pc \in {"read", "failed", "crashed"}
    BY <1>1, <1>4 DEF Retry, GiveUp, Crash, FifoInv, TypeOK, Post
  <2>2. \A q \in Producers \ {p} : post'[q] = post[q]
    BY <1>1, <1>4 DEF Retry, GiveUp, Crash, FifoInv, TypeOK
  <2>3. UNCHANGED <<counter, stale, docs, marker, seen>>
    BY <1>4 DEF Retry, GiveUp, Crash, FifoInv
  <2> QED
    BY Zenon, <1>1, <2>1, <2>2, <2>3, IdleFifo
<1>5. ASSUME NEW p \in Producers, Reconnect(p) \/ ReadNone(p) PROVE FALSE
  BY <1>1, <1>5 DEF Reconnect, ReadNone, Quiet, TypeOK
<1>6. ASSUME NEW d \in docs, Remove(d) PROVE FALSE
  BY <1>6 DEF Remove, Quiet
<1>7. CASE Stall
  BY <1>7 DEF Stall, Quiet
<1>8. CASE List
  <2>1. PICK last \in docs :
          /\ last.fin /\ last.k > marker
          /\ marker' = last.k
          /\ seen' = seen \cup {d.msg : d \in {e \in docs : /\ e.fin
                                                            /\ e.k > marker
                                                            /\ e.k <= last.k}}
    BY <1>8 DEF List
  <2>2. MarkerTaken' /\ Dense' /\ OneTurn' /\ BasesBelow' /\ stale' = stale
    BY <1>8, <2>1 DEF List, FifoInv, MarkerTaken, Dense, OneTurn, BasesBelow
  <2>3. ObserverMissesNothing'
    <3> SUFFICES ASSUME NEW d \in docs, d.fin, d.k <= last.k
                 PROVE  d.msg \in seen'
      BY <1>8, <2>1 DEF List, ObserverMissesNothing
    <3>1. CASE d.k <= marker
      BY <2>1, <3>1 DEF FifoInv, ObserverMissesNothing
    <3>2. CASE ~(d.k <= marker)
      <4>1. d.k > marker
        BY <1>1, <3>2, DocFields DEF TypeOK
      <4> QED
        BY <2>1, <4>1
    <3> QED
      BY <3>1, <3>2
  <2> QED
    BY <1>1, <2>2, <2>3 DEF FifoInv
<1>9. CASE UNCHANGED vars
  BY <1>9 DEF vars, FifoInv, TypeOK, Dense, OneTurn, BasesBelow, MarkerTaken,
              ObserverMissesNothing
<1> QED
  BY <1>1, <1>2, <1>3, <1>4, <1>5, <1>6, <1>7, <1>8, <1>9, InsertFifo, IncFifo
  DEF Next, PostStep

\* Under those conditions, with any number of producers, crashing wherever they
\* like, an observer that pages through the queue misses no message.
THEOREM FifoGuarantee == ASSUME Quiet PROVE Spec => []ObserverMissesNothing
<1>1. FifoInv => ObserverMissesNothing
  BY DEF FifoInv
<1> QED
  BY InitFifo, NextFifo, <1>1, PTL DEF Spec

-------------------------------------------------------------------------------
\* Batches, whatever stalls, removals, lost connections and crashes there are.

MsgOf(p, run, i) == [p |-> p, i |-> i, run |-> run]

\* The message got into the queue.
Inserted(p, run, i) ==
    MsgOf(p, run, i) \in removed \/ \E d \in docs : d.msg = MsgOf(p, run, i)

\* It can be listed, or has been removed.
Listed(p, run, i) ==
    \/ MsgOf(p, run, i) \in removed
    \/ \E d \in docs : d.msg = MsgOf(p, run, i) /\ d.fin

\* A run of post() that is past its insert has inserted its whole batch.
InsertedSoFar(p) ==
    /\ post[p].pc = "insert" =>
          /\ post[p].i < Batch[p]
          /\ \A j \in Nat : j < post[p].i => Inserted(p, post[p].run, j)
    /\ post[p].pc \in {"inc", "finalize", "done"} =>
          \A j \in Nat : j < Batch[p] => Inserted(p, post[p].run, j)

FinalWhole ==
    \A d \in docs :
        /\ d.fin => \A j \in Nat : j < Batch[d.msg.p] =>
                        Inserted(d.msg.p, d.msg.run, j)
        /\ Batch[d.msg.p] = 1 => d.fin

DoneListed(p) ==
    post[p].pc = "done" => \A j \in Nat : j < Batch[p] => Listed(p, post[p].run, j)

BatchInv ==
    /\ TypeOK
    /\ FinalWhole
    /\ \A p \in Producers : InsertedSoFar(p) /\ DoneListed(p)

\* The invariant implies the two properties of batches.
LEMMA BatchSafe == BatchInv => VisibleBatchWhole /\ AckedVisible
<1> SUFFICES ASSUME BatchInv PROVE VisibleBatchWhole /\ AckedVisible
  OBVIOUS
<1>1. VisibleBatchWhole
  <2> SUFFICES ASSUME NEW d \in docs, d.fin, NEW i \in 0 .. Batch[d.msg.p] - 1
               PROVE  LET m == [d.msg EXCEPT !.i = i]
                      IN m \in removed \/ \E e \in docs : e.msg = m
    BY DEF VisibleBatchWhole
  <2>1. d.msg \in Msg /\ d.msg.p \in Producers
    BY DocFields DEF BatchInv
  <2>2. i \in Nat /\ i < Batch[d.msg.p]
    BY <2>1, PostFields DEF BatchInv
  <2>3. [d.msg EXCEPT !.i = i] = MsgOf(d.msg.p, d.msg.run, i)
    BY <2>1 DEF Msg, MsgOf
  <2>4. Inserted(d.msg.p, d.msg.run, i)
    BY <2>2 DEF BatchInv, FinalWhole
  <2> QED
    BY <2>3, <2>4 DEF Inserted
<1>2. AckedVisible
  <2> SUFFICES ASSUME NEW p \in Producers, post[p].pc = "done",
                      NEW i \in 0 .. Batch[p] - 1
               PROVE  LET m == Message(p, i)
                      IN m \in removed \/ \E d \in docs : d.msg = m /\ d.fin
    BY DEF AckedVisible
  <2>1. i \in Nat /\ i < Batch[p]
    BY PostFields DEF BatchInv
  <2>2. Listed(p, post[p].run, i)
    BY <2>1 DEF BatchInv, DoneListed
  <2> QED
    BY <2>2 DEF Listed, Message, MsgOf
<1> QED
  BY <1>1, <1>2

\* Once in, a message stays in, or is known as removed.
LEMMA StayIn ==
  ASSUME BatchInv, [Next]_vars, NEW p \in Producers, NEW run \in Nat, NEW j \in Nat
  PROVE  /\ Inserted(p, run, j) => Inserted(p, run, j)'
         /\ Listed(p, run, j) => Listed(p, run, j)'
<1>1. \A d \in docs : d.msg \in removed' \/ \E e \in docs' : e.msg = d.msg /\ (d.fin => e.fin)
  <2>1. ASSUME NEW q \in Producers, Insert(q) PROVE docs \subseteq docs'
    BY <2>1, InsertEffect DEF BatchInv
  <2>2. ASSUME NEW q \in Producers, Finalize(q), NEW d \in docs
        PROVE  \E e \in docs' : e.msg = d.msg /\ (d.fin => e.fin)
    <3>1. CASE docs' = docs
      BY <3>1
    <3>2. CASE docs' # docs
      <4>1. PICK o \in docs : docs' = (docs \ {o}) \cup {[o EXCEPT !.fin = TRUE]}
        BY <2>2, <3>2 DEF Finalize, Open
      <4>2. [o EXCEPT !.fin = TRUE].msg = o.msg /\ [o EXCEPT !.fin = TRUE].fin
        BY Zenon, DocFields DEF BatchInv, Doc
      <4> QED
        BY <4>1, <4>2, Zenon
    <3> QED
      BY <3>1, <3>2
  <2>3. ASSUME NEW q \in Producers,
               Read(q) \/ Inc(q) \/ Retry(q) \/ GiveUp(q) \/ ReadNone(q)
               \/ Reconnect(q) \/ Crash(q)
        PROVE  docs' = docs
    BY <2>3 DEF Read, Inc, Retry, GiveUp, ReadNone, Reconnect, Crash
  <2>4. ASSUME NEW d \in docs, Remove(d)
        PROVE  docs' = docs \ {d} /\ d.msg \in removed'
    BY SMTT(30), <2>4 DEF Remove
  <2>5. ASSUME Stall \/ List \/ UNCHANGED vars PROVE docs' = docs
    BY <2>5 DEF Stall, List, vars
  <2> QED
    BY SMTT(30), <2>1, <2>2, <2>3, <2>4, <2>5 DEF Next, PostStep
<1>2. removed \subseteq removed'
  BY ZenonT(30) DEF Next, PostStep, Read, Insert, Inc, Finalize, Retry, GiveUp, ReadNone,
         Reconnect, Crash, Remove, Stall, List, vars
<1> QED
  BY <1>1, <1>2 DEF Inserted, Listed, MsgOf

\* A call that does not step keeps what it has inserted and acknowledged.
LEMMA OtherCall ==
  ASSUME BatchInv, [Next]_vars, NEW p \in Producers, post'[p] = post[p]
  PROVE  (InsertedSoFar(p) /\ DoneListed(p))'
  BY SMTT(30), StayIn, PostFields DEF BatchInv, InsertedSoFar, DoneListed

\* A call that starts over, waits or ends without success owes nothing yet.
LEMMA FreshCall ==
  ASSUME BatchInv, [Next]_vars, NEW p \in Producers,
         \/ post'[p].pc \in {"read", "retry", "failed", "crashed"}
         \/ post'[p].pc = "insert" /\ post'[p].i = 0
  PROVE  (InsertedSoFar(p) /\ DoneListed(p))'
  BY PostFields DEF BatchInv, InsertedSoFar, DoneListed

\* An insert adds its own document and no other.
LEMMA InsertCall ==
  ASSUME BatchInv, [Next]_vars, NEW p \in Producers, Insert(p)
  PROVE  (InsertedSoFar(p) /\ DoneListed(p))' /\ FinalWhole'
<1> USE DEF BatchInv
<1>1. CASE post'[p].pc = "retry" /\ docs' = docs
  <2>1. FinalWhole'
    BY <1>1, StayIn, DocFields DEF FinalWhole
  <2> QED
    BY SMTT(30), <1>1, <2>1, FreshCall
<1>2. CASE ~(post'[p].pc = "retry" /\ docs' = docs)
  <2> DEFINE n == post[p].i
             new == [k |-> post[p].base + n, msg |-> Message(p, n),
                     fin |-> Batch[p] = 1]
  <2>1. /\ post[p].pc = "insert"
        /\ post'[p].pc = IF n + 1 = Batch[p] THEN "inc" ELSE "insert"
        /\ post'[p].i = n + 1 /\ post'[p].run = post[p].run
        /\ docs' = docs \cup {new}
    BY SMTT(30), <1>2, InsertEffect
  <2>2. n \in Nat /\ post[p].run \in Nat /\ Batch[p] \in Nat /\ n < Batch[p]
    BY <2>1, PostFields DEF InsertedSoFar
  <2>3. new.msg = MsgOf(p, post[p].run, n) /\ new.fin = (Batch[p] = 1)
    BY DEF Message, MsgOf
  <2> HIDE DEF new
  <2>4. \A j \in Nat : j < n + 1 => Inserted(p, post[p].run, j)'
    <3> SUFFICES ASSUME NEW j \in Nat, j < n + 1 PROVE Inserted(p, post[p].run, j)'
      BY SMTT(30)
    <3>1. CASE j = n
      <4>1. new \in docs' /\ new.msg = MsgOf(p, post[p].run, j)
        BY SMTT(30), <2>1, <2>3, <3>1
      <4>2. \E d \in docs' : d.msg = MsgOf(p, post[p].run, j)
        BY <4>1
      <4>3. Inserted(p, post[p].run, j)' <=>
              (MsgOf(p, post[p].run', j) \in removed'
               \/ \E d \in docs' : d.msg = MsgOf(p, post[p].run', j))
        BY ZenonT(30) DEF Inserted, MsgOf
      <4> QED
        BY Zenon, <2>1, <4>2, <4>3
    <3>2. CASE j # n
      <4>1. j < n
        BY SMTT(30), <2>2, <3>2
      <4> QED
        BY SMTT(30), <2>1, <2>2, <4>1, StayIn DEF InsertedSoFar
    <3> QED
      BY <3>1, <3>2
  <2>5. (InsertedSoFar(p) /\ DoneListed(p))'
    BY SMTT(30), <2>1, <2>2, <2>4 DEF InsertedSoFar, DoneListed
  <2>6. FinalWhole'
    <3> SUFFICES ASSUME NEW d \in docs'
                 PROVE  /\ d.fin => \A j \in Nat : j < Batch[d.msg.p] =>
                                        Inserted(d.msg.p, d.msg.run, j)'
                        /\ Batch[d.msg.p] = 1 => d.fin
      BY ZenonT(30) DEF FinalWhole
    <3>1. CASE d \in docs
      BY <3>1, StayIn, DocFields DEF FinalWhole
    <3>2. CASE d = new
      <4>1. d.msg.p = p /\ d.msg.run = post[p].run
        BY SMTT(30), <2>3, <3>2 DEF MsgOf
      <4>2. ASSUME NEW j \in Nat, j < Batch[p], d.fin
            PROVE  Inserted(d.msg.p, d.msg.run, j)'
        <5>1. Batch[p] = 1
          BY <2>3, <3>2, <4>2, Zenon
        <5>2. j < n + 1
          BY <2>2, <4>2, <5>1
        <5> QED
          BY <2>1, <2>4, <4>1, <5>2 DEF Inserted
      <4> QED
        BY <2>3, <3>2, <4>1, <4>2, ZenonT(30)
    <3> QED
      BY SMTT(30), <2>1, <3>1, <3>2
  <2> QED
    BY SMTT(30), <2>5, <2>6
<1> QED
  BY <1>1, <1>2

\* The last update makes documents of whole batches visible; the call is done
\* when none is left.
LEMMA FinalizeCall ==
  ASSUME BatchInv, [Next]_vars, NEW p \in Producers, Finalize(p)
  PROVE  (InsertedSoFar(p) /\ DoneListed(p))' /\ FinalWhole'
<1> USE DEF BatchInv
<1>1. /\ post[p].pc = "finalize" /\ post[p].run \in Nat /\ Batch[p] \in Nat
      /\ \A j \in Nat : j < Batch[p] => Inserted(p, post[p].run, j)
  BY PostFields DEF Finalize, InsertedSoFar
<1>2. CASE Open(p) = {}
  <2>1. post'[p].pc = "done" /\ post'[p].run = post[p].run /\ docs' = docs
    BY SMTT(30), <1>2, PostFields DEF Finalize, TypeOK, Post
  <2>2. ASSUME NEW j \in Nat, j < Batch[p] PROVE Listed(p, post[p].run, j)
    <3>1. CASE MsgOf(p, post[p].run, j) \in removed
      BY <3>1 DEF Listed
    <3>2. CASE \E d \in docs : d.msg = MsgOf(p, post[p].run, j)
      <4>1. PICK d \in docs : d.msg = MsgOf(p, post[p].run, j)
        BY <3>2
      <4>2. d.msg.p = p /\ d.msg.run = post[p].run
        BY <4>1 DEF MsgOf
      <4>3. d.fin
        BY SMTT(30), <1>2, <4>2 DEF Open
      <4> QED
        BY <4>1, <4>3 DEF Listed
    <3> QED
      BY <1>1, <2>2, <3>1, <3>2 DEF Inserted
  <2>3. \A j \in Nat : j < Batch[p] =>
            Inserted(p, post[p].run, j)' /\ Listed(p, post[p].run, j)'
    BY SMTT(30), <1>1, <2>1, <2>2, StayIn
  <2>4. (InsertedSoFar(p) /\ DoneListed(p))'
    BY SMTT(30), <2>1, <2>3 DEF InsertedSoFar, DoneListed
  <2>5. FinalWhole'
    BY <2>1, StayIn, DocFields DEF FinalWhole
  <2> QED
    BY <2>4, <2>5
<1>3. CASE Open(p) # {}
  <2>1. post' = post
    BY <1>3 DEF Finalize
  <2>2. PICK o \in Open(p) : docs' = (docs \ {o}) \cup {[o EXCEPT !.fin = TRUE]}
    BY <1>3 DEF Finalize
  <2>3. /\ o \in docs /\ o.msg.p = p /\ o.msg.run = post[p].run
        /\ [o EXCEPT !.fin = TRUE].msg = o.msg
        /\ [o EXCEPT !.fin = TRUE].fin
    BY DocFields DEF Open, Doc
  <2>4. FinalWhole'
    <3> SUFFICES ASSUME NEW d \in docs'
                 PROVE  /\ d.fin => \A j \in Nat : j < Batch[d.msg.p] =>
                                        Inserted(d.msg.p, d.msg.run, j)'
                        /\ Batch[d.msg.p] = 1 => d.fin
      BY SMTT(30) DEF FinalWhole
    <3>1. CASE d \in docs
      BY SMTT(30), <3>1, StayIn, DocFields DEF FinalWhole
    <3>2. CASE d = [o EXCEPT !.fin = TRUE]
      <4>1. d.msg.p = p /\ d.msg.run = post[p].run /\ d.fin
        BY <2>3, <3>2
      <4>2. \A j \in Nat : j < Batch[p] => Inserted(d.msg.p, d.msg.run, j)
        BY <1>1, <4>1
      <4> QED
        BY <1>1, <4>1, <4>2, StayIn
    <3> QED
      BY SMTT(30), <2>2, <3>1, <3>2
  <2> QED
    BY <2>1, <2>4, OtherCall
<1> QED
  BY <1>2, <1>3

\* Every step keeps the invariant of batches.
LEMMA NextBatch == BatchInv /\ [Next]_vars => BatchInv'
<1> SUFFICES ASSUME BatchInv, [Next]_vars PROVE BatchInv'
  OBVIOUS
<1>1. TypeOK /\ TypeOK'
  BY SMTT(30), NextTypeOK DEF BatchInv
<1>2. ASSUME docs' \subseteq docs PROVE FinalWhole'
  BY SMTT(30), <1>1, <1>2, StayIn, DocFields DEF BatchInv, FinalWhole
<1>3. ASSUME NEW p \in Producers, \A q \in Producers \ {p} : post'[q] = post[q],
             (InsertedSoFar(p) /\ DoneListed(p))', FinalWhole'
      PROVE  BatchInv'
  BY <1>1, <1>3, OtherCall DEF BatchInv
<1>4. ASSUME NEW p \in Producers,
             Read(p) \/ Retry(p) \/ GiveUp(p) \/ ReadNone(p) \/ Crash(p)
             \/ Reconnect(p)
      PROVE  BatchInv'
  <2>1. docs' = docs
    BY <1>4 DEF Read, Retry, GiveUp, ReadNone, Crash, Reconnect
  <2>2. \A q \in Producers \ {p} : post'[q] = post[q]
    BY SMTT(30), <1>1, <1>4 DEF Read, Retry, GiveUp, ReadNone, Crash, Reconnect, TypeOK
  <2>3. \/ post'[p].pc \in {"read", "retry", "failed", "crashed"}
        \/ post'[p].pc = "insert" /\ post'[p].i = 0
    <3>1. CASE Read(p)
      BY <1>1, <3>1 DEF Read, TypeOK, Post
    <3>2. CASE Retry(p)
      BY <1>1, <3>2, ZenonT(30) DEF Retry, TypeOK, Post
    <3>3. CASE GiveUp(p)
      BY <1>1, <3>3 DEF GiveUp, TypeOK, Post
    <3>4. CASE Crash(p)
      BY <1>1, <3>4 DEF Crash, TypeOK, Post
    <3>5. CASE Reconnect(p)
      BY <1>1, <3>5 DEF Reconnect, TypeOK, Post
    <3>6. CASE ReadNone(p)
      BY <1>1, <3>6 DEF ReadNone, TypeOK, Post
    <3> QED
      BY <1>4, <3>1, <3>2, <3>3, <3>4, <3>5, <3>6
  <2> QED
    BY <1>2, <1>3, <2>1, <2>2, <2>3, FreshCall
<1>5. ASSUME NEW p \in Producers, Insert(p) PROVE BatchInv'
  BY <1>1, <1>3, <1>5, InsertCall, InsertEffect
<1>6. ASSUME NEW p \in Producers, Inc(p) PROVE BatchInv'
  <2>1. docs' = docs /\ \A q \in Producers \ {p} : post'[q] = post[q]
    BY <1>1, <1>6 DEF Inc, TypeOK
  <2>2. /\ post[p].pc = "inc" /\ post'[p].run = post[p].run
        /\ \/ post'[p] = post[p]
           \/ post'[p].pc = "done" /\ Batch[p] = 1
           \/ post'[p].pc = "finalize"
    BY <1>1, <1>6 DEF Inc, TypeOK, Post
  <2>3. post[p].run \in Nat
    BY SMTT(30), <1>1, PostFields
  <2>4. ASSUME NEW j \in Nat, j < Batch[p] PROVE Inserted(p, post[p].run, j)
    BY SMTT(30), <2>2, <2>4 DEF BatchInv, InsertedSoFar
  <2>5. ASSUME NEW j \in Nat, j < Batch[p], Batch[p] = 1
        PROVE  Listed(p, post[p].run, j)
    <3>1. CASE MsgOf(p, post[p].run, j) \in removed
      BY <3>1 DEF Listed
    <3>2. CASE \E d \in docs : d.msg = MsgOf(p, post[p].run, j)
      <4>1. PICK d \in docs : d.msg = MsgOf(p, post[p].run, j)
        BY <3>2
      <4>2. d.msg.p = p
        BY <4>1 DEF MsgOf
      <4>3. d.fin
        BY SMTT(30), <2>5, <4>2 DEF BatchInv, FinalWhole
      <4> QED
        BY <4>1, <4>3 DEF Listed
    <3> QED
      BY <2>4, <2>5, <3>1, <3>2 DEF Inserted
  <2>6. \A j \in Nat : j < Batch[p] =>
            /\ Inserted(p, post[p].run, j)'
            /\ Batch[p] = 1 => Listed(p, post[p].run, j)'
    BY SMTT(30), <2>2, <2>3, <2>4, <2>5, StayIn
  <2>7. (InsertedSoFar(p) /\ DoneListed(p))'
    <3>1. CASE post'[p] = post[p]
      BY SMTT(30), <3>1, OtherCall
    <3>2. CASE post'[p].pc \in {"done", "finalize"}
      BY SMTT(30), <2>2, <2>6, <3>2 DEF InsertedSoFar, DoneListed
    <3> QED
      BY SMTT(30), <2>2, <3>1, <3>2
  <2> QED
    BY <1>2, <1>3, <2>1, <2>7
<1>7. ASSUME NEW p \in Producers, Finalize(p) PROVE BatchInv'
  <2>1. \A q \in Producers \ {p} : post'[q] = post[q]
    BY <1>1, <1>7 DEF Finalize, TypeOK
  <2> QED
    BY <1>3, <1>7, <2>1, FinalizeCall
<1>8. ASSUME post' = post, docs' \subseteq docs PROVE BatchInv'
  BY <1>1, <1>2, <1>8, OtherCall DEF BatchInv
<1>9. ASSUME NEW d \in docs, Remove(d) PROVE BatchInv'
  BY <1>8, <1>9 DEF Remove
<1>10. CASE Stall \/ List \/ UNCHANGED vars
  BY <1>8, <1>10 DEF Stall, List, vars
<1> QED
  BY <1>4, <1>5, <1>6, <1>7, <1>9, <1>10 DEF Next, PostStep

\* The invariant of batches holds in every reachable state.
LEMMA BatchInvariance == Spec => []BatchInv
<1>1. Init => BatchInv
  BY MongoFifoAssumption
  DEF MongoFifoAssumption, Init, BatchInv, TypeOK, Post, InsertedSoFar, DoneListed,
      FinalWhole
<1> QED
  BY <1>1, NextBatch, PTL DEF Spec

\* A batch of which one message can be listed got into the queue as a whole,
\* whatever stalls, removals, lost connections and crashes there are.
THEOREM WholeBatches == Spec => []VisibleBatchWhole
  BY BatchInvariance, BatchSafe, PTL

\* A message that post() acknowledged can be listed, or has been removed.
THEOREM AcknowledgedListed == Spec => []AckedVisible
  BY BatchInvariance, BatchSafe, PTL
===============================================================================
