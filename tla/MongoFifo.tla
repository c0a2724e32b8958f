------------------------------- MODULE MongoFifo ------------------------------
(* FIFOMessageController.post() of storage/mongodb/messages.py: producers    *)
(* that agree on pagination markers through a counter, which is read before  *)
(* the insert and incremented after it, and through the unique index on the  *)
(* marker k; an observer pages through the queue with list(marker=...).      *)
(* Every database call is a step, a batch insert and a multi-document update *)
(* one step per document.                                                    *)
EXTENDS Naturals, FiniteSets

CONSTANTS
    Producers,   \* calls of post()
    Batch,       \* the number of messages of each call
    Stalls,      \* may the counter go without an update for the stall window?
    Removals,    \* may messages be deleted, popped, or expire?
    MaxLost,     \* bound of the number of lost connections
    MaxCounter   \* bound of the counter for the increments of stalled counters

ASSUME MongoFifoAssumption ==
    /\ Batch \in [Producers -> Nat \ {0}]
    /\ Stalls \in BOOLEAN /\ Removals \in BOOLEAN
    /\ MaxLost \in Nat /\ MaxCounter \in Nat

VARIABLES
    counter,   \* c.v, the next marker
    stale,     \* c.t < now - COUNTER_STALL_WINDOW
    docs,      \* message documents
    removed,   \* messages that were removed
    post,      \* the state of each call
    lost,      \* connections lost so far
    marker,    \* the observer's marker, 0 at first
    seen       \* messages the observer was given

vars == <<counter, stale, docs, removed, post, lost, marker, seen>>

\* A message is the i-th of its call; every run of post() under the retry
\* decorator makes documents, _ids and a transaction of its own.
Msg == [p : Producers, i : Nat, run : Nat]

\* fin is tx = None.
Doc == [k : Nat, msg : Msg, fin : BOOLEAN]

\* base is next_marker, i the index of the document to insert next.
Post == [pc   : {"read", "insert", "inc", "finalize", "retry", "done", "failed",
                 "crashed"},
         base : Nat,
         i    : Nat,
         run  : Nat]

TypeOK ==
    /\ counter \in Nat
    /\ stale \in BOOLEAN
    /\ docs \subseteq Doc
    /\ removed \subseteq Msg
    /\ post \in [Producers -> Post]
    /\ lost \in Nat
    /\ marker \in Nat
    /\ seen \subseteq Msg

\* The counter is created with v = 1 and t = 0, long ago (queues.py _create).
Init ==
    /\ counter = 1
    /\ stale = Stalls
    /\ docs = {}
    /\ removed = {}
    /\ post = [p \in Producers |-> [pc |-> "read", base |-> 0, i |-> 0, run |-> 0]]
    /\ lost = 0
    /\ marker = 0
    /\ seen = {}

-------------------------------------------------------------------------------
\* The steps of post().

Message(p, i) == [p |-> p, i |-> i, run |-> post[p].run]

\* Mutant: the batch size subtracted, as post() of the other controller does.
ReadBelow(p) ==
    /\ post[p].pc = "read"
    /\ post' = [post EXCEPT ![p] = [@ EXCEPT !.pc = "insert", !.i = 0,
                                              !.base = counter - Batch[p]]]
    /\ UNCHANGED <<counter, stale, docs, removed, lost, marker, seen>>

\* next_marker = self._get_counter(...)
Read(p) ==
    /\ post[p].pc = "read"
    /\ post' = [post EXCEPT ![p] = [@ EXCEPT !.pc = "insert", !.base = counter,
                                              !.i = 0]]
    /\ UNCHANGED <<counter, stale, docs, removed, lost, marker, seen>>

\* Mutant: the index on the marker is not unique.
InsertAnyMarker(p) ==
    /\ post[p].pc = "insert"
    /\ docs' = docs \cup {[k   |-> post[p].base + post[p].i,
                           msg |-> Message(p, post[p].i), fin |-> Batch[p] = 1]}
    /\ post' = [post EXCEPT ![p] = [@ EXCEPT !.i = post[p].i + 1,
                                              !.pc = IF post[p].i + 1 = Batch[p]
                                                     THEN "inc" ELSE "insert"]]
    /\ UNCHANGED <<counter, stale, removed, lost, marker, seen>>

\* Mutant: no two-phase insert for a batch.
InsertVisible(p) ==
    LET k == post[p].base + post[p].i
        m == Message(p, post[p].i)
    IN /\ post[p].pc = "insert"
       /\ \A d \in docs : d.k # k /\ d.msg # m
       /\ docs' = docs \cup {[k |-> k, msg |-> m, fin |-> TRUE]}
       /\ post' = [post EXCEPT ![p] = [@ EXCEPT !.i = post[p].i + 1,
                                                 !.pc = IF post[p].i + 1 = Batch[p]
                                                        THEN "inc" ELSE "insert"]]
       /\ UNCHANGED <<counter, stale, removed, lost, marker, seen>>

\* One document of collection.insert(): the indexes on k and on _id are unique.
\* The insert stops at the first document that fails.
Insert(p) ==
    LET k == post[p].base + post[p].i
        m == Message(p, post[p].i)
    IN /\ post[p].pc = "insert"
       /\ IF \E d \in docs : d.k = k \/ d.msg = m
          THEN /\ post' = [post EXCEPT ![p].pc = "retry"]
               /\ UNCHANGED docs
          ELSE /\ docs' = docs \cup {[k |-> k, msg |-> m, fin |-> Batch[p] = 1]}
               /\ post' = [post EXCEPT ![p] =
                              [@ EXCEPT !.i = post[p].i + 1,
                                        !.pc = IF post[p].i + 1 = Batch[p]
                                               THEN "inc" ELSE "insert"]]
       /\ UNCHANGED <<counter, stale, removed, lost, marker, seen>>

\* Mutant: a batch is acknowledged without being finalized.
IncDone(p) ==
    /\ post[p].pc = "inc"
    /\ counter' = counter + Batch[p]
    /\ stale' = FALSE
    /\ post' = [post EXCEPT ![p].pc = "done"]
    /\ UNCHANGED <<docs, removed, lost, marker, seen>>

\* self._inc_counter(amount=len(ids)), which tries again by itself when the
\* connection is lost, be the increment applied or not.
Inc(p) ==
    /\ post[p].pc = "inc"
    /\ counter' = counter + Batch[p]
    /\ stale' = FALSE
    /\ \/ /\ post' = [post EXCEPT ![p].pc = IF Batch[p] = 1 THEN "done"
                                            ELSE "finalize"]
          /\ UNCHANGED lost
       \/ /\ lost < MaxLost
          /\ lost' = lost + 1
          /\ UNCHANGED post
    /\ UNCHANGED <<docs, removed, marker, seen>>

\* The documents of call p that the last update has yet to finalize.
Open(p) == {d \in docs : d.msg.p = p /\ d.msg.run = post[p].run /\ ~d.fin}

Finalize(p) ==
    /\ post[p].pc = "finalize"
    /\ IF Open(p) = {}
       THEN /\ post' = [post EXCEPT ![p].pc = "done"]
            /\ UNCHANGED docs
       ELSE /\ \E d \in Open(p) :
                  docs' = (docs \ {d}) \cup {[d EXCEPT !.fin = TRUE]}
            /\ UNCHANGED post
    /\ UNCHANGED <<counter, stale, removed, lost, marker, seen>>

\* Mutant: a counter that has stalled is only read again.
RetrySame(p) ==
    /\ post[p].pc = "retry"
    /\ post' = [post EXCEPT ![p].pc = "read"]
    /\ UNCHANGED <<counter, stale, docs, removed, lost, marker, seen>>

\* DuplicateKeyError: a counter that has stalled is incremented, by one; if it
\* has not, or the increment was applied and its reply lost, it is read again.
Retry(p) ==
    /\ post[p].pc = "retry"
    /\ IF stale
       THEN /\ counter < MaxCounter
            /\ counter' = counter + 1
            /\ stale' = FALSE
            /\ \/ /\ post' = [post EXCEPT ![p] =
                                  [@ EXCEPT !.pc = "insert", !.base = counter + 1,
                                            !.i = 0]]
                  /\ UNCHANGED lost
               \/ /\ lost < MaxLost
                  /\ lost' = lost + 1
                  /\ post' = [post EXCEPT ![p].pc = "read"]
       ELSE /\ post' = [post EXCEPT ![p].pc = "read"]
            /\ UNCHANGED <<counter, stale, lost>>
    /\ UNCHANGED <<docs, removed, marker, seen>>

\* MAX_RETRY_POST_DURATION is over, or max_attempts: MessageConflict.
GiveUp(p) ==
    /\ post[p].pc = "retry"
    /\ post' = [post EXCEPT ![p].pc = "failed"]
    /\ UNCHANGED <<counter, stale, docs, removed, lost, marker, seen>>

\* The message controller's _get_counter() logs a lost connection and returns
\* None, which post() then adds an index to: an error for its caller.
ReadNone(p) ==
    /\ post[p].pc = "read"
    /\ lost < MaxLost
    /\ lost' = lost + 1
    /\ post' = [post EXCEPT ![p].pc = "failed"]
    /\ UNCHANGED <<counter, stale, docs, removed, marker, seen>>

\* retries_on_autoreconnect calls post() again.  The call that lost its reply
\* may have been applied.
Reconnect(p) ==
    /\ post[p].pc \in {"read", "insert", "inc", "finalize"}
    /\ lost < MaxLost
    /\ lost' = lost + 1
    /\ post' = [post EXCEPT ![p] = [@ EXCEPT !.pc = "read", !.run = post[p].run + 1]]
    /\ UNCHANGED <<counter, stale, docs, removed, marker, seen>>

\* The worker dies.
Crash(p) ==
    /\ post[p].pc \notin {"done", "failed", "crashed"}
    /\ post' = [post EXCEPT ![p].pc = "crashed"]
    /\ UNCHANGED <<counter, stale, docs, removed, lost, marker, seen>>

-------------------------------------------------------------------------------
\* The other clients and the clock.

\* More than COUNTER_STALL_WINDOW seconds without an update of the counter.
Stall ==
    /\ Stalls /\ ~stale
    /\ stale' = TRUE
    /\ UNCHANGED <<counter, docs, removed, post, lost, marker, seen>>

\* delete(), bulk_delete(), pop() and the TTL index; pop() and the index do not
\* look at tx.
Remove(d) ==
    /\ Removals
    /\ docs' = docs \ {d}
    /\ removed' = removed \cup {d.msg}
    /\ UNCHANGED <<counter, stale, post, lost, marker, seen>>

\* list(marker=marker): finalized messages past the marker, oldest first.  The
\* observer takes a page and goes on from its last message.
List ==
    /\ \E last \in docs :
          /\ last.fin /\ last.k > marker
          /\ marker' = last.k
          /\ seen' = seen \cup {d.msg : d \in {e \in docs : /\ e.fin
                                                            /\ e.k > marker
                                                            /\ e.k <= last.k}}
    /\ UNCHANGED <<counter, stale, docs, removed, post, lost>>

\* post() going on by itself.
PostStep(p) == Read(p) \/ Insert(p) \/ Inc(p) \/ Finalize(p) \/ Retry(p)

Next ==
    \/ \E p \in Producers : PostStep(p) \/ GiveUp(p) \/ ReadNone(p) \/ Reconnect(p)
                               \/ Crash(p)
    \/ \E d \in docs : Remove(d)
    \/ Stall
    \/ List

Spec == Init /\ [][Next]_vars

\* Workers that do not crash go on, and time passes.
FairSpec ==
    /\ Spec
    /\ \A p \in Producers : WF_vars(PostStep(p))
    /\ WF_vars(Stall)

-------------------------------------------------------------------------------
\* An observer that pages through the queue misses no message: the marker is
\* never handed past a message that shows up later.  "Our FIFO guarantee"
\* (messages.py:805).
ObserverMissesNothing ==
    \A d \in docs : d.fin /\ d.k <= marker => d.msg \in seen

\* If one message of a batch can be listed, every message of the batch made it
\* into the queue: "Finalize the insert once we can say that all the messages
\* made it" (messages.py:865).
VisibleBatchWhole ==
    \A d \in docs : d.fin =>
        \A i \in 0 .. Batch[d.msg.p] - 1 :
            LET m == [d.msg EXCEPT !.i = i]
            IN m \in removed \/ \E e \in docs : e.msg = m

\* What post() acknowledged is in the queue, ready to be listed, or was removed.
AckedVisible ==
    \A p \in Producers : post[p].pc = "done" =>
        \A i \in 0 .. Batch[p] - 1 :
            LET m == Message(p, i)
            IN m \in removed \/ \E d \in docs : d.msg = m /\ d.fin

\* A worker that crashed between insert and increment does not stall the others:
\* every call of post() ends (the comment on stalled counters, messages.py:912).
PostsEnd ==
    \A p \in Producers : <>(post[p].pc \in {"done", "failed", "crashed"})
===============================================================================
