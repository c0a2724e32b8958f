--------------------------- MODULE WebsocketSession ---------------------------
(* A websocket connection (transport/websocket/protocol.py, factory.py and     *)
(* api/handler.py): its authentication and the timer that ends it, the         *)
(* subscriptions it creates with itself as subscriber and removes when it      *)
(* closes, and the HTTP listener that brings it the notifications.  It is      *)
(* composed with Subscriptions: its requests are those of the caller Conn, and *)
(* the notifier's walks, by other callers, post to its URL.  The server is one *)
(* event loop: while a request of Conn is served nothing else happens there.   *)
EXTENDS Subscriptions

CONSTANTS
    Conn,        \* the caller whose requests are the connection's
    Socket,      \* the URL of the connection, as a subscriber
    MaxTokens,   \* authentications, a bound
    Length       \* the content-length of a notification, in pieces

ASSUME SessionAssumption ==
    /\ Conn \in Callers /\ Socket \in Supported
    /\ MaxTokens \in Nat /\ Length \in Nat \ {0}

VARIABLES
    ws,      \* the protocol object
    jobs,    \* subscriptions with this URL whose notification is to be posted
    http     \* the request that brings one

session == <<ws, jobs, http>>
all == <<vars, session>>

\* A request is a first line, the headers and the body, in pieces.
Total == 2 + Length

SessionTypeOK ==
    /\ TypeOK
    /\ ws \in [open : BOOLEAN, auth : BOOLEAN, token : 0..MaxTokens,
               timers : SUBSET (1..MaxTokens),
               subs : [Ids -> Sources \cup {None}], mine : SUBSET Ids]
    /\ jobs \subseteq Ids
    /\ http \in [state : {"none", "INIT", "HEADERS", "BODY", "sent"},
                data : 0..Total, came : 0..Total]

NoRequest == [state |-> "none", data |-> 0, came |-> 0]

SessionInit ==
    /\ Init
    /\ ws = [open |-> TRUE, auth |-> FALSE, token |-> 0, timers |-> {},
             subs |-> [i \in Ids |-> None], mine |-> {}]
    /\ jobs = {}
    /\ http = NoRequest

\* The event loop is free.
Free == call[Conn] = Idle
Recorded == {i \in Ids : ws.subs[i] # None}
--------------------------------------------------------------------------------
(* Authentication.                                                              *)

\* Mutant: the timer of the earlier token is left running.
RescheduleBoth(timers, k) == timers \cup {k}

\* The timer of the earlier token is cancelled.
Reschedule(timers, k) == {k}

\* _authenticate, when the middleware accepts the token: _auth_start.  A token
\* that is refused leaves the connection as it was.
Authenticate ==
    /\ ws.open /\ Free /\ ws.token < MaxTokens
    /\ LET k == ws.token + 1 IN
        ws' = [ws EXCEPT !.auth = TRUE, !.token = k, !.timers = Reschedule(@, k)]
    /\ UNCHANGED <<vars, jobs, http>>

\* _deauthenticate: the timer of a token; a close is sent, and the timer is not
\* cancelled when the connection closes before.
Deauthenticate ==
    /\ Free
    /\ \E k \in ws.timers :
        ws' = [ws EXCEPT !.auth = FALSE, !.timers = @ \ {k}]
    /\ UNCHANGED <<vars, jobs, http>>
--------------------------------------------------------------------------------
(* Requests.                                                                    *)

\* onMessage lets a request through on an authenticated connection.  A signed URL
\* lets the actions on messages through without.
Admitted(action) == ws.open /\ (ws.auth \/ action = "signed")

\* A subscription with no subscriber: the connection itself.
Subscribe ==
    /\ Admitted("subscription_create")
    /\ subscription_create(Conn, Socket)
    /\ UNCHANGED session

\* Mutant: only the last response is kept.
SubscribedLast ==
    /\ call[Conn].pc = "done"
    /\ ws' = [ws EXCEPT !.mine = @ \cup {call[Conn].i},
                        !.subs = [i \in Ids |-> IF i = call[Conn].i THEN call[Conn].s ELSE None]]
    /\ Finish(Conn)
    /\ UNCHANGED <<jobs, http>>

\* Mutant: the id is taken for the name of the queue.
SubscribedId ==
    /\ call[Conn].pc = "done"
    /\ ws' = [ws EXCEPT !.subs[call[Conn].i] = call[Conn].i]
    /\ Finish(Conn)
    /\ UNCHANGED <<jobs, http>>

\* 201: the response is kept for onClose.
Subscribed ==
    /\ call[Conn].pc = "done"
    /\ ws' = [ws EXCEPT !.subs[call[Conn].i] = call[Conn].s, !.mine = @ \cup {call[Conn].i}]
    /\ Finish(Conn)
    /\ UNCHANGED <<jobs, http>>

Unsubscribe ==
    /\ Admitted("subscription_delete")
    /\ \E s \in Sources, i \in Known : subscription_delete(Conn, s, i)
    /\ UNCHANGED session

\* onClose, of any cause: clean_subscriptions deletes what was kept, one at a
\* time, and unregister ends the delivery of notifications.
OnClose ==
    /\ ws.open /\ Free
    /\ ws' = [ws EXCEPT !.open = FALSE]
    /\ UNCHANGED <<vars, jobs, http>>

\* Mutant: the response is kept after the deletion.
clean_subscriptionsKept ==
    /\ ~ws.open /\ Free /\ Recorded # {}
    /\ \E i \in Least(Recorded) : subscription_delete(Conn, ws.subs[i], i)
    /\ UNCHANGED session

clean_subscriptions ==
    /\ ~ws.open /\ Free /\ Recorded # {}
    /\ \E i \in Least(Recorded) :
        /\ subscription_delete(Conn, ws.subs[i], i)
        /\ ws' = [ws EXCEPT !.subs[i] = None]
    /\ UNCHANGED <<jobs, http>>

\* A request of the connection fails in the store: the endpoint answers 500 or
\* 503, which clean_subscriptions does not look at.
Failed ==
    /\ ws' = [ws EXCEPT !.mine = IF ws.open THEN @ ELSE @ \ {call[Conn].i}]
    /\ Fail(Conn)
    /\ UNCHANGED <<jobs, http>>
--------------------------------------------------------------------------------
(* Notifications.                                                               *)

\* The notifier hands a subscription with this URL to a webhook task.
Submitted ==
    jobs' = jobs \cup
        {i \in Ids : \E a \in Callers \ {Conn} :
            /\ call[a].op = "walk" /\ sub[i] # NoSub /\ sub[i].u = Socket
            /\ i \in call'[a].got
            /\ i \notin call[a].got \/ i \in call'[a].twice \ call[a].twice}

\* WebhookTask.execute opens a connection to the listener, or fails to.
WebhookTask ==
    /\ http = NoRequest
    /\ \E i \in jobs : jobs' = jobs \ {i}
    /\ http' \in {NoRequest, [NoRequest EXCEPT !.state = "INIT"]}
    /\ UNCHANGED <<vars, ws>>

\* Mutant: one part of the request is taken per call.
data_receivedOnce(r, n) ==
    LET grown == [r EXCEPT !.data = @ + n, !.came = @ + n]
    IN  CASE grown.state = "INIT" -> [grown EXCEPT !.state = "HEADERS", !.data = @ - 1]
          [] grown.state = "HEADERS" -> [grown EXCEPT !.state = "BODY", !.data = @ - 1]
          [] OTHER -> IF grown.data >= Length THEN [grown EXCEPT !.state = "sent"] ELSE grown

\* data_received: n more pieces join the data not yet taken; the first line, the
\* headers and the body are taken in turn, as far as the data goes.
data_received(r, n) ==
    LET grown == [r EXCEPT !.data = @ + n, !.came = @ + n]
        line == IF grown.state = "INIT" /\ grown.data >= 1
                THEN [grown EXCEPT !.state = "HEADERS", !.data = @ - 1] ELSE grown
        headers == IF line.state = "HEADERS" /\ line.data >= 1
                   THEN [line EXCEPT !.state = "BODY", !.data = @ - 1] ELSE line
    IN  IF headers.state = "BODY" /\ headers.data >= Length
        THEN [headers EXCEPT !.state = "sent", !.data = 0] ELSE headers

Receive ==
    /\ Free /\ http.state \in {"INIT", "HEADERS", "BODY"}
    /\ \E n \in 1..(Total - http.came) : http' = data_received(http, n)
    /\ UNCHANGED <<vars, ws, jobs>>

\* send_data sent it to the connection, if it is still registered; the listener
\* answers and closes.  Or the request is cut off.
Hangup ==
    /\ http.state # "none"
    /\ http' = NoRequest
    /\ UNCHANGED <<vars, ws, jobs>>
--------------------------------------------------------------------------------
Session ==
    \/ Authenticate \/ Deauthenticate \/ Subscribe \/ Subscribed \/ Unsubscribe
    \/ OnClose \/ clean_subscriptions \/ Failed \/ WebhookTask \/ Receive \/ Hangup

SessionNext ==
    /\ \/ Steps(Callers \ {Conn}) /\ Submitted /\ UNCHANGED <<ws, http>>
       \/ Serve(Conn) /\ UNCHANGED session
       \/ Session
    /\ Walks

\* The event loop goes on with onClose and with a deletion it has begun, and the
\* process of another caller with its walk: every such step changes call.
Fairness ==
    /\ WF_call(clean_subscriptions) /\ WF_call(Delete(Conn))
    /\ \A a \in Callers \ {Conn} : WF_call(Walk(a))

SessionSpec == SessionInit /\ [][SessionNext]_all /\ Fairness
--------------------------------------------------------------------------------
(* Properties.                                                                  *)

\* A connection is authenticated exactly as long as the timer of its latest token
\* runs: an earlier token never ends it, and none outlives its timer
\* (_auth_start, _deauthenticate).
CutByLatestToken == ws.timers = IF ws.auth THEN {ws.token} ELSE {}

\* A notification is delivered when the whole of its request is here and not
\* before, however the network cuts it (NotificationProtocol.data_received).
DeliveredWhole == http.state = "sent" <=> http.came = Total

\* When the connection has closed and onClose is done, none of the subscriptions
\* it was told of is left for the notifier, whatever other clients did to them,
\* unless the store failed the deletion.  A Swift patch may put one back.
ClosedLeavesNone ==
    ~ws.open /\ Free /\ Recorded = {} /\ store # "swift" =>
        \A i \in ws.mine : sub[i] = NoSub \/ sub[i].s = None

\* A connection that closes has all its subscriptions deleted in the end, also
\* when the store fails some of the deletions (clean_subscriptions).
ClosedCleans == ~ws.open ~> Recorded = {} /\ Free
================================================================================
