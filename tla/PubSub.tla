------------------------------- MODULE PubSub -------------------------------
(***************************************************************************)
(* The subscription client of src/src/pubsub.c: a registry of              *)
(* subscriptions, requests matched to answers by request id, notifications *)
(* matched to subscriptions by the id the server assigned, and a poll that *)
(* reconnects with a growing, jittered delay and subscribes anew.          *)
(*                                                                         *)
(* The server and the connection are external: two streams of messages in  *)
(* order, lost together.  The server may be gone without the client        *)
(* noticing (peer = FALSE while ws = TRUE).  What a subscription is about  *)
(* (method and parameters) is represented by its handle.  Request ids are  *)
(* unsigned counters that wrap at IdSpace (2^64 in the code).  Times are   *)
(* in units: only their order matters.                                     *)
(***************************************************************************)
EXTENDS Naturals, Sequences

CONSTANTS
    MaxHandles,     \* bound: subscriptions registered in one behaviour
    MaxDeaths,      \* bound: connections that die in one behaviour
    MaxInFlight,    \* bound: answers and notifications on their way
    IdSpace,        \* request ids wrap here
    BackoffInitial, \* options.reconnect_initial_ms
    BackoffMax,     \* options.reconnect_max_ms
    IdleTimeout,    \* options.idle_timeout_ms
    PollTimeout,    \* timeout_ms of idx_pubsub_poll
    NoUnsubscribe,  \* handles registered without an unsubscribe_method
    None

ASSUME PubSubAssumption ==
    /\ MaxHandles \in Nat /\ MaxDeaths \in Nat /\ MaxInFlight \in Nat
    /\ IdSpace \in Nat \ {0}
    /\ BackoffInitial \in Nat \ {0}
    /\ BackoffMax \in Nat /\ BackoffMax >= BackoffInitial
    /\ IdleTimeout \in Nat /\ PollTimeout \in Nat
    /\ None \notin Nat

VARIABLES
    subscriptions,  \* the registry, in the order of the vector
    next_handle,
    next_request_id,
    backoff,        \* backoff_ms
    quiet,          \* time since last_message_ms, as far as poll looked at it
    ws,             \* is there a connection object?
    pc,             \* "caller", "poll" or "closed"
    remaining,      \* what is left of the poll's time
    peer,           \* is the other end still there?
    toServer, toClient,
    active,         \* the server's subscriptions: id -> what it is about
    rejected,       \* history: handles the server refused on this connection,
                    \* or answered without an id to know them by
    deaths

client == <<subscriptions, next_handle, next_request_id, backoff, quiet, ws,
            pc, remaining, rejected>>
network == <<peer, toServer, toClient, active, deaths>>
vars == <<client, network>>

Handles == 1..MaxHandles
ServerIds == 0..MaxHandles
RequestIds == 0..(IdSpace - 1)

Registered == {subscriptions[i].handle : i \in DOMAIN subscriptions}

Least(a, b) == IF a < b THEN a ELSE b

-----------------------------------------------------------------------------
\* The entry for a request that was just sent.
Requested(entry, id) ==
    [entry EXCEPT !.request_id = id, !.server_id = 0, !.confirmed = FALSE]

SubscribeMessage(entry) ==
    [kind |-> "subscribe", id |-> entry.request_id, topic |-> entry.handle]

\* What reaches the server of the messages the client sends.
Sent(messages) == IF peer THEN toServer \o messages ELSE toServer

\* drop_connection, with a registry that may have changed in the same call.
DropConnection(registry) ==
    /\ ws' = FALSE
    /\ subscriptions' = [i \in DOMAIN registry |->
                            [registry[i] EXCEPT !.confirmed = FALSE,
                                                !.server_id = 0]]
    /\ rejected' = {}
    /\ peer' = FALSE
    /\ toServer' = <<>>
    /\ toClient' = <<>>
    /\ active' = [id \in ServerIds |-> None]

Init ==
    /\ subscriptions = <<>>
    /\ next_handle = 1
    /\ next_request_id = 1 % IdSpace
    /\ backoff = BackoffInitial
    /\ quiet = 0
    /\ ws = TRUE
    /\ pc = "caller"
    /\ remaining = 0
    /\ peer = TRUE
    /\ toServer = <<>>
    /\ toClient = <<>>
    /\ active = [id \in ServerIds |-> None]
    /\ rejected = {}
    /\ deaths = 0

-----------------------------------------------------------------------------
(***************************************************************************)
(* idx_pubsub_subscribe: the entry is registered in any case, and asked    *)
(* for at once if there is a connection.  A request that cannot be sent    *)
(* drops the connection.                                                   *)
(***************************************************************************)
NewEntry == [handle |-> next_handle, request_id |-> next_request_id,
             server_id |-> 0, confirmed |-> FALSE]

Register ==
    /\ pc = "caller"
    /\ next_handle \in Handles
    /\ next_handle' = next_handle + 1

Subscribe ==
    /\ Register
    /\ ws
    /\ subscriptions' = Append(subscriptions, NewEntry)
    /\ next_request_id' = (next_request_id + 1) % IdSpace
    /\ toServer' = Sent(<<SubscribeMessage(NewEntry)>>)
    /\ UNCHANGED <<backoff, quiet, ws, pc, remaining, rejected, peer, toClient,
                   active, deaths>>

SubscribeSendFails ==
    /\ Register
    /\ ws /\ ~peer
    /\ DropConnection(Append(subscriptions, NewEntry))
    /\ next_request_id' = (next_request_id + 1) % IdSpace
    /\ UNCHANGED <<backoff, quiet, pc, remaining, deaths>>

SubscribeOffline ==
    /\ Register
    /\ ~ws
    /\ subscriptions' = Append(subscriptions, [NewEntry EXCEPT !.request_id = 0])
    /\ UNCHANGED <<next_request_id, backoff, quiet, ws, pc, remaining, rejected,
                   network>>

(***************************************************************************)
(* idx_pubsub_unsubscribe: the server is told only about a confirmed       *)
(* subscription that names a method for it, and the last entry moves into  *)
(* the hole.                                                               *)
(***************************************************************************)
Removed(i) ==
    SubSeq([subscriptions EXCEPT ![i] = subscriptions[Len(subscriptions)]],
           1, Len(subscriptions) - 1)

Unsubscribe(i) ==
    LET entry == subscriptions[i]
        told == ws /\ entry.confirmed /\ entry.handle \notin NoUnsubscribe
    IN  /\ pc = "caller"
        /\ subscriptions' = Removed(i)
        /\ rejected' = rejected \ {entry.handle}
        /\ next_request_id' = IF told THEN (next_request_id + 1) % IdSpace
                                      ELSE next_request_id
        /\ toServer' = IF told
                       THEN Sent(<<[kind |-> "unsubscribe", id |-> next_request_id,
                                    server_id |-> entry.server_id]>>)
                       ELSE toServer
        /\ UNCHANGED <<next_handle, backoff, quiet, ws, pc, remaining, peer,
                       toClient, active, deaths>>

\* idx_pubsub_close.
Close ==
    /\ pc = "caller"
    /\ DropConnection(<<>>)
    /\ pc' = "closed"
    /\ UNCHANGED <<next_handle, next_request_id, backoff, quiet, remaining, deaths>>

-----------------------------------------------------------------------------
\* idx_pubsub_poll computes its deadline; the loop returns when it has passed.
Poll ==
    /\ pc = "caller"
    /\ pc' = "poll"
    /\ remaining' = PollTimeout
    /\ UNCHANGED <<subscriptions, next_handle, next_request_id, backoff, quiet, ws,
                   rejected, network>>

PollExpires ==
    /\ pc = "poll" /\ remaining = 0
    /\ pc' = "caller"
    /\ UNCHANGED <<subscriptions, next_handle, next_request_id, backoff, quiet, ws,
                   remaining, rejected, network>>

\* The loop's body, which leaves `left` of the time.
InPoll(left) ==
    /\ pc = "poll" /\ remaining > 0
    /\ left \in 0..remaining
    /\ remaining' = left

(***************************************************************************)
(* Disconnected: next_backoff draws a delay between half the current one   *)
(* and all of it, and doubles the current one up to the maximum, whether   *)
(* or not the delay fits into the time that is left.                       *)
(***************************************************************************)
Delays == (backoff \div 2) .. (backoff \div 2 + backoff \div 2)

NextBackoff == IF backoff < BackoffMax \div 2 THEN 2 * backoff ELSE BackoffMax

PollTooSoon ==
    /\ ~ws
    /\ InPoll(0)
    /\ \E delay \in Delays : delay > remaining
    /\ backoff' = NextBackoff
    /\ pc' = "caller"
    /\ UNCHANGED <<subscriptions, next_handle, next_request_id, quiet, ws, rejected,
                   network>>

Reconnecting ==
    /\ ~ws
    /\ \E delay \in Delays :
         /\ delay <= remaining
         /\ \E left \in 0..(remaining - delay) : InPoll(left)

ConnectFails ==
    /\ Reconnecting
    /\ backoff' = NextBackoff
    /\ UNCHANGED <<subscriptions, next_handle, next_request_id, quiet, ws, pc,
                   rejected, network>>

\* Mistake: the requests of one reconnect share their id.
AskedForOneId(n) ==
    [i \in DOMAIN subscriptions |->
        IF i <= n THEN Requested(subscriptions[i], next_request_id)
                  ELSE subscriptions[i]]

\* The first n entries asked for anew, in the order of the registry.
AskedFor(n) ==
    [i \in DOMAIN subscriptions |->
        IF i <= n
        THEN Requested(subscriptions[i], (next_request_id + i - 1) % IdSpace)
        ELSE subscriptions[i]]

Resubscribed == AskedFor(Len(subscriptions))

\* establish succeeds: every entry of the registry is asked for.
Establish ==
    /\ Reconnecting
    /\ ws' = TRUE
    /\ peer' = TRUE
    /\ quiet' = 0
    /\ backoff' = BackoffInitial
    /\ subscriptions' = Resubscribed
    /\ next_request_id' = (next_request_id + Len(subscriptions)) % IdSpace
    /\ toServer' = [i \in DOMAIN subscriptions |-> SubscribeMessage(Resubscribed[i])]
    /\ UNCHANGED <<next_handle, pc, rejected, toClient, active, deaths>>

\* establish connects and cannot send its n-th request.
EstablishSendFails(n) ==
    /\ Reconnecting
    /\ deaths < MaxDeaths
    /\ deaths' = deaths + 1
    /\ DropConnection(AskedFor(n))
    /\ quiet' = 0
    /\ backoff' = BackoffInitial
    /\ next_request_id' = (next_request_id + n) % IdSpace
    /\ UNCHANGED <<next_handle, pc>>

-----------------------------------------------------------------------------
(***************************************************************************)
(* Connected: idx_ws_recv returns a message, runs out of time or finds the *)
(* connection gone.                                                        *)
(***************************************************************************)
\* Mistake: an idle connection is never given up.
IdleIgnored(time) == FALSE

Idle(time) == time > IdleTimeout

RecvTimeout ==
    LET time == Least(quiet + remaining, IdleTimeout + 1)
    IN  /\ ws /\ toClient = <<>>
        /\ InPoll(0)
        /\ IF Idle(time)
           THEN DropConnection(subscriptions) /\ UNCHANGED <<pc, quiet>>
           ELSE /\ pc' = "caller"
                /\ quiet' = time
                /\ UNCHANGED <<subscriptions, ws, rejected, peer, toServer, toClient,
                               active>>
        /\ UNCHANGED <<next_handle, next_request_id, backoff, deaths>>

RecvLost ==
    /\ ws /\ ~peer /\ toClient = <<>>
    /\ \E left \in 0..remaining : InPoll(left)
    /\ DropConnection(subscriptions)
    /\ UNCHANGED <<next_handle, next_request_id, backoff, quiet, pc, deaths>>

\* A message above the limit: the connection is unusable, and the next poll
\* finds it closed.
RecvTooLong ==
    /\ ws /\ toClient # <<>> /\ deaths < MaxDeaths
    /\ \E left \in 0..remaining : InPoll(left)
    /\ deaths' = deaths + 1
    /\ peer' = FALSE
    /\ toServer' = <<>>
    /\ toClient' = <<>>
    /\ pc' = "caller"
    /\ UNCHANGED <<subscriptions, next_handle, next_request_id, backoff, quiet, ws,
                   rejected, active>>

\* find_by_request and find_by_server_id return the first match, 0 for none.
First(matches) ==
    IF matches = {} THEN 0 ELSE CHOOSE i \in matches : \A j \in matches : i <= j

FindByRequest(id) ==
    First({i \in DOMAIN subscriptions :
             ~subscriptions[i].confirmed /\ subscriptions[i].request_id = id})

\* Mistake: an entry that is not confirmed yet is taken for subscription 0.
FindByIdOnly(id) ==
    First({i \in DOMAIN subscriptions : subscriptions[i].server_id = id})

FindByServerId(id) ==
    First({i \in DOMAIN subscriptions :
             subscriptions[i].confirmed /\ subscriptions[i].server_id = id})

\* A message of this kind arrives and leaves `left` of the time.
Recv(kind) ==
    /\ ws /\ toClient # <<>> /\ Head(toClient).kind = kind
    /\ \E left \in 0..remaining : InPoll(left)
    /\ toClient' = Tail(toClient)
    /\ quiet' = 0
    /\ UNCHANGED <<next_handle, next_request_id, backoff, ws, peer, toServer, active,
                   deaths>>

\* dispatch, for each kind of message: the answer to a subscription, ...
RecvConfirmed ==
    LET i == FindByRequest(Head(toClient).id)
    IN  /\ Recv("confirmed")
        /\ subscriptions' = IF i = 0 THEN subscriptions
                            ELSE [subscriptions EXCEPT
                                     ![i].server_id = Head(toClient).server_id,
                                     ![i].confirmed = TRUE]
        /\ UNCHANGED <<pc, rejected>>

\* ... a refusal, of any request, which poll returns at once, ...
RecvRejected ==
    LET i == FindByRequest(Head(toClient).id)
    IN  /\ Recv("rejected")
        /\ rejected' = IF i = 0 THEN rejected
                       ELSE rejected \cup {subscriptions[i].handle}
        /\ pc' = "caller"
        /\ UNCHANGED subscriptions

\* ... an answer without an unsigned result: the entry stays unconfirmed, and
\* nobody asks again on this connection, ...
RecvUnusable ==
    LET i == FindByRequest(Head(toClient).id)
    IN  /\ Recv("unusable")
        /\ rejected' = IF i = 0 THEN rejected
                       ELSE rejected \cup {subscriptions[i].handle}
        /\ UNCHANGED <<subscriptions, pc>>

\* ... an answer nobody waits for, or what does not parse or is neither answer
\* nor notification: poll goes on waiting, ...
RecvIgnored ==
    /\ Recv("unsubscribed") \/ Recv("noise")
    /\ UNCHANGED <<subscriptions, pc, rejected>>

\* ... and a notification.

RecvNotification ==
    /\ Recv("notification")
    /\ pc' = IF FindByServerId(Head(toClient).server_id) = 0 THEN pc ELSE "caller"
    /\ UNCHANGED <<subscriptions, rejected>>

-----------------------------------------------------------------------------
(***************************************************************************)
(* The server answers requests in order and may use the id of a            *)
(* subscription that has ended again.                                      *)
(***************************************************************************)
Answer(message) ==
    /\ peer /\ toServer # <<>>
    /\ toServer' = Tail(toServer)
    /\ toClient' = Append(toClient, message)
    /\ UNCHANGED <<client, peer, deaths>>

ServerAccepts ==
    /\ toServer # <<>> /\ Head(toServer).kind = "subscribe"
    /\ \E id \in ServerIds :
         /\ active[id] = None
         /\ active' = [active EXCEPT ![id] = Head(toServer).topic]
         /\ Answer([kind |-> "confirmed", id |-> Head(toServer).id, server_id |-> id])

ServerRejects ==
    /\ toServer # <<>> /\ Head(toServer).kind = "subscribe"
    /\ Answer([kind |-> "rejected", id |-> Head(toServer).id])
    /\ UNCHANGED active

\* A success, but its result is no id: there is no such subscription.
ServerAnswersUnusably ==
    /\ toServer # <<>> /\ Head(toServer).kind = "subscribe"
    /\ Answer([kind |-> "unusable", id |-> Head(toServer).id])
    /\ UNCHANGED active

ServerUnsubscribes ==
    /\ toServer # <<>> /\ Head(toServer).kind = "unsubscribe"
    /\ active' = [active EXCEPT ![Head(toServer).server_id] = None]
    /\ Answer([kind |-> "unsubscribed", id |-> Head(toServer).id])

\* It refuses to end one, and goes on notifying.
ServerKeeps ==
    /\ toServer # <<>> /\ Head(toServer).kind = "unsubscribe"
    /\ Answer([kind |-> "rejected", id |-> Head(toServer).id])
    /\ UNCHANGED active

ServerNotifies(id) ==
    /\ peer /\ active[id] # None
    /\ Len(toClient) < MaxInFlight
    /\ toClient' = Append(toClient, [kind |-> "notification", server_id |-> id,
                                     topic |-> active[id]])
    /\ UNCHANGED <<client, peer, toServer, active, deaths>>

ServerSendsNoise ==
    /\ peer
    /\ Len(toClient) < MaxInFlight
    /\ toClient' = Append(toClient, [kind |-> "noise"])
    /\ UNCHANGED <<client, peer, toServer, active, deaths>>

\* The other end is gone; what it sent before may still arrive.
PeerDies ==
    /\ peer /\ deaths < MaxDeaths
    /\ deaths' = deaths + 1
    /\ peer' = FALSE
    /\ toServer' = <<>>
    /\ UNCHANGED <<client, toClient, active>>

-----------------------------------------------------------------------------
ServerAnswers == \/ ServerAccepts \/ ServerRejects \/ ServerAnswersUnusably
                 \/ ServerUnsubscribes \/ ServerKeeps

Receive == \/ RecvConfirmed \/ RecvRejected \/ RecvUnusable \/ RecvIgnored
           \/ RecvNotification

Next ==
    \/ Subscribe \/ SubscribeSendFails \/ SubscribeOffline
    \/ \E i \in DOMAIN subscriptions : Unsubscribe(i)
    \/ Close
    \/ Poll \/ PollExpires \/ PollTooSoon
    \/ ConnectFails \/ Establish
    \/ \E n \in DOMAIN subscriptions : EstablishSendFails(n)
    \/ RecvTimeout \/ RecvLost \/ RecvTooLong \/ Receive
    \/ ServerAnswers
    \/ \E id \in ServerIds : ServerNotifies(id)
    \/ ServerSendsNoise \/ PeerDies

Spec == Init /\ [][Next]_vars

(***************************************************************************)
(* The caller's thread polls in a loop (run_subscription, pipeline.c:550), *)
(* and a poll runs on to its return.  An endpoint that is tried again and  *)
(* again accepts a connection some time, and a request that is made again  *)
(* and again is answered before the connection counts as idle some time.   *)
(***************************************************************************)
PollStep == \/ Poll \/ PollExpires \/ PollTooSoon
            \/ ConnectFails \/ Establish
            \/ RecvTimeout \/ RecvLost \/ Receive

ServerAnswersFor(handle) ==
    /\ toServer # <<>> /\ Head(toServer).kind = "subscribe"
    /\ Head(toServer).topic = handle
    /\ ServerAccepts \/ ServerRejects \/ ServerAnswersUnusably

Fairness ==
    /\ WF_vars(PollStep)
    /\ SF_vars(Establish)
    /\ WF_vars(ServerUnsubscribes \/ ServerKeeps)
    /\ \A handle \in Handles : SF_vars(ServerAnswersFor(handle))

FairSpec == Spec /\ Fairness

-----------------------------------------------------------------------------
Entry == [handle : Handles, request_id : RequestIds, server_id : ServerIds,
          confirmed : BOOLEAN]

\* The backoff also stays within its configured bounds.
TypeOK ==
    /\ subscriptions \in Seq(Entry) /\ Len(subscriptions) <= MaxHandles
    /\ next_handle \in 1..(MaxHandles + 1)
    /\ next_request_id \in RequestIds
    /\ backoff \in BackoffInitial..BackoffMax
    /\ quiet \in 0..(IdleTimeout + 1)
    /\ ws \in BOOLEAN /\ peer \in BOOLEAN /\ (peer => ws)
    /\ pc \in {"caller", "poll", "closed"}
    /\ remaining \in 0..PollTimeout
    /\ active \in [ServerIds -> Handles \cup {None}]
    /\ rejected \subseteq Registered
    /\ deaths \in 0..MaxDeaths

(***************************************************************************)
(* A notification is handed over as the subscription it was sent for, and  *)
(* ignored only when that subscription was removed (dispatch,              *)
(* pubsub.c:394-416): not after a reconnect, not while answers to other    *)
(* requests are outstanding, and not when the server uses an id again.     *)
(***************************************************************************)
Routed ==
    \A k \in DOMAIN toClient :
        (k = 1 /\ ws /\ toClient[k].kind = "notification") =>
            LET i == FindByServerId(toClient[k].server_id)
            IN  IF toClient[k].topic \in Registered
                THEN i # 0 /\ subscriptions[i].handle = toClient[k].topic
                ELSE i = 0

(***************************************************************************)
(* "A caller never observes a connected-but-unsubscribed state"            *)
(* (pubsub.c:136-137): while the other end is there, every entry of the    *)
(* registry is confirmed under an id the server really uses for it, or     *)
(* refused, or its request or the answer is on its way.  An answer without *)
(* an id counts as a refusal here; the code takes it for neither, and the  *)
(* entry stays as it is until the connection is lost (pubsub.c:384).       *)
(***************************************************************************)
NeverDeaf ==
    peer =>
        \A i \in DOMAIN subscriptions :
            LET entry == subscriptions[i]
            IN  \/ entry.confirmed /\ active[entry.server_id] = entry.handle
                \/ entry.handle \in rejected
                \/ \E k \in DOMAIN toServer :
                     toServer[k] = SubscribeMessage(entry)
                \/ \E k \in DOMAIN toClient :
                     /\ toClient[k].kind \in {"confirmed", "rejected", "unusable"}
                     /\ toClient[k].id = entry.request_id

Confirmed(handle) ==
    \E i \in DOMAIN subscriptions :
        subscriptions[i].handle = handle /\ subscriptions[i].confirmed /\ peer

(***************************************************************************)
(* "Across a dropped connection the subscriptions are re-established       *)
(* without its involvement" (src/include/pubsub.h:7-8): a registered       *)
(* subscription becomes, and after a lost connection becomes again,        *)
(* confirmed on a connection with a server at the other end, unless it is  *)
(* removed or refused, or answered without an id (idx_pubsub_poll,         *)
(* pubsub.c:419-490).                                                      *)
(***************************************************************************)
Reestablished ==
    \A handle \in Handles :
        handle \in Registered ~>
            Confirmed(handle) \/ handle \notin Registered \/ handle \in rejected
=============================================================================
