---------------------------- MODULE PubSubProofs ----------------------------
(***************************************************************************)
(* Proofs about PubSub, for any number of subscriptions, connections and   *)
(* messages under way: a notification reaches the subscription it is for,  *)
(* and no registered subscription is forgotten.  Request ids may wrap, as  *)
(* long as there are two for every subscription that is ever registered.   *)
(***************************************************************************)
EXTENDS PubSub, FiniteSetTheorems, SequenceTheorems, WellFoundedInduction, TLAPS

-----------------------------------------------------------------------------
(* NATURAL NUMBERS.  The theorems of NaturalsInduction take an operator;     *)
(* these take a set, and what is proved of every number is membership in it. *)

(* A set of natural numbers that has a member has a least one.               *)
LEMMA LeastNatural ==
    ASSUME NEW T, T \subseteq Nat, T # {}
    PROVE  \E x \in T : \A y \in T : x <= y
<1>1. IsWellFoundedOn(OpToRel(<, Nat), Nat)
  BY NatLessThanWellFounded
<1>2. PICK x \in T : \A y \in T : ~ (<<y, x>> \in OpToRel(<, Nat))
  BY <1>1, WFMin
<1>3. \A y \in T : ~ (y < x)
  BY <1>2 DEF OpToRel
<1> QED BY <1>3

-----------------------------------------------------------------------------

(* A subscription takes one id on a connection to be asked for and one to be  *)
(* given up.                                                                  *)
IdsSuffice == IdSpace >= 2 * MaxHandles

Requests ==
    [kind : {"subscribe"}, id : RequestIds, topic : Handles]
        \cup [kind : {"unsubscribe"}, id : RequestIds, server_id : ServerIds]
Answers ==
    [kind : {"confirmed"}, id : RequestIds, server_id : ServerIds]
        \cup [kind : {"rejected", "unusable", "unsubscribed"}, id : RequestIds]
        \cup [kind : {"noise"}]
        \cup [kind : {"notification"}, server_id : ServerIds, topic : Handles]

AsksFor(k) == toServer[k].kind = "subscribe"
GivesUp(k) == toServer[k].kind = "unsubscribe"
Confirms(k) == toClient[k].kind = "confirmed"
Notifies(k) == toClient[k].kind = "notification"

Entries == DOMAIN subscriptions
Waiting(i) == ~subscriptions[i].confirmed

(* What is on its way is well formed, and nothing is without a connection.   *)
Streams ==
    /\ toServer \in Seq(Requests) /\ toClient \in Seq(Answers)
    /\ ~peer => toServer = <<>>
    /\ ~ws => /\ toClient = <<>>
              /\ \A i \in Entries : Waiting(i)
              /\ \A s \in ServerIds : active[s] = None

(* A handle is used once. *)
HandlesInv ==
    /\ Len(subscriptions) < next_handle
    /\ \A i \in Entries : subscriptions[i].handle < next_handle
    /\ \A i, j \in Entries : subscriptions[i].handle = subscriptions[j].handle => i = j
    /\ \A s \in ServerIds : active[s] # None => active[s] < next_handle
    /\ \A k \in DOMAIN toServer : AsksFor(k) => toServer[k].topic < next_handle
    /\ \A k \in DOMAIN toClient : Notifies(k) => toClient[k].topic < next_handle

(* How many ids ago an id was drawn, if they were drawn less than one round   *)
(* ago, and how many a connection can have drawn.                             *)
Age(id) == IF id < next_request_id THEN next_request_id - id
                                   ELSE next_request_id - id + IdSpace
Drawn == 2 * (next_handle - 1) - Len(subscriptions)

(* The ids a connection still waits for were drawn on it, so that the next    *)
(* one is none of them.                                                       *)
IdsInv ==
    ws =>
        /\ \A i \in Entries : Waiting(i) => Age(subscriptions[i].request_id) <= Drawn
        /\ \A k \in DOMAIN toServer : AsksFor(k) => Age(toServer[k].id) <= Drawn
        /\ \A k \in DOMAIN toClient : Confirms(k) => Age(toClient[k].id) <= Drawn
        /\ \A i, j \in Entries :
              /\ Waiting(i) /\ Waiting(j)
              /\ subscriptions[i].request_id = subscriptions[j].request_id
              => i = j

(* What the server has yet to read: a topic is asked for once on a            *)
(* connection, under the id its entry waits for, and a server id is given up  *)
(* once, when its entry is gone.                                              *)
ToServerInv ==
    /\ \A k \in DOMAIN toServer : AsksFor(k) =>
          /\ \A s \in ServerIds : active[s] # toServer[k].topic
          /\ \A i \in Entries :
                subscriptions[i].handle = toServer[k].topic =>
                    Waiting(i) /\ subscriptions[i].request_id = toServer[k].id
          /\ \A i \in Entries :
                Waiting(i) /\ subscriptions[i].request_id = toServer[k].id =>
                    subscriptions[i].handle = toServer[k].topic
    /\ \A k, l \in DOMAIN toServer :
          AsksFor(k) /\ AsksFor(l) /\ toServer[k].topic = toServer[l].topic => k = l
    /\ \A k \in DOMAIN toServer : GivesUp(k) =>
          /\ active[toServer[k].server_id] # None
          /\ \A i \in Entries : subscriptions[i].handle # active[toServer[k].server_id]
    /\ \A k, l \in DOMAIN toServer :
          GivesUp(k) /\ GivesUp(l) /\ toServer[k].server_id = toServer[l].server_id => k = l

(* What the client has yet to read: a server id is confirmed once before it   *)
(* is given up, for the entry the server uses it for.                         *)
ConfirmationsInv ==
    /\ \A k \in DOMAIN toClient : Confirms(k) =>
          /\ active[toClient[k].server_id] # None
          /\ \A i \in Entries :
                Waiting(i) /\ subscriptions[i].request_id = toClient[k].id =>
                    subscriptions[i].handle = active[toClient[k].server_id]
          /\ \A i \in Entries :
                ~Waiting(i) => subscriptions[i].server_id # toClient[k].server_id
          /\ \A l \in DOMAIN toServer :
                GivesUp(l) => toServer[l].server_id # toClient[k].server_id
    /\ \A k, l \in DOMAIN toClient :
          /\ Confirms(k) /\ Confirms(l)
          /\ toClient[k].server_id = toClient[l].server_id
          => k = l

(* Entry i is, or will be when the client has read what is before position    *)
(* n, confirmed under s.                                                      *)
KnownAs(i, s, n) ==
    \/ ~Waiting(i) /\ subscriptions[i].server_id = s
    \/ /\ Waiting(i)
       /\ \E j \in DOMAIN toClient :
             j < n /\ Confirms(j) /\ toClient[j].server_id = s
                   /\ toClient[j].id = subscriptions[i].request_id

NotificationsInv ==
    \A k \in DOMAIN toClient : Notifies(k) =>
        /\ \A j \in DOMAIN toClient :
              j < k /\ Confirms(j) /\ toClient[j].server_id = toClient[k].server_id =>
                  active[toClient[k].server_id] = toClient[k].topic
        /\ \A i \in Entries :
              ~Waiting(i) /\ subscriptions[i].server_id = toClient[k].server_id =>
                  subscriptions[i].handle = toClient[k].topic
        /\ \A i \in Entries :
              subscriptions[i].handle = toClient[k].topic =>
                  KnownAs(i, toClient[k].server_id, k)

(* What the server has and what the client knows of it. *)
ServerInv ==
    /\ \A s, r \in ServerIds : active[s] = active[r] /\ active[s] # None => s = r
    /\ \A i \in Entries :
          ~Waiting(i) => active[subscriptions[i].server_id] = subscriptions[i].handle
    /\ peer => \A s \in ServerIds : \A i \in Entries :
                  active[s] = subscriptions[i].handle => KnownAs(i, s, Len(toClient) + 1)

(* The inductive invariant. *)
PubSubInv ==
    /\ TypeOK /\ Streams /\ HandlesInv /\ IdsInv /\ ToServerInv
    /\ ConfirmationsInv /\ NotificationsInv /\ ServerInv /\ NeverDeaf

-----------------------------------------------------------------------------
(* Drawing an id: the sum wraps once at most.                                *)
LEMMA Wraps ==
    ASSUME NEW a \in RequestIds, NEW b \in 0 .. IdSpace
    PROVE  /\ a + b < IdSpace => (a + b) % IdSpace = a + b
           /\ a + b >= IdSpace => (a + b) % IdSpace = a + b - IdSpace
           /\ (a + b) % IdSpace \in RequestIds
<1>1. IdSpace \in Nat /\ IdSpace > 0 /\ a \in Nat /\ a < IdSpace /\ b \in Nat
  BY PubSubAssumption DEF RequestIds
<1> DEFINE x == a + b
           q == x \div IdSpace
           r == x % IdSpace
<1>2. x = IdSpace * q + r /\ q \in Int /\ r \in 0 .. IdSpace - 1 /\ x \in Nat
  BY <1>1
<1> HIDE DEF x, q, r
<1>3. x < 2 * IdSpace
  BY <1>1 DEF x
<1>4. q >= 0
  <2>1. SUFFICES ASSUME q <= -1 PROVE FALSE
    BY <1>2
  <2>2. IdSpace * q <= -IdSpace
    BY <2>1, <1>1, <1>2
  <2> QED BY <2>2, <1>1, <1>2
<1>5. q <= 1
  <2>1. SUFFICES ASSUME q >= 2 PROVE FALSE
    BY <1>2
  <2>2. IdSpace * q >= 2 * IdSpace
    BY <2>1, <1>1, <1>2
  <2> QED BY <2>2, <1>1, <1>2, <1>3
<1>6. q = 0 \/ q = 1
  BY <1>4, <1>5, <1>2
<1>7. (q = 0 /\ x = r) \/ (q = 1 /\ x = IdSpace + r)
  BY <1>6, <1>2, <1>1
<1>8. /\ x < IdSpace => r = x
      /\ x >= IdSpace => r = x - IdSpace
      /\ r \in RequestIds
  BY <1>7, <1>2, <1>1 DEF RequestIds
<1> QED BY <1>1, <1>8 DEF x, r

(* The fields of an entry. *)
LEMMA EntryType ==
    ASSUME TypeOK
    PROVE  /\ Len(subscriptions) \in Nat /\ Entries = 1 .. Len(subscriptions)
           /\ \A i \in Entries :
                 /\ subscriptions[i] \in Entry
                 /\ subscriptions[i].handle \in Handles
                 /\ subscriptions[i].request_id \in RequestIds
                 /\ subscriptions[i].server_id \in ServerIds
                 /\ subscriptions[i].confirmed \in BOOLEAN
<1>1. subscriptions \in Seq(Entry)
  BY DEF TypeOK
<1>2. Len(subscriptions) \in Nat /\ Entries = 1 .. Len(subscriptions)
  BY <1>1, LenProperties DEF Entries
<1>3. \A i \in Entries : subscriptions[i] \in Entry
  BY <1>1, <1>2, ElementOfSeq
<1> QED BY <1>2, <1>3 DEF Entry

(* The fields of a message, by its kind. *)
LEMMA MessageType ==
    ASSUME Streams
    PROVE  /\ DOMAIN toServer = 1 .. Len(toServer) /\ Len(toServer) \in Nat
           /\ DOMAIN toClient = 1 .. Len(toClient) /\ Len(toClient) \in Nat
           /\ \A k \in DOMAIN toServer :
                 /\ toServer[k] \in Requests
                 /\ toServer[k].id \in RequestIds
                 /\ AsksFor(k) => toServer[k].topic \in Handles
                 /\ GivesUp(k) => toServer[k].server_id \in ServerIds
           /\ \A k \in DOMAIN toClient :
                 /\ toClient[k] \in Answers
                 /\ Confirms(k) => toClient[k].id \in RequestIds /\ toClient[k].server_id \in ServerIds
                 /\ Notifies(k) => toClient[k].server_id \in ServerIds /\ toClient[k].topic \in Handles
<1>1. toServer \in Seq(Requests) /\ toClient \in Seq(Answers)
  BY DEF Streams
<1>2. /\ DOMAIN toServer = 1 .. Len(toServer) /\ Len(toServer) \in Nat
      /\ DOMAIN toClient = 1 .. Len(toClient) /\ Len(toClient) \in Nat
  BY <1>1, LenProperties
<1>3. /\ \A k \in DOMAIN toServer : toServer[k] \in Requests
      /\ \A k \in DOMAIN toClient : toClient[k] \in Answers
  BY <1>1, <1>2, ElementOfSeq
<1>4. ASSUME NEW m \in Requests
      PROVE  /\ m.id \in RequestIds
             /\ m.kind = "subscribe" => m.topic \in Handles
             /\ m.kind = "unsubscribe" => m.server_id \in ServerIds
  BY DEF Requests
<1>5. ASSUME NEW m \in Answers
      PROVE  /\ m.kind = "confirmed" => m.id \in RequestIds /\ m.server_id \in ServerIds
             /\ m.kind = "notification" => m.server_id \in ServerIds /\ m.topic \in Handles
  BY DEF Answers
<1> QED BY <1>2, <1>3, <1>4, <1>5 DEF AsksFor, GivesUp, Confirms, Notifies

(* The first state. *)
LEMMA PubSubInit == Init => PubSubInv
<1> SUFFICES ASSUME Init PROVE PubSubInv
  OBVIOUS
<1>1. 1 % IdSpace \in RequestIds
  BY PubSubAssumption DEF RequestIds
<1>2. TypeOK
  BY <1>1, PubSubAssumption, EmptySeq
  DEF Init, TypeOK, Registered, ServerIds, Handles
<1>3. /\ Entries = {} /\ DOMAIN toServer = {} /\ DOMAIN toClient = {}
      /\ Len(subscriptions) = 0 /\ Len(toClient) = 0
      /\ \A s \in ServerIds : active[s] = None
  BY EmptySeq DEF Init, Entries
<1>4. Streams
  BY <1>3, EmptySeq DEF Init, Streams
<1>5. HandlesInv /\ IdsInv /\ ToServerInv /\ ConfirmationsInv /\ NotificationsInv /\ ServerInv
  BY <1>3 DEF Init, HandlesInv, IdsInv, ToServerInv, ConfirmationsInv, NotificationsInv, ServerInv
<1>6. NeverDeaf
  BY <1>3 DEF NeverDeaf, Entries
<1> QED BY <1>2, <1>4, <1>5, <1>6 DEF PubSubInv

(* The variables the parts of the invariant are about. *)
core == <<subscriptions, next_handle, next_request_id, ws, peer, toServer, toClient,
          active, rejected>>

(* The others have their types. *)
Scalars ==
    /\ backoff \in BackoffInitial..BackoffMax
    /\ quiet \in 0..(IdleTimeout + 1)
    /\ pc \in {"caller", "poll", "closed"}
    /\ remaining \in 0..PollTimeout
    /\ deaths \in 0..MaxDeaths

(* A step that leaves registry, streams and server alone. *)
LEMMA StillKeeps ==
    ASSUME PubSubInv, UNCHANGED core, Scalars'
    PROVE  PubSubInv'
<1> USE DEF PubSubInv, core
<1>1. TypeOK'
  BY DEF TypeOK, Scalars, Registered
<1>2. Streams' /\ HandlesInv' /\ IdsInv'
  BY DEF Streams, HandlesInv, IdsInv, Entries, Waiting, AsksFor, Confirms, Notifies, Age, Drawn
<1>3. ToServerInv' /\ ConfirmationsInv'
  BY DEF ToServerInv, ConfirmationsInv, Entries, Waiting, AsksFor, GivesUp, Confirms
<1>4. NotificationsInv' /\ ServerInv'
  BY DEF NotificationsInv, ServerInv, KnownAs, Entries, Waiting, Confirms, Notifies
<1>5. NeverDeaf'
  BY DEF NeverDeaf
<1> QED BY <1>1, <1>2, <1>3, <1>4, <1>5

(* Without a connection there is only the registry to look at. *)
LEMMA OfflineKeeps ==
    ASSUME TypeOK', ws' = FALSE, peer' = FALSE, toServer' = <<>>, toClient' = <<>>,
           \A s \in ServerIds : active'[s] = None,
           \A i \in Entries' : subscriptions'[i].confirmed = FALSE,
           Len(subscriptions') < next_handle',
           \A i \in Entries' : subscriptions'[i].handle < next_handle',
           \A i, j \in Entries' : subscriptions'[i].handle = subscriptions'[j].handle => i = j
    PROVE  PubSubInv'
<1>0. DOMAIN <<>> = {}
  BY EmptySeq
<1>1. DOMAIN toServer' = {} /\ DOMAIN toClient' = {}
  BY <1>0, Zenon
<1>2. Streams'
  BY <1>1, EmptySeq DEF Streams, Waiting
<1>3. HandlesInv'
  BY <1>1 DEF HandlesInv
<1>4. IdsInv' /\ ToServerInv' /\ ConfirmationsInv' /\ NotificationsInv'
  BY <1>1 DEF IdsInv, ToServerInv, ConfirmationsInv, NotificationsInv
<1>5. ServerInv' /\ NeverDeaf'
  BY DEF ServerInv, Waiting, NeverDeaf
<1> QED BY <1>2, <1>3, <1>4, <1>5 DEF PubSubInv

(* drop_connection (pubsub.c:107-119): whatever the registry is by then, as   *)
(* long as its handles are distinct and were given out.                       *)
LEMMA DropKeeps ==
    ASSUME NEW registry \in Seq(Entry), DropConnection(registry), Scalars',
           Len(registry) <= MaxHandles, Len(registry) < next_handle',
           next_handle' \in 1..(MaxHandles + 1), next_request_id' \in RequestIds,
           \A i \in DOMAIN registry : registry[i].handle < next_handle',
           \A i, j \in DOMAIN registry : registry[i].handle = registry[j].handle => i = j
    PROVE  PubSubInv'
<1>1. /\ Len(registry) \in Nat /\ DOMAIN registry = 1 .. Len(registry)
      /\ \A i \in DOMAIN registry : registry[i] \in Entry
  BY LenProperties, ElementOfSeq
<1>2. /\ ws' = FALSE /\ peer' = FALSE /\ toServer' = <<>> /\ toClient' = <<>> /\ rejected' = {}
      /\ active' = [id \in ServerIds |-> None]
      /\ subscriptions' = [i \in 1 .. Len(registry) |->
                              [registry[i] EXCEPT !.confirmed = FALSE, !.server_id = 0]]
  BY <1>1 DEF DropConnection
<1>3. ASSUME NEW i \in 1 .. Len(registry)
      PROVE  /\ subscriptions'[i] \in Entry
             /\ subscriptions'[i].handle = registry[i].handle
             /\ subscriptions'[i].confirmed = FALSE
  <2>1. registry[i] \in Entry /\ 0 \in ServerIds
    BY <1>1, PubSubAssumption DEF ServerIds
  <2> QED BY <1>2, <2>1 DEF Entry
<1>4. subscriptions' \in Seq(Entry) /\ Len(subscriptions') = Len(registry)
  <2>1. subscriptions' \in [1 .. Len(registry) -> Entry]
    BY <1>2, <1>3
  <2> QED BY <2>1, <1>1, LenProperties
<1>5. Entries' = 1 .. Len(registry) /\ DOMAIN subscriptions' = 1 .. Len(registry)
  BY <1>4, LenProperties DEF Entries
<1>6. TypeOK'
  BY <1>2, <1>4 DEF TypeOK, Scalars
<1>7. \A i \in Entries' :
        /\ i \in DOMAIN registry
        /\ subscriptions'[i].handle = registry[i].handle /\ subscriptions'[i].confirmed = FALSE
  BY <1>1, <1>3, <1>5
<1>8. \A s \in ServerIds : active'[s] = None
  BY <1>2
<1>9. /\ \A i \in Entries' : subscriptions'[i].handle < next_handle'
      /\ \A i, j \in Entries' : subscriptions'[i].handle = subscriptions'[j].handle => i = j
  BY <1>7
<1>10. \A i \in Entries' : subscriptions'[i].confirmed = FALSE
  BY <1>7
<1> QED BY <1>2, <1>4, <1>6, <1>8, <1>9, <1>10, OfflineKeeps

-----------------------------------------------------------------------------
(* An id that was drawn less than a round ago is not the next one, and is one *)
(* older when that is drawn.                                                  *)
LEMMA AgeGrows ==
    ASSUME TypeOK, next_request_id' = (next_request_id + 1) % IdSpace,
           NEW id \in RequestIds, Age(id) < IdSpace
    PROVE  id # next_request_id /\ Age(id)' = Age(id) + 1
<1>1. IdSpace \in Nat /\ IdSpace > 0 /\ id \in Nat /\ id < IdSpace
      /\ next_request_id \in Nat /\ next_request_id < IdSpace
  BY PubSubAssumption DEF RequestIds, TypeOK
<1>2. next_request_id' = IF next_request_id + 1 < IdSpace THEN next_request_id + 1 ELSE 0
  BY <1>1, Wraps DEF TypeOK
<1> QED BY <1>1, <1>2 DEF Age

(* The id just drawn is the youngest. *)
LEMMA AgeOfDrawn ==
    ASSUME TypeOK, next_request_id' = (next_request_id + 1) % IdSpace,
           NEW id, id = next_request_id
    PROVE  Age(id)' = 1
<1>1. IdSpace \in Nat /\ IdSpace > 0 /\ next_request_id \in Nat /\ next_request_id < IdSpace
  BY PubSubAssumption DEF RequestIds, TypeOK
<1>2. next_request_id' = IF next_request_id + 1 < IdSpace THEN next_request_id + 1 ELSE 0
  BY <1>1, Wraps DEF TypeOK
<1> QED BY <1>1, <1>2 DEF Age

(* idx_pubsub_subscribe on a connection (pubsub.c:209-253). *)
LEMMA SubscribeKeeps ==
    ASSUME PubSubInv, IdsSuffice, Subscribe
    PROVE  PubSubInv'
<1> DEFINE n == Len(subscriptions)
           m == Len(toServer)
           msg == SubscribeMessage(NewEntry)
<1>t. TypeOK /\ Streams /\ HandlesInv /\ IdsInv /\ ToServerInv /\ ConfirmationsInv
      /\ NotificationsInv /\ ServerInv /\ NeverDeaf
  BY DEF PubSubInv
<1>e. /\ n \in Nat /\ Entries = 1 .. n /\ n <= MaxHandles
      /\ \A i \in Entries :
            /\ subscriptions[i].handle \in Handles
            /\ subscriptions[i].request_id \in RequestIds
            /\ subscriptions[i].server_id \in ServerIds
            /\ subscriptions[i].confirmed \in BOOLEAN
  BY <1>t, EntryType DEF TypeOK
<1>1. /\ ws /\ next_handle \in Handles /\ next_handle' = next_handle + 1
      /\ subscriptions' = Append(subscriptions, NewEntry)
      /\ next_request_id' = (next_request_id + 1) % IdSpace
      /\ toServer' = IF peer THEN toServer \o <<msg>> ELSE toServer
      /\ UNCHANGED <<backoff, quiet, ws, pc, remaining, rejected, peer, toClient, active, deaths>>
  BY DEF Subscribe, Register, Sent
<1>2. /\ NewEntry \in Entry /\ NewEntry.handle = next_handle
      /\ NewEntry.request_id = next_request_id /\ NewEntry.confirmed = FALSE
  BY <1>t, <1>1, PubSubAssumption DEF NewEntry, Entry, TypeOK, ServerIds
<1>3. /\ msg \in Requests /\ msg.kind = "subscribe" /\ msg.id = next_request_id
      /\ msg.topic = next_handle
  BY <1>t, <1>1, <1>2 DEF SubscribeMessage, Requests, TypeOK
<1> HIDE DEF msg
<1>4. /\ subscriptions' \in Seq(Entry) /\ Len(subscriptions') = n + 1
      /\ Entries' = 1 .. n + 1 /\ DOMAIN subscriptions' = 1 .. n + 1
      /\ \A i \in 1 .. n : subscriptions'[i] = subscriptions[i]
      /\ subscriptions'[n + 1] = NewEntry
  <2>1. subscriptions \in Seq(Entry)
    BY <1>t DEF TypeOK
  <2>2. /\ subscriptions' \in Seq(Entry) /\ Len(subscriptions') = n + 1
        /\ \A i \in 1 .. n : subscriptions'[i] = subscriptions[i]
        /\ subscriptions'[n + 1] = NewEntry
    BY <2>1, <1>1, <1>2, AppendProperties
  <2> QED BY <2>2, LenProperties DEF Entries
<1>m. /\ m \in Nat /\ DOMAIN toServer = 1 .. m
      /\ \A k \in 1 .. m : toServer[k].id \in RequestIds
      /\ DOMAIN toClient = 1 .. Len(toClient) /\ Len(toClient) \in Nat
      /\ \A k \in DOMAIN toClient : Confirms(k) =>
            toClient[k].id \in RequestIds /\ toClient[k].server_id \in ServerIds
  BY <1>t, MessageType DEF Confirms, Notifies
<1>5. /\ toServer' \in Seq(Requests)
      /\ DOMAIN toServer' = 1 .. (IF peer THEN m + 1 ELSE m)
      /\ \A k \in 1 .. m : toServer'[k] = toServer[k]
      /\ peer => toServer'[m + 1] = msg
  <2>1. toServer \in Seq(Requests)
    BY <1>t DEF Streams
  <2>2. CASE peer
    <3>1. toServer' = Append(toServer, msg)
      BY <1>1, <1>3, <2>1, <2>2, AppendIsConcat
    <3> QED BY <3>1, <2>1, <2>2, <1>3, AppendProperties, LenProperties
  <2>3. CASE ~peer
    BY <2>3, <1>1, <2>1, <1>m
  <2> QED BY <2>2, <2>3
<1>6. MaxHandles \in Nat /\ IdSpace \in Nat /\ IdSpace >= 2 * MaxHandles /\ next_handle \in Nat
      /\ next_handle <= MaxHandles /\ n < next_handle
  BY <1>1, <1>t, PubSubAssumption DEF IdsSuffice, Handles, HandlesInv
<1>7. Drawn \in Nat /\ Drawn < IdSpace /\ Drawn' = Drawn + 1
  <2>1. Drawn = 2 * (next_handle - 1) - n /\ Drawn' = 2 * (next_handle + 1 - 1) - (n + 1)
    BY <1>4, <1>1, <1>6, <1>e DEF Drawn
  <2> HIDE DEF n
  <2> QED BY <2>1, <1>6, <1>e
<1>8. ASSUME NEW id \in RequestIds, Age(id) <= Drawn
      PROVE  id # next_request_id /\ Age(id)' <= Drawn'
  <2>1. Age(id) \in Int
    BY <1>t, PubSubAssumption DEF Age, RequestIds, TypeOK
  <2>2. Age(id) < IdSpace
    BY <2>1, <1>7, <1>8, <1>6
  <2>3. id # next_request_id /\ Age(id)' = Age(id) + 1
    BY <2>2, <1>1, <1>t, AgeGrows
  <2> QED BY <2>1, <2>3, <1>7, <1>8
<1>9. ASSUME NEW id, id = next_request_id PROVE Age(id)' <= Drawn'
  <2>1. Age(id)' = 1
    BY <1>9, <1>1, <1>t, AgeOfDrawn
  <2> QED BY <2>1, <1>7
<1>10. TypeOK'
  <2>1. Registered \subseteq Registered'
    BY <1>4, <1>e DEF Registered, Entries
  <2>2. n + 1 <= MaxHandles /\ next_handle' \in 1 .. MaxHandles + 1
    BY <1>6, <1>1, <1>e
  <2>3. next_request_id' \in RequestIds
    BY <1>1, <1>t, Wraps, PubSubAssumption DEF TypeOK
  <2> QED BY <1>t, <1>1, <1>4, <2>1, <2>2, <2>3 DEF TypeOK
<1>11. Streams'
  BY <1>t, <1>1, <1>5 DEF Streams
<1>12. HandlesInv'
  <2>a. \A i \in 1 .. n : subscriptions[i].handle \in Int /\ subscriptions[i].handle < next_handle
    BY <1>e, <1>t DEF HandlesInv, Handles
  <2>b. \A s \in ServerIds : active[s] # None => active[s] \in Int
    BY <1>t DEF Handles, TypeOK
  <2>c. \A k \in 1 .. m : AsksFor(k) => toServer[k].topic \in Int
    BY <1>t, <1>m, MessageType DEF Handles
  <2>1. /\ \A i \in 1 .. n : subscriptions[i].handle \in Int /\ subscriptions[i].handle < next_handle
        /\ \A s \in ServerIds : active[s] # None => active[s] \in Int
        /\ \A k \in 1 .. m : AsksFor(k) => toServer[k].topic \in Int
    BY <2>a, <2>b, <2>c
  <2>2. \A i \in Entries' : subscriptions'[i].handle < next_handle'
    BY <2>1, <1>4, <1>2, <1>1, <1>6, <1>e
  <2>3. \A i, j \in Entries' : subscriptions'[i].handle = subscriptions'[j].handle => i = j
    <3>1. \A i, j \in 1 .. n : subscriptions[i].handle = subscriptions[j].handle => i = j
      BY <1>e, <1>t DEF HandlesInv
    <3>2. \A i \in Entries' :
            \/ i = n + 1 /\ subscriptions'[i].handle = next_handle
            \/ /\ i \in 1 .. n /\ subscriptions'[i].handle = subscriptions[i].handle
               /\ subscriptions[i].handle # next_handle
      BY <2>1, <1>4, <1>2, <1>6, <1>e
    <3> QED BY <3>1, <3>2
  <2>4. \A s \in ServerIds : active'[s] # None => active'[s] < next_handle'
    BY <2>1, <1>1, <1>t, <1>6 DEF HandlesInv
  <2>5. \A k \in DOMAIN toServer' : AsksFor(k)' => toServer'[k].topic < next_handle'
    <3> SUFFICES ASSUME NEW k \in DOMAIN toServer', AsksFor(k)'
                 PROVE  toServer'[k].topic < next_handle + 1
      BY <1>1
    <3>1. CASE k = m + 1
      BY <3>1, <1>3, <1>5, <1>6, <1>m
    <3>2. CASE k # m + 1
      <4>1. k \in 1 .. m /\ toServer'[k] = toServer[k] /\ AsksFor(k)
        BY <3>2, <1>5, <1>m DEF AsksFor
      <4>2. toServer[k].topic \in Int /\ toServer[k].topic < next_handle
        BY <4>1, <2>1, <1>t, <1>m DEF HandlesInv
      <4> QED BY <4>1, <4>2, <1>6
    <3> QED BY <3>1, <3>2
  <2>6. \A k \in DOMAIN toClient' : Notifies(k)' => toClient'[k].topic < next_handle'
    <3> SUFFICES ASSUME NEW k \in DOMAIN toClient, Notifies(k)
                 PROVE  toClient[k].topic < next_handle + 1
      BY <1>1 DEF Notifies
    <3>1. toClient[k].topic \in Int /\ toClient[k].topic < next_handle
      BY <1>t, MessageType DEF HandlesInv, Handles
    <3> QED BY <3>1, <1>6
  <2>7. Len(subscriptions') < next_handle'
    BY <1>1, <1>4, <1>6, <1>e
  <2> QED BY <2>2, <2>3, <2>4, <2>5, <2>6, <2>7 DEF HandlesInv
<1>f. /\ \A i \in 1 .. n : Waiting(i) => subscriptions[i].request_id # next_request_id
      /\ \A k \in 1 .. m : AsksFor(k) => toServer[k].id # next_request_id
      /\ \A k \in DOMAIN toClient : Confirms(k) => toClient[k].id # next_request_id
  BY <1>1, <1>8, <1>e, <1>m, <1>t DEF IdsInv
<1>13. IdsInv'
  <2>1. \A i \in Entries' : Waiting(i)' => Age(subscriptions[i].request_id)' <= Drawn'
    <3> SUFFICES ASSUME NEW i \in Entries', Waiting(i)'
                 PROVE  Age(subscriptions[i].request_id)' <= Drawn'
      OBVIOUS
    <3>1. CASE i = n + 1
      <4>1. subscriptions'[i].request_id = next_request_id
        BY <3>1, <1>4, <1>2
      <4> QED BY <4>1, <1>9 DEF Age
    <3>2. CASE i # n + 1
      <4>1. i \in 1 .. n /\ subscriptions'[i] = subscriptions[i] /\ Waiting(i)
        BY <3>2, <1>4, <1>e DEF Waiting
      <4>2. Age(subscriptions[i].request_id) <= Drawn /\ subscriptions[i].request_id \in RequestIds
        BY <4>1, <1>e, <1>t, <1>1 DEF IdsInv
      <4> QED BY <4>1, <4>2, <1>8 DEF Age
    <3> QED BY <3>1, <3>2
  <2>2. \A k \in DOMAIN toServer' : AsksFor(k)' => Age(toServer[k].id)' <= Drawn'
    <3> SUFFICES ASSUME NEW k \in DOMAIN toServer', AsksFor(k)'
                 PROVE  Age(toServer[k].id)' <= Drawn'
      OBVIOUS
    <3>1. CASE k = m + 1
      <4>1. toServer'[k].id = next_request_id
        BY <3>1, <1>5, <1>3, <1>m
      <4> QED BY <4>1, <1>9 DEF Age
    <3>2. CASE k # m + 1
      <4>1. k \in 1 .. m /\ toServer'[k] = toServer[k] /\ AsksFor(k)
        BY <3>2, <1>5, <1>m DEF AsksFor
      <4>2. Age(toServer[k].id) <= Drawn /\ toServer[k].id \in RequestIds
        BY <4>1, <1>m, <1>t, <1>1 DEF IdsInv
      <4> QED BY <4>1, <4>2, <1>8 DEF Age
    <3> QED BY <3>1, <3>2
  <2>3. \A k \in DOMAIN toClient' : Confirms(k)' => Age(toClient[k].id)' <= Drawn'
    <3> SUFFICES ASSUME NEW k \in DOMAIN toClient, Confirms(k)
                 PROVE  Age(toClient[k].id)' <= Drawn'
      BY <1>1 DEF Confirms
    <3>1. Age(toClient[k].id) <= Drawn /\ toClient[k].id \in RequestIds
      BY <1>m, <1>t, <1>1 DEF IdsInv
    <3> QED BY <3>1, <1>8, <1>1 DEF Age
  <2>4. \A i, j \in Entries' :
            /\ Waiting(i)' /\ Waiting(j)'
            /\ subscriptions'[i].request_id = subscriptions'[j].request_id
            => i = j
    BY <1>4, <1>2, <1>f, <1>t, <1>e, <1>1 DEF IdsInv, Waiting
  <2> QED BY <2>1, <2>2, <2>3, <2>4 DEF IdsInv
<1>h. /\ \A i \in 1 .. n : subscriptions[i].handle # next_handle
      /\ \A s \in ServerIds : active[s] # next_handle
      /\ \A k \in 1 .. m : AsksFor(k) => toServer[k].topic # next_handle
  <2>1. \A i \in 1 .. n : subscriptions[i].handle # next_handle
    BY <1>t, <1>e, <1>6 DEF HandlesInv
  <2>2. \A s \in ServerIds : active[s] # next_handle
    BY <1>t, <1>6, PubSubAssumption DEF HandlesInv
  <2>3. \A k \in 1 .. m : AsksFor(k) => toServer[k].topic # next_handle
    BY <1>t, <1>m, <1>6 DEF HandlesInv
  <2> QED BY <2>1, <2>2, <2>3
<1>14. ToServerInv'
  <2>1. \A k \in DOMAIN toServer' : AsksFor(k)' =>
          /\ \A s \in ServerIds : active'[s] # toServer'[k].topic
          /\ \A i \in Entries' :
                subscriptions'[i].handle = toServer'[k].topic =>
                    Waiting(i)' /\ subscriptions'[i].request_id = toServer'[k].id
          /\ \A i \in Entries' :
                Waiting(i)' /\ subscriptions'[i].request_id = toServer'[k].id =>
                    subscriptions'[i].handle = toServer'[k].topic
    <3> SUFFICES ASSUME NEW k \in DOMAIN toServer', AsksFor(k)'
                 PROVE  /\ \A s \in ServerIds : active'[s] # toServer'[k].topic
                        /\ \A i \in Entries' :
                              subscriptions'[i].handle = toServer'[k].topic =>
                                  Waiting(i)' /\ subscriptions'[i].request_id = toServer'[k].id
                        /\ \A i \in Entries' :
                              Waiting(i)' /\ subscriptions'[i].request_id = toServer'[k].id =>
                                  subscriptions'[i].handle = toServer'[k].topic
      OBVIOUS
    <3>1. CASE k = m + 1
      <4>1. toServer'[k].id = next_request_id /\ toServer'[k].topic = next_handle
        BY <3>1, <1>5, <1>3, <1>m
      <4> QED BY <4>1, <1>1, <1>2, <1>4, <1>e, <1>f, <1>h DEF Waiting
    <3>2. CASE k # m + 1
      <4>1. k \in 1 .. m /\ toServer'[k] = toServer[k] /\ AsksFor(k)
        BY <3>2, <1>5, <1>m DEF AsksFor
      <4> QED BY <4>1, <1>1, <1>2, <1>4, <1>e, <1>f, <1>h, <1>t, <1>m DEF Waiting, ToServerInv
    <3> QED BY <3>1, <3>2
  <2>2. \A k, l \in DOMAIN toServer' :
          AsksFor(k)' /\ AsksFor(l)' /\ toServer'[k].topic = toServer'[l].topic => k = l
    <3>1. \A k \in DOMAIN toServer' : AsksFor(k)' =>
            \/ k = m + 1 /\ toServer'[k].topic = next_handle
            \/ /\ k \in 1 .. m /\ AsksFor(k) /\ toServer'[k] = toServer[k]
               /\ toServer[k].topic # next_handle
      BY <1>5, <1>3, <1>m, <1>h DEF AsksFor
    <3> QED BY <3>1, <1>m, <1>t DEF ToServerInv
  <2>g. \A k \in DOMAIN toServer' : GivesUp(k)' =>
          k \in DOMAIN toServer /\ toServer'[k] = toServer[k] /\ GivesUp(k)
    BY <1>5, <1>3, <1>m DEF GivesUp
  <2>3. \A k \in DOMAIN toServer' : GivesUp(k)' =>
          /\ active'[toServer'[k].server_id] # None
          /\ \A i \in Entries' : subscriptions'[i].handle # active'[toServer'[k].server_id]
    <3> SUFFICES ASSUME NEW k \in DOMAIN toServer, GivesUp(k), toServer'[k] = toServer[k]
                 PROVE  /\ active[toServer[k].server_id] # None
                        /\ \A i \in Entries' : subscriptions'[i].handle # active[toServer[k].server_id]
      BY <2>g, <1>1, ZenonT(60)
    <3>1. toServer[k].server_id \in ServerIds
      BY <1>t, MessageType
    <3> QED BY <3>1, <1>t, <1>4, <1>2, <1>e, <1>h DEF ToServerInv
  <2>4. \A k, l \in DOMAIN toServer' :
          GivesUp(k)' /\ GivesUp(l)' /\ toServer'[k].server_id = toServer'[l].server_id => k = l
    BY <2>g, <1>t DEF ToServerInv
  <2> QED BY <2>1, <2>2, <2>3, <2>4 DEF ToServerInv
<1>15. ConfirmationsInv'
  <2>1. ASSUME NEW k \in DOMAIN toClient, Confirms(k)
        PROVE  /\ \A i \in Entries' :
                    Waiting(i)' /\ subscriptions'[i].request_id = toClient[k].id =>
                        subscriptions'[i].handle = active[toClient[k].server_id]
               /\ \A i \in Entries' :
                    ~Waiting(i)' => subscriptions'[i].server_id # toClient[k].server_id
               /\ \A l \in DOMAIN toServer' :
                    GivesUp(l)' => toServer'[l].server_id # toClient[k].server_id
    <3>1. \A i \in Entries' :
            \/ i \in Entries /\ subscriptions'[i] = subscriptions[i]
            \/ Waiting(i)' /\ subscriptions'[i].request_id # toClient[k].id
      BY <2>1, <1>2, <1>4, <1>e, <1>f DEF Waiting
    <3>2. \A l \in DOMAIN toServer' : GivesUp(l)' =>
            l \in DOMAIN toServer /\ toServer'[l] = toServer[l] /\ GivesUp(l)
      BY <1>3, <1>5, <1>m DEF GivesUp
    <3> QED BY <2>1, <3>1, <3>2, <1>t DEF ConfirmationsInv, Waiting
  <2> QED BY <2>1, <1>1, <1>t, ZenonT(60) DEF ConfirmationsInv, Confirms
<1>k. \A i \in 1 .. n : \A s, r : KnownAs(i, s, r) => KnownAs(i, s, r)'
  BY <1>1, <1>4 DEF KnownAs, Waiting, Confirms
<1>16. NotificationsInv'
  <2>1. ASSUME NEW k \in DOMAIN toClient, Notifies(k)
        PROVE  /\ \A i \in Entries' :
                    ~Waiting(i)' /\ subscriptions'[i].server_id = toClient[k].server_id =>
                        subscriptions'[i].handle = toClient[k].topic
               /\ \A i \in Entries' :
                    subscriptions'[i].handle = toClient[k].topic =>
                        KnownAs(i, toClient[k].server_id, k)'
    <3>1. toClient[k].topic # next_handle
      BY <1>t, <2>1, <1>6 DEF HandlesInv
    <3>2. \A i \in Entries' :
            \/ i \in Entries /\ i \in 1 .. n /\ subscriptions'[i] = subscriptions[i]
            \/ Waiting(i)' /\ subscriptions'[i].handle = next_handle
      BY <1>2, <1>4, <1>e DEF Waiting
    <3>3. \A i \in Entries :
            ~Waiting(i) /\ subscriptions[i].server_id = toClient[k].server_id =>
                subscriptions[i].handle = toClient[k].topic
      BY <2>1, <1>t DEF NotificationsInv
    <3>4. \A i \in Entries' :
            ~Waiting(i)' /\ subscriptions'[i].server_id = toClient[k].server_id =>
                subscriptions'[i].handle = toClient[k].topic
      BY <3>2, <3>3 DEF Waiting
    <3>5. ASSUME NEW i \in Entries', subscriptions'[i].handle = toClient[k].topic
          PROVE  KnownAs(i, toClient[k].server_id, k)'
      <4>1. i \in Entries /\ i \in 1 .. n /\ KnownAs(i, toClient[k].server_id, k)
        BY <3>1, <3>2, <3>5, <2>1, <1>t DEF NotificationsInv
      <4>2. ASSUME NEW s, s = toClient[k].server_id PROVE KnownAs(i, s, k)'
        BY <4>1, <4>2, <1>k
      <4> QED BY <4>2, <1>1
    <3> QED BY <3>4, <3>5
  <2> QED BY <2>1, <1>1, <1>t DEF NotificationsInv, Confirms, Notifies
<1>17. ServerInv'
  <2>1. \A i \in Entries' :
          ~Waiting(i)' => active'[subscriptions'[i].server_id] = subscriptions'[i].handle
    BY <1>t, <1>1, <1>2, <1>4, <1>e DEF ServerInv, Waiting
  <2>2. peer => \A s \in ServerIds : \A i \in Entries' :
          active[s] = subscriptions'[i].handle => KnownAs(i, s, Len(toClient) + 1)'
    BY <1>t, <1>1, <1>2, <1>4, <1>e, <1>h, <1>k DEF ServerInv
  <2> QED BY <2>1, <2>2, <1>1, <1>t DEF ServerInv
<1>18. NeverDeaf'
  <2> SUFFICES ASSUME peer, NEW i \in Entries'
               PROVE  \/ ~Waiting(i)' /\ active'[subscriptions'[i].server_id] = subscriptions'[i].handle
                      \/ subscriptions'[i].handle \in rejected'
                      \/ \E k \in DOMAIN toServer' : toServer'[k] = SubscribeMessage(subscriptions'[i])
                      \/ \E k \in DOMAIN toClient' :
                            /\ toClient'[k].kind \in {"confirmed", "rejected", "unusable"}
                            /\ toClient'[k].id = subscriptions'[i].request_id
    BY <1>1 DEF NeverDeaf, Entries, Waiting
  <2>1. CASE i = n + 1
    <3>1. m + 1 \in DOMAIN toServer' /\ toServer'[m + 1] = SubscribeMessage(subscriptions'[i])
      BY <2>1, <1>4, <1>5, <1>m DEF msg
    <3> QED BY <3>1
  <2>2. CASE i # n + 1
    <3>1. i \in Entries /\ subscriptions'[i] = subscriptions[i]
      BY <2>2, <1>4, <1>e
    <3>2. \A k \in DOMAIN toServer : k \in DOMAIN toServer' /\ toServer'[k] = toServer[k]
      BY <1>5, <1>m
    <3> QED BY <3>1, <3>2, <1>1, <1>t DEF NeverDeaf, Entries, Waiting
  <2> QED BY <2>1, <2>2
<1> QED BY <1>10, <1>11, <1>12, <1>13, <1>14, <1>15, <1>16, <1>17, <1>18 DEF PubSubInv

(* What every step starts from. *)
LEMMA Facts ==
    ASSUME PubSubInv
    PROVE  /\ TypeOK /\ Streams /\ HandlesInv /\ IdsInv /\ ToServerInv /\ ConfirmationsInv
           /\ NotificationsInv /\ ServerInv /\ NeverDeaf
           /\ subscriptions \in Seq(Entry) /\ Len(subscriptions) \in Nat
           /\ Entries = 1 .. Len(subscriptions) /\ Len(subscriptions) <= MaxHandles
           /\ next_handle \in Nat /\ next_handle \in 1 .. MaxHandles + 1
           /\ MaxHandles \in Nat /\ IdSpace \in Nat /\ IdSpace > 0
           /\ \A i \in Entries :
                 /\ subscriptions[i] \in Entry
                 /\ subscriptions[i].handle \in Handles
                 /\ subscriptions[i].request_id \in RequestIds
                 /\ subscriptions[i].server_id \in ServerIds
                 /\ subscriptions[i].confirmed \in BOOLEAN
           /\ toServer \in Seq(Requests) /\ Len(toServer) \in Nat
           /\ DOMAIN toServer = 1 .. Len(toServer)
           /\ toClient \in Seq(Answers) /\ Len(toClient) \in Nat
           /\ DOMAIN toClient = 1 .. Len(toClient)
           /\ Scalars
<1>1. TypeOK /\ Streams
  BY DEF PubSubInv
<1>2. MaxHandles \in Nat /\ IdSpace \in Nat /\ IdSpace > 0
  BY PubSubAssumption
<1>3. next_handle \in Nat
  BY <1>1, <1>2 DEF TypeOK
<1>4. Scalars
  BY <1>1 DEF TypeOK, Scalars
<1>5. /\ toServer \in Seq(Requests) /\ toClient \in Seq(Answers)
  BY <1>1 DEF Streams
<1>6. subscriptions \in Seq(Entry) /\ Len(subscriptions) <= MaxHandles /\ next_handle \in 1 .. MaxHandles + 1
  BY <1>1 DEF TypeOK
<1> QED BY <1>1, <1>2, <1>3, <1>4, <1>5, <1>6, EntryType, MessageType DEF PubSubInv

(* The registry with one more entry. *)
LEMMA Registering ==
    ASSUME PubSubInv, Register, NEW entry \in Entry, entry.handle = next_handle
    PROVE  LET registry == Append(subscriptions, entry)
           IN  /\ registry \in Seq(Entry) /\ Len(registry) = Len(subscriptions) + 1
               /\ Len(registry) <= MaxHandles /\ Len(registry) < next_handle'
               /\ DOMAIN registry = 1 .. Len(subscriptions) + 1
               /\ next_handle' = next_handle + 1 /\ next_handle' \in 1 .. MaxHandles + 1
               /\ \A i \in Entries : registry[i] = subscriptions[i]
               /\ registry[Len(subscriptions) + 1] = entry
               /\ \A i \in DOMAIN registry : registry[i].handle < next_handle'
               /\ \A i, j \in DOMAIN registry : registry[i].handle = registry[j].handle => i = j
<1> DEFINE registry == Append(subscriptions, entry)
           n == Len(subscriptions)
<1>1. /\ next_handle \in Handles /\ next_handle' = next_handle + 1
  BY DEF Register
<1>2. /\ n \in Nat /\ Entries = 1 .. n /\ subscriptions \in Seq(Entry)
      /\ MaxHandles \in Nat /\ next_handle \in Nat /\ HandlesInv
      /\ \A i \in Entries : subscriptions[i].handle \in Handles
  BY Facts
<1>3. /\ registry \in Seq(Entry) /\ Len(registry) = n + 1
      /\ \A i \in Entries : registry[i] = subscriptions[i]
      /\ registry[n + 1] = entry
  BY <1>2, AppendProperties
<1>4. DOMAIN registry = 1 .. n + 1
  BY <1>3, LenProperties
<1> HIDE DEF registry
<1>5. n < next_handle /\ next_handle <= MaxHandles
  BY <1>1, <1>2 DEF HandlesInv, Handles
<1>6. n + 1 <= MaxHandles /\ n + 1 < next_handle' /\ next_handle' \in 1 .. MaxHandles + 1
  BY <1>1, <1>2, <1>5
<1>7. \A i \in Entries : subscriptions[i].handle < next_handle /\ subscriptions[i].handle \in Int
  BY <1>2 DEF HandlesInv, Handles
<1>8. \A i \in DOMAIN registry :
         \/ i = n + 1 /\ registry[i].handle = next_handle
         \/ i \in Entries /\ registry[i].handle = subscriptions[i].handle
                          /\ subscriptions[i].handle < next_handle
                          /\ subscriptions[i].handle \in Int
  BY <1>2, <1>3, <1>4, <1>7
<1>9. \A i \in DOMAIN registry : registry[i].handle < next_handle'
  BY <1>8, <1>1, <1>2
<1>10. \A i, j \in Entries : subscriptions[i].handle = subscriptions[j].handle => i = j
  BY <1>2 DEF HandlesInv
<1>11. \A i, j \in DOMAIN registry : registry[i].handle = registry[j].handle => i = j
  BY <1>8, <1>10, <1>2
<1>12. Len(registry) <= MaxHandles /\ Len(registry) < next_handle'
  BY <1>3, <1>6
<1> QED BY <1>1, <1>3, <1>4, <1>6, <1>9, <1>11, <1>12 DEF registry

(* A subscription that is registered while there is no connection, or whose   *)
(* request cannot be sent.                                                    *)
LEMMA SubscribeOfflineKeeps ==
    ASSUME PubSubInv, SubscribeOffline \/ SubscribeSendFails
    PROVE  PubSubInv'
<1>f. /\ TypeOK /\ Streams /\ MaxHandles \in Nat /\ IdSpace \in Nat /\ IdSpace > 0 /\ Scalars
      /\ Entries = 1 .. Len(subscriptions) /\ Len(subscriptions) \in Nat
  BY Facts
<1>r. /\ Register /\ next_handle \in Handles
  BY DEF SubscribeOffline, SubscribeSendFails, Register
<1>z. 0 \in ServerIds /\ 0 \in RequestIds /\ next_request_id \in RequestIds
  BY <1>f DEF ServerIds, RequestIds, TypeOK
<1>1. CASE SubscribeSendFails
  <2>1. NewEntry \in Entry /\ NewEntry.handle = next_handle
    BY <1>r, <1>z DEF NewEntry, Entry
  <2>2. (next_request_id + 1) % IdSpace \in RequestIds
    BY <1>f, <1>z, Wraps
  <2>3. /\ DropConnection(Append(subscriptions, NewEntry)) /\ next_request_id' \in RequestIds
        /\ Scalars'
    BY <1>1, <2>2, <1>f DEF SubscribeSendFails, Scalars
  <2> QED BY <2>1, <2>3, <1>r, Registering, DropKeeps
<1>2. CASE SubscribeOffline
  <2> DEFINE entry == [NewEntry EXCEPT !.request_id = 0]
  <2>1. entry \in Entry /\ entry.handle = next_handle /\ entry.confirmed = FALSE
    BY <1>r, <1>z DEF NewEntry, Entry
  <2>2. /\ ~ws /\ subscriptions' = Append(subscriptions, entry)
        /\ UNCHANGED <<next_request_id, backoff, quiet, ws, pc, remaining, rejected, peer,
                       toServer, toClient, active, deaths>>
    BY <1>2 DEF SubscribeOffline, network
  <2> HIDE DEF entry
  <2>3. /\ ~peer /\ toServer = <<>> /\ toClient = <<>>
        /\ \A s \in ServerIds : active[s] = None
        /\ \A i \in Entries : subscriptions[i].confirmed = FALSE
    <3>1. ~peer
      BY <2>2, <1>f DEF TypeOK
    <3>2. \A i \in Entries : subscriptions[i].confirmed \in BOOLEAN
      BY Facts
    <3> QED BY <2>2, <3>1, <3>2, <1>f DEF Streams, Waiting
  <2>4. /\ subscriptions' \in Seq(Entry) /\ Len(subscriptions') <= MaxHandles
        /\ Len(subscriptions') < next_handle' /\ next_handle' \in 1 .. MaxHandles + 1
        /\ Entries' = 1 .. Len(subscriptions) + 1
        /\ \A i \in Entries : subscriptions'[i] = subscriptions[i]
        /\ subscriptions'[Len(subscriptions) + 1] = entry
        /\ \A i \in Entries' : subscriptions'[i].handle < next_handle'
        /\ \A i, j \in Entries' : subscriptions'[i].handle = subscriptions'[j].handle => i = j
    BY <2>1, <2>2, <1>r, Registering DEF Entries
  <2>5. \A i \in Entries' : subscriptions'[i].confirmed = FALSE
    BY <2>1, <2>3, <2>4, <1>f, SMTT(30)
  <2>6. Registered \subseteq Registered'
    BY <2>4, <1>f DEF Registered, Entries
  <2>7. TypeOK'
    BY <2>2, <2>4, <2>6, <1>f DEF TypeOK
  <2>8. ws' = FALSE /\ peer' = FALSE /\ \A s \in ServerIds : active'[s] = None
    BY <2>2, <2>3, <1>f DEF TypeOK
  <2> QED BY <2>2, <2>3, <2>4, <2>5, <2>7, <2>8, OfflineKeeps
<1> QED BY <1>1, <1>2

-----------------------------------------------------------------------------
(* Where entry k of the registry was before entry i was removed.              *)
From(k, i) == IF k = i THEN Len(subscriptions) ELSE k

(* The registry without entry i: the last one has taken its place             *)
(* (pubsub.c:297-301).                                                        *)
LEMMA Removing ==
    ASSUME PubSubInv, NEW i \in Entries
    PROVE  /\ Removed(i) \in Seq(Entry) /\ Len(Removed(i)) = Len(subscriptions) - 1
           /\ DOMAIN Removed(i) = 1 .. Len(subscriptions) - 1
           /\ \A k \in 1 .. Len(subscriptions) - 1 :
                 /\ From(k, i) \in Entries /\ From(k, i) # i
                 /\ Removed(i)[k] = subscriptions[From(k, i)]
           /\ \A k, l \in 1 .. Len(subscriptions) - 1 : From(k, i) = From(l, i) => k = l
           /\ \A j \in Entries : j # i => \E k \in 1 .. Len(subscriptions) - 1 : From(k, i) = j
<1> DEFINE n == Len(subscriptions)
           full == [subscriptions EXCEPT ![i] = subscriptions[n]]
<1>1. /\ n \in Nat /\ Entries = 1 .. n /\ subscriptions \in Seq(Entry) /\ i \in 1 .. n
      /\ \A j \in Entries : subscriptions[j] \in Entry
  BY Facts
<1>2. n \in Entries
  BY <1>1
<1>3. /\ full \in Seq(Entry) /\ Len(full) = n
      /\ \A j \in 1 .. n : full[j] = subscriptions[From(j, i)]
  BY <1>1, <1>2, ExceptSeq DEF From
<1> HIDE DEF full
<1>4. /\ SubSeq(full, 1, n - 1) \in Seq(Entry) /\ Len(SubSeq(full, 1, n - 1)) = n - 1
      /\ \A k \in 1 .. n - 1 : SubSeq(full, 1, n - 1)[k] = full[k]
  <2>1. \A k \in 1 .. n - 1 : full[k] \in Entry
    BY <1>1, <1>3, ElementOfSeq
  <2>2. 1 \in Int /\ n - 1 \in Int
    BY <1>1
  <2>3. /\ SubSeq(full, 1, n - 1) \in Seq(Entry)
        /\ Len(SubSeq(full, 1, n - 1)) = IF 1 <= n - 1 THEN n - 1 - 1 + 1 ELSE 0
        /\ \A k \in 1 .. n - 1 - 1 + 1 : SubSeq(full, 1, n - 1)[k] = full[1 + k - 1]
    BY <2>1, <2>2, SubSeqProperties
  <2>4. n >= 1 /\ n - 1 - 1 + 1 = n - 1 /\ \A k \in 1 .. n - 1 : 1 + k - 1 = k
    BY <1>1
  <2>5. (IF 1 <= n - 1 THEN n - 1 - 1 + 1 ELSE 0) = n - 1
    BY <1>1, <2>4
  <2> QED BY <2>3, <2>4, <2>5
<1>5. Removed(i) = SubSeq(full, 1, n - 1)
  BY DEF Removed, full
<1>6. \A k \in 1 .. n - 1 : From(k, i) \in Entries /\ From(k, i) # i
  BY <1>1 DEF From
<1>7. \A k, l \in 1 .. n - 1 : From(k, i) = From(l, i) => k = l
  BY <1>1 DEF From
<1>8. ASSUME NEW j \in Entries, j # i
      PROVE  \E k \in 1 .. n - 1 : From(k, i) = j
  <2>1. CASE j = n
    <3>1. i \in 1 .. n - 1 /\ From(i, i) = j
      BY <2>1, <1>1, <1>8 DEF From
    <3> QED BY <3>1
  <2>2. CASE j # n
    <3>1. j \in 1 .. n - 1 /\ From(j, i) = j
      BY <2>2, <1>1, <1>8 DEF From
    <3> QED BY <3>1
  <2> QED BY <2>1, <2>2
<1>9. DOMAIN Removed(i) = 1 .. n - 1
  BY <1>4, <1>5, LenProperties
<1>10. \A k \in 1 .. n - 1 : Removed(i)[k] = subscriptions[From(k, i)]
  BY <1>1, <1>3, <1>4, <1>5
<1> QED BY <1>4, <1>5, <1>6, <1>7, <1>8, <1>9, <1>10

(* idx_pubsub_unsubscribe (pubsub.c:255-306). *)
LEMMA UnsubscribeKeeps ==
    ASSUME PubSubInv, IdsSuffice, NEW i \in Entries, Unsubscribe(i)
    PROVE  PubSubInv'
<1> DEFINE n == Len(subscriptions)
           m == Len(toServer)
           entry == subscriptions[i]
           told == ws /\ entry.confirmed /\ entry.handle \notin NoUnsubscribe
           msg == [kind |-> "unsubscribe", id |-> next_request_id, server_id |-> entry.server_id]
<1>f. /\ TypeOK /\ Streams /\ HandlesInv /\ IdsInv /\ ToServerInv /\ ConfirmationsInv
      /\ NotificationsInv /\ ServerInv /\ NeverDeaf
      /\ n \in Nat /\ Entries = 1 .. n /\ n <= MaxHandles
      /\ next_handle \in Nat /\ next_handle \in 1 .. MaxHandles + 1
      /\ MaxHandles \in Nat /\ IdSpace \in Nat /\ IdSpace > 0 /\ Scalars
  BY Facts
<1>e. \A j \in Entries :
            /\ subscriptions[j].handle \in Handles
            /\ subscriptions[j].request_id \in RequestIds
            /\ subscriptions[j].server_id \in ServerIds
            /\ subscriptions[j].confirmed \in BOOLEAN
  BY Facts
<1>m. /\ toServer \in Seq(Requests) /\ m \in Nat /\ DOMAIN toServer = 1 .. m
      /\ toClient \in Seq(Answers) /\ DOMAIN toClient = 1 .. Len(toClient)
  BY Facts
<1>1. /\ subscriptions' = Removed(i) /\ rejected' = rejected \ {entry.handle}
      /\ next_request_id' = IF told THEN (next_request_id + 1) % IdSpace ELSE next_request_id
      /\ toServer' = IF told /\ peer THEN toServer \o <<msg>> ELSE toServer
      /\ UNCHANGED <<next_handle, backoff, quiet, ws, pc, remaining, peer, toClient, active, deaths>>
  BY DEF Unsubscribe, Sent
<1>2. /\ subscriptions' \in Seq(Entry) /\ Len(subscriptions') = n - 1
      /\ Entries' = 1 .. n - 1 /\ DOMAIN subscriptions' = 1 .. n - 1
      /\ \A k \in Entries' :
            /\ From(k, i) \in Entries /\ From(k, i) # i
            /\ subscriptions'[k] = subscriptions[From(k, i)]
      /\ \A k, l \in Entries' : From(k, i) = From(l, i) => k = l
      /\ \A j \in Entries : j # i => \E k \in Entries' : From(k, i) = j
  BY <1>1, Removing, ZenonT(60) DEF Entries
<1>3. /\ msg \in Requests /\ msg.kind = "unsubscribe" /\ msg.server_id = entry.server_id
  BY <1>f, <1>e DEF Requests, TypeOK
<1> HIDE DEF msg
<1>5. /\ toServer' \in Seq(Requests)
      /\ DOMAIN toServer' = 1 .. (IF told /\ peer THEN m + 1 ELSE m)
      /\ \A k \in 1 .. m : toServer'[k] = toServer[k]
      /\ told /\ peer => toServer'[m + 1] = msg
  <2>2. CASE told /\ peer
    <3>1. toServer' = Append(toServer, msg)
      BY <1>1, <1>3, <1>m, <2>2, AppendIsConcat
    <3> QED BY <3>1, <1>m, <2>2, <1>3, AppendProperties, LenProperties
  <2>3. CASE ~(told /\ peer)
    BY <2>3, <1>1, <1>m
  <2> QED BY <2>2, <2>3
<1>7. Drawn \in Nat /\ Drawn < IdSpace /\ Drawn' = Drawn + 1
  <2>1. Drawn = 2 * (next_handle - 1) - n /\ Drawn' = 2 * (next_handle - 1) - (n - 1)
    BY <1>2, <1>1, <1>f DEF Drawn
  <2>2. n < next_handle /\ n >= 1 /\ IdSpace >= 2 * MaxHandles
    BY <1>f DEF HandlesInv, IdsSuffice
  <2> HIDE DEF n
  <2> QED BY <2>1, <2>2, <1>f
<1>8. ASSUME NEW id \in RequestIds, Age(id) <= Drawn
      PROVE  Age(id)' <= Drawn'
  <2>1. Age(id) \in Int
    BY <1>f, PubSubAssumption DEF Age, RequestIds, TypeOK
  <2>2. Age(id) < IdSpace
    BY <2>1, <1>7, <1>8, <1>f
  <2>3. CASE told
    <3>1. Age(id)' = Age(id) + 1
      BY <2>2, <2>3, <1>1, <1>f, AgeGrows
    <3> QED BY <2>1, <3>1, <1>7, <1>8
  <2>4. CASE ~told
    <3>1. Age(id)' = Age(id)
      BY <2>4, <1>1 DEF Age
    <3> QED BY <2>1, <3>1, <1>7, <1>8
  <2> QED BY <2>3, <2>4
<1>10. TypeOK'
  <2>1. rejected' \subseteq Registered'
    <3> SUFFICES ASSUME NEW h \in rejected, h # entry.handle PROVE h \in Registered'
      BY <1>1
    <3>1. PICK j \in Entries : subscriptions[j].handle = h
      BY <1>f DEF TypeOK, Registered, Entries
    <3>2. PICK k \in Entries' : From(k, i) = j
      BY <3>1, <1>2
    <3> QED BY <3>1, <3>2, <1>2 DEF Registered, Entries
  <2>2. n - 1 <= MaxHandles
    BY <1>f
  <2>3. next_request_id' \in RequestIds
    BY <1>1, <1>f, Wraps DEF TypeOK
  <2> QED BY <1>f, <1>1, <1>2, <2>1, <2>2, <2>3 DEF TypeOK
<1>11. Streams'
  <2>1. ~ws => \A k \in Entries' : Waiting(k)'
    BY <1>f, <1>2 DEF Streams, Waiting
  <2> QED BY <2>1, <1>f, <1>1, <1>5 DEF Streams
<1>s. \A k \in DOMAIN toServer' : AsksFor(k)' =>
          k \in DOMAIN toServer /\ toServer'[k] = toServer[k] /\ AsksFor(k)
  BY <1>5, <1>3, <1>m DEF AsksFor
<1>g. \A k \in DOMAIN toServer' : GivesUp(k)' =>
          \/ k \in DOMAIN toServer /\ toServer'[k] = toServer[k] /\ GivesUp(k)
          \/ k = m + 1 /\ told /\ toServer'[k].server_id = entry.server_id
  BY <1>5, <1>3, <1>m DEF GivesUp
<1>12. HandlesInv'
  <2>1. \A k \in Entries' : subscriptions'[k].handle < next_handle'
    BY <1>1, <1>2, <1>f DEF HandlesInv
  <2>2. \A k, l \in Entries' : subscriptions'[k].handle = subscriptions'[l].handle => k = l
    BY <1>2, <1>f DEF HandlesInv
  <2>3. \A k \in DOMAIN toServer' : AsksFor(k)' => toServer'[k].topic < next_handle'
    BY <1>s, <1>1, <1>f DEF HandlesInv
  <2>4. Len(subscriptions') < next_handle'
    <3>1. n < next_handle
      BY <1>f DEF HandlesInv
    <3> QED BY <3>1, <1>1, <1>2, <1>f
  <2> QED BY <2>1, <2>2, <2>3, <2>4, <1>1, <1>f DEF HandlesInv, Notifies
<1>13. IdsInv'
  <2> SUFFICES ASSUME ws
               PROVE  /\ \A k \in Entries' : Waiting(k)' => Age(subscriptions[k].request_id)' <= Drawn'
                      /\ \A k \in DOMAIN toServer' : AsksFor(k)' => Age(toServer[k].id)' <= Drawn'
                      /\ \A k \in DOMAIN toClient' : Confirms(k)' => Age(toClient[k].id)' <= Drawn'
                      /\ \A k, l \in Entries' :
                            /\ Waiting(k)' /\ Waiting(l)'
                            /\ subscriptions'[k].request_id = subscriptions'[l].request_id
                            => k = l
    BY <1>1 DEF IdsInv
  <2>1. ASSUME NEW k \in Entries', Waiting(k)' PROVE Age(subscriptions[k].request_id)' <= Drawn'
    <3>1. From(k, i) \in Entries /\ subscriptions'[k] = subscriptions[From(k, i)] /\ Waiting(From(k, i))
      BY <2>1, <1>2 DEF Waiting
    <3>2. /\ Age(subscriptions[From(k, i)].request_id) <= Drawn
          /\ subscriptions[From(k, i)].request_id \in RequestIds
      BY <3>1, <1>e, <1>f DEF IdsInv
    <3> QED BY <3>1, <3>2, <1>8 DEF Age
  <2>2. ASSUME NEW k \in DOMAIN toServer', AsksFor(k)' PROVE Age(toServer[k].id)' <= Drawn'
    <3>1. k \in DOMAIN toServer /\ toServer'[k] = toServer[k] /\ AsksFor(k)
      BY <2>2, <1>s
    <3>2. Age(toServer[k].id) <= Drawn /\ toServer[k].id \in RequestIds
      BY <3>1, <1>f, MessageType DEF IdsInv
    <3> QED BY <3>1, <3>2, <1>8 DEF Age
  <2>3. ASSUME NEW k \in DOMAIN toClient', Confirms(k)' PROVE Age(toClient[k].id)' <= Drawn'
    <3>1. k \in DOMAIN toClient /\ Confirms(k) /\ toClient'[k] = toClient[k]
      BY <2>3, <1>1 DEF Confirms
    <3>2. Age(toClient[k].id) <= Drawn /\ toClient[k].id \in RequestIds
      BY <3>1, <1>f, MessageType DEF IdsInv, Confirms, Notifies
    <3> QED BY <3>1, <3>2, <1>8 DEF Age
  <2>4. \A k, l \in Entries' :
            /\ Waiting(k)' /\ Waiting(l)'
            /\ subscriptions'[k].request_id = subscriptions'[l].request_id
            => k = l
    <3> SUFFICES ASSUME NEW k \in Entries', NEW l \in Entries', Waiting(k)', Waiting(l)',
                        subscriptions'[k].request_id = subscriptions'[l].request_id
                 PROVE  From(k, i) = From(l, i)
      BY <1>2
    <3>1. /\ Waiting(From(k, i)) /\ Waiting(From(l, i)) /\ From(k, i) \in Entries /\ From(l, i) \in Entries
          /\ subscriptions[From(k, i)].request_id = subscriptions[From(l, i)].request_id
      BY <1>2 DEF Waiting
    <3> QED BY <3>1, <1>f DEF IdsInv
  <2> QED BY <2>1, <2>2, <2>3, <2>4
<1>r. told => active[entry.server_id] = entry.handle /\ entry.handle # None
  BY <1>f, <1>e, PubSubAssumption DEF ServerInv, Waiting, Handles
<1>14. ToServerInv'
  <2>1. ASSUME NEW k \in DOMAIN toServer', AsksFor(k)'
        PROVE  /\ \A s \in ServerIds : active'[s] # toServer'[k].topic
               /\ \A j \in Entries' :
                     subscriptions'[j].handle = toServer'[k].topic =>
                         Waiting(j)' /\ subscriptions'[j].request_id = toServer'[k].id
               /\ \A j \in Entries' :
                     Waiting(j)' /\ subscriptions'[j].request_id = toServer'[k].id =>
                         subscriptions'[j].handle = toServer'[k].topic
    <3>1. k \in DOMAIN toServer /\ toServer'[k] = toServer[k] /\ AsksFor(k) /\ active' = active
      BY <2>1, <1>s, <1>1
    <3>2. \A s \in ServerIds : active[s] # toServer[k].topic
      BY <3>1, <1>f DEF ToServerInv
    <3>3. ASSUME NEW j \in Entries'
          PROVE  /\ subscriptions'[j].handle = toServer[k].topic =>
                       Waiting(j)' /\ subscriptions'[j].request_id = toServer[k].id
                 /\ Waiting(j)' /\ subscriptions'[j].request_id = toServer[k].id =>
                       subscriptions'[j].handle = toServer[k].topic
      <4>1. From(j, i) \in Entries /\ subscriptions'[j] = subscriptions[From(j, i)]
            /\ Waiting(j)' = Waiting(From(j, i))
        BY <1>2 DEF Waiting
      <4> QED BY <4>1, <3>1, <1>f DEF ToServerInv
    <3> QED BY <3>1, <3>2, <3>3
  <2>2. \A k, l \in DOMAIN toServer' :
          AsksFor(k)' /\ AsksFor(l)' /\ toServer'[k].topic = toServer'[l].topic => k = l
    BY <1>s, <1>f DEF ToServerInv
  <2>3. ASSUME NEW k \in DOMAIN toServer', GivesUp(k)'
        PROVE  /\ active'[toServer'[k].server_id] # None
               /\ \A j \in Entries' : subscriptions'[j].handle # active'[toServer'[k].server_id]
    <3>1. CASE k \in DOMAIN toServer /\ toServer'[k] = toServer[k] /\ GivesUp(k)
      <4>1. ASSUME NEW j \in Entries'
            PROVE  subscriptions'[j].handle # active[toServer[k].server_id]
        BY <3>1, <1>2, <1>f DEF ToServerInv
      <4>2. active[toServer[k].server_id] # None
        BY <3>1, <1>f DEF ToServerInv
      <4> QED BY <3>1, <1>1, <4>1, <4>2
    <3>2. CASE k = m + 1 /\ told /\ toServer'[k].server_id = entry.server_id
      <4>1. active'[toServer'[k].server_id] = entry.handle /\ entry.handle # None
        BY <3>2, <1>r, <1>1
      <4>2. \A j \in Entries' : subscriptions'[j].handle # entry.handle
        BY <1>2, <1>f DEF HandlesInv
      <4> QED BY <4>1, <4>2
    <3> QED BY <3>1, <3>2, <2>3, <1>g
  <2>4. ASSUME NEW k \in DOMAIN toServer', NEW l \in DOMAIN toServer', GivesUp(k)', GivesUp(l)',
               toServer'[k].server_id = toServer'[l].server_id
        PROVE  k = l
    <3>1. \A p \in DOMAIN toServer : GivesUp(p) /\ told => toServer[p].server_id # entry.server_id
      BY <1>r, <1>f DEF ToServerInv
    <3> QED BY <3>1, <2>4, <1>g, <1>f DEF ToServerInv
  <2> QED BY <2>1, <2>2, <2>3, <2>4 DEF ToServerInv
<1>15. ConfirmationsInv'
  <2>1. ASSUME NEW k \in DOMAIN toClient, Confirms(k)
        PROVE  /\ \A j \in Entries' :
                    Waiting(j)' /\ subscriptions'[j].request_id = toClient[k].id =>
                        subscriptions'[j].handle = active[toClient[k].server_id]
               /\ \A j \in Entries' :
                    ~Waiting(j)' => subscriptions'[j].server_id # toClient[k].server_id
               /\ \A l \in DOMAIN toServer' :
                    GivesUp(l)' => toServer'[l].server_id # toClient[k].server_id
    <3>1. told => entry.server_id # toClient[k].server_id
      BY <2>1, <1>f DEF ConfirmationsInv, Waiting
    <3>2. ASSUME NEW j \in Entries'
          PROVE  /\ Waiting(j)' /\ subscriptions'[j].request_id = toClient[k].id =>
                       subscriptions'[j].handle = active[toClient[k].server_id]
                 /\ ~Waiting(j)' => subscriptions'[j].server_id # toClient[k].server_id
      <4>1. From(j, i) \in Entries /\ subscriptions'[j] = subscriptions[From(j, i)]
            /\ Waiting(j)' = Waiting(From(j, i))
        BY <1>2 DEF Waiting
      <4> QED BY <4>1, <2>1, <1>f DEF ConfirmationsInv
    <3>3. ASSUME NEW l \in DOMAIN toServer', GivesUp(l)'
          PROVE  toServer'[l].server_id # toClient[k].server_id
      BY <2>1, <3>1, <3>3, <1>g, <1>f DEF ConfirmationsInv
    <3> QED BY <3>2, <3>3
  <2> QED BY <2>1, <1>1, <1>f DEF ConfirmationsInv, Confirms
<1>k. \A k \in Entries' : \A s, r : KnownAs(From(k, i), s, r) => KnownAs(k, s, r)'
  BY <1>1, <1>2 DEF KnownAs, Waiting, Confirms
<1>16. NotificationsInv'
  <2>1. ASSUME NEW k \in DOMAIN toClient, Notifies(k)
        PROVE  /\ \A j \in Entries' :
                    ~Waiting(j)' /\ subscriptions'[j].server_id = toClient[k].server_id =>
                        subscriptions'[j].handle = toClient[k].topic
               /\ \A j \in Entries' :
                    subscriptions'[j].handle = toClient[k].topic =>
                        KnownAs(j, toClient[k].server_id, k)'
    <3> SUFFICES ASSUME NEW j \in Entries'
                 PROVE  /\ ~Waiting(j)' /\ subscriptions'[j].server_id = toClient[k].server_id =>
                              subscriptions'[j].handle = toClient[k].topic
                        /\ subscriptions'[j].handle = toClient[k].topic =>
                              KnownAs(j, toClient[k].server_id, k)'
      OBVIOUS
    <3>1. From(j, i) \in Entries /\ subscriptions'[j] = subscriptions[From(j, i)]
          /\ Waiting(j)' = Waiting(From(j, i))
      BY <1>2 DEF Waiting
    <3>2. subscriptions'[j].handle = toClient[k].topic => KnownAs(From(j, i), toClient[k].server_id, k)
      BY <3>1, <2>1, <1>f DEF NotificationsInv
    <3>3. KnownAs(From(j, i), toClient[k].server_id, k) => KnownAs(j, toClient[k].server_id, k)'
      BY <1>k, <1>1
    <3> QED BY <3>1, <3>2, <3>3, <2>1, <1>f DEF NotificationsInv
  <2> QED BY <2>1, <1>1, <1>f DEF NotificationsInv, Confirms, Notifies
<1>17. ServerInv'
  <2>1. \A j \in Entries' :
          ~Waiting(j)' => active'[subscriptions'[j].server_id] = subscriptions'[j].handle
    <3> SUFFICES ASSUME NEW j \in Entries', ~Waiting(j)'
                 PROVE  active[subscriptions'[j].server_id] = subscriptions'[j].handle
      BY <1>1
    <3>1. From(j, i) \in Entries /\ subscriptions'[j] = subscriptions[From(j, i)] /\ ~Waiting(From(j, i))
      BY <1>2 DEF Waiting
    <3> QED BY <3>1, <1>f DEF ServerInv
  <2>2. peer => \A s \in ServerIds : \A j \in Entries' :
          active[s] = subscriptions'[j].handle => KnownAs(j, s, Len(toClient) + 1)'
    BY <1>f, <1>1, <1>2, <1>k DEF ServerInv
  <2> QED BY <2>1, <2>2, <1>1, <1>f DEF ServerInv
<1>18. NeverDeaf'
  <2> SUFFICES ASSUME peer, NEW j \in Entries'
               PROVE  \/ ~Waiting(j)' /\ active'[subscriptions'[j].server_id] = subscriptions'[j].handle
                      \/ subscriptions'[j].handle \in rejected'
                      \/ \E k \in DOMAIN toServer' : toServer'[k] = SubscribeMessage(subscriptions'[j])
                      \/ \E k \in DOMAIN toClient' :
                            /\ toClient'[k].kind \in {"confirmed", "rejected", "unusable"}
                            /\ toClient'[k].id = subscriptions'[j].request_id
    BY <1>1 DEF NeverDeaf, Entries, Waiting
  <2>1. From(j, i) \in Entries /\ subscriptions'[j] = subscriptions[From(j, i)]
        /\ subscriptions'[j].handle # entry.handle
    BY <1>2, <1>f DEF HandlesInv
  <2>2. \A k \in DOMAIN toServer : k \in DOMAIN toServer' /\ toServer'[k] = toServer[k]
    BY <1>5, <1>m
  <2> QED BY <2>1, <2>2, <1>1, <1>f, SMTT(30) DEF NeverDeaf, Entries, Waiting
<1> QED BY <1>10, <1>11, <1>12, <1>13, <1>14, <1>15, <1>16, <1>17, <1>18 DEF PubSubInv

-----------------------------------------------------------------------------
(* The registry after its first n entries were asked for anew. *)
LEMMA Asking ==
    ASSUME PubSubInv, IdsSuffice, NEW n \in 0 .. Len(subscriptions)
    PROVE  /\ AskedFor(n) \in Seq(Entry) /\ Len(AskedFor(n)) = Len(subscriptions)
           /\ DOMAIN AskedFor(n) = Entries
           /\ \A i \in Entries :
                 /\ AskedFor(n)[i].handle = subscriptions[i].handle
                 /\ i <= n => /\ AskedFor(n)[i].request_id = (next_request_id + i - 1) % IdSpace
                              /\ AskedFor(n)[i].confirmed = FALSE
           /\ (next_request_id + n) % IdSpace \in RequestIds
<1>1. /\ Entries = 1 .. Len(subscriptions) /\ Len(subscriptions) \in Nat /\ TypeOK
      /\ Len(subscriptions) <= MaxHandles /\ MaxHandles \in Nat /\ IdSpace \in Nat
      /\ \A i \in Entries : subscriptions[i] \in Entry
  BY Facts
<1>2. /\ IdSpace >= 2 * MaxHandles /\ n \in 0 .. IdSpace /\ next_request_id \in RequestIds
      /\ next_request_id \in Int /\ 0 \in ServerIds
  BY <1>1 DEF IdsSuffice, TypeOK, RequestIds, ServerIds
<1>3. (next_request_id + n) % IdSpace \in RequestIds
  BY <1>2, Wraps
<1>4. ASSUME NEW i \in Entries
      PROVE  /\ AskedFor(n)[i] \in Entry
             /\ AskedFor(n)[i].handle = subscriptions[i].handle
             /\ i <= n => /\ AskedFor(n)[i].request_id = (next_request_id + i - 1) % IdSpace
                          /\ AskedFor(n)[i].confirmed = FALSE
  <2>1. subscriptions[i] \in Entry /\ i - 1 \in 0 .. IdSpace /\ i \in Int
        /\ next_request_id + (i - 1) = next_request_id + i - 1
    BY <1>1, <1>2
  <2> DEFINE id == (next_request_id + i - 1) % IdSpace
  <2>2. id \in RequestIds
    BY <2>1, <1>2, Wraps
  <2>3. AskedFor(n)[i] = IF i <= n THEN Requested(subscriptions[i], id) ELSE subscriptions[i]
    BY DEF AskedFor, Entries
  <2> HIDE DEF id
  <2>4. /\ Requested(subscriptions[i], id) \in Entry
        /\ Requested(subscriptions[i], id).handle = subscriptions[i].handle
        /\ Requested(subscriptions[i], id).request_id = id
        /\ Requested(subscriptions[i], id).confirmed = FALSE
    BY <2>1, <2>2, <1>2 DEF Requested, Entry
  <2> QED BY <2>1, <2>3, <2>4 DEF id
<1>5. AskedFor(n) \in [1 .. Len(subscriptions) -> Entry]
  <2>1. AskedFor(n) = [i \in Entries |-> AskedFor(n)[i]]
    BY DEF AskedFor, Entries
  <2> QED BY <2>1, <1>4, <1>1
<1>6. AskedFor(n) \in Seq(Entry) /\ Len(AskedFor(n)) = Len(subscriptions) /\ DOMAIN AskedFor(n) = Entries
  <2>1. ASSUME NEW m \in Nat, NEW f \in [1 .. m -> Entry]
        PROVE  f \in Seq(Entry) /\ Len(f) = m /\ DOMAIN f = 1 .. m
    <3>1. f \in Seq(Entry) /\ DOMAIN f = 1 .. m
      OBVIOUS
    <3>2. Len(f) \in Nat /\ DOMAIN f = 1 .. Len(f)
      BY <3>1, LenProperties
    <3> QED BY <3>1, <3>2
  <2>2. Len(subscriptions) \in Nat /\ Entries = 1 .. Len(subscriptions)
    BY <1>1
  <2>3. /\ AskedFor(n) \in Seq(Entry) /\ Len(AskedFor(n)) = Len(subscriptions)
        /\ DOMAIN AskedFor(n) = 1 .. Len(subscriptions)
    BY <2>1, <2>2, <1>5, Zenon
  <2> QED BY <2>2, <2>3
<1> QED BY <1>3, <1>4, <1>6

(* establish that fails in the middle (pubsub.c:138-144). *)
LEMMA EstablishSendFailsKeeps ==
    ASSUME PubSubInv, IdsSuffice, NEW n \in Entries, EstablishSendFails(n)
    PROVE  PubSubInv'
<1>1. /\ Entries = 1 .. Len(subscriptions) /\ Len(subscriptions) \in Nat /\ Scalars /\ HandlesInv
      /\ next_handle \in 1 .. MaxHandles + 1 /\ Len(subscriptions) <= MaxHandles
  BY Facts
<1>2. n \in 0 .. Len(subscriptions)
  BY <1>1
<1>3. /\ DropConnection(AskedFor(n)) /\ next_request_id' = (next_request_id + n) % IdSpace
      /\ UNCHANGED next_handle
  BY DEF EstablishSendFails
<1>4. Scalars'
  BY <1>1, PubSubAssumption DEF EstablishSendFails, Reconnecting, InPoll, Scalars
<1>5. /\ Len(subscriptions) < next_handle
      /\ \A i \in Entries : subscriptions[i].handle < next_handle
      /\ \A i, j \in Entries : subscriptions[i].handle = subscriptions[j].handle => i = j
  BY <1>1 DEF HandlesInv
<1>6. /\ AskedFor(n) \in Seq(Entry) /\ Len(AskedFor(n)) = Len(subscriptions)
      /\ DOMAIN AskedFor(n) = Entries
      /\ \A i \in Entries : AskedFor(n)[i].handle = subscriptions[i].handle
      /\ (next_request_id + n) % IdSpace \in RequestIds
  BY <1>2, Asking
<1>7. /\ \A i \in DOMAIN AskedFor(n) : AskedFor(n)[i].handle < next_handle'
      /\ \A i, j \in DOMAIN AskedFor(n) : AskedFor(n)[i].handle = AskedFor(n)[j].handle => i = j
  BY <1>3, <1>5, <1>6
<1>8. /\ Len(AskedFor(n)) <= MaxHandles /\ Len(AskedFor(n)) < next_handle'
      /\ next_handle' \in 1 .. MaxHandles + 1 /\ next_request_id' \in RequestIds
  BY <1>1, <1>3, <1>5, <1>6
<1> QED BY <1>3, <1>4, <1>6, <1>7, <1>8, DropKeeps

(* establish (pubsub.c:121-147). *)
LEMMA EstablishKeeps ==
    ASSUME PubSubInv, IdsSuffice, Establish
    PROVE  PubSubInv'
<1> DEFINE n == Len(subscriptions)
<1>f. /\ TypeOK /\ Streams /\ HandlesInv /\ Scalars
      /\ n \in Nat /\ Entries = 1 .. n /\ n <= MaxHandles
      /\ next_handle \in Nat /\ next_handle \in 1 .. MaxHandles + 1
      /\ MaxHandles \in Nat /\ IdSpace \in Nat /\ IdSpace > 0
      /\ \A i \in Entries : subscriptions[i].handle \in Handles
  BY Facts
<1>1. /\ ~ws /\ ws' = TRUE /\ peer' = TRUE /\ subscriptions' = AskedFor(n)
      /\ next_request_id' = (next_request_id + n) % IdSpace
      /\ toServer' = [i \in Entries |-> SubscribeMessage(subscriptions'[i])]
      /\ UNCHANGED <<next_handle, pc, rejected, toClient, active, deaths>>
  BY DEF Establish, Reconnecting, Resubscribed, Entries
<1>2. Scalars'
  BY <1>f, PubSubAssumption DEF Establish, Reconnecting, InPoll, Scalars
<1>3. /\ subscriptions' \in Seq(Entry) /\ Len(subscriptions') = n /\ Entries' = Entries
      /\ \A i \in Entries :
            /\ subscriptions'[i].handle = subscriptions[i].handle
            /\ subscriptions'[i].request_id = (next_request_id + i - 1) % IdSpace
            /\ subscriptions'[i].confirmed = FALSE
      /\ next_request_id' \in RequestIds
  <2>1. n \in 0 .. Len(subscriptions) /\ \A i \in Entries : i <= n
    BY <1>f
  <2> QED BY <2>1, <1>1, Asking DEF Entries
<1>4. ASSUME NEW i \in Entries
      PROVE  /\ SubscribeMessage(subscriptions'[i]) \in Requests
             /\ toServer'[i] = SubscribeMessage(subscriptions'[i])
             /\ toServer'[i].kind = "subscribe" /\ toServer'[i].id = subscriptions'[i].request_id
             /\ toServer'[i].topic = subscriptions'[i].handle
  <2>1. subscriptions'[i] \in Entry
    BY <1>3, <1>f, ElementOfSeq
  <2>2. subscriptions'[i].request_id \in RequestIds /\ subscriptions'[i].handle \in Handles
    BY <2>1 DEF Entry
  <2>3. toServer'[i] = SubscribeMessage(subscriptions'[i])
    BY <1>1
  <2> QED BY <2>2, <2>3 DEF SubscribeMessage, Requests
<1>5. DOMAIN toServer' = Entries /\ toServer' \in Seq(Requests)
  <2>1. toServer' \in [1 .. n -> Requests]
    BY <1>1, <1>4, <1>f
  <2> QED BY <2>1, <1>f
<1>6. /\ toClient' = <<>> /\ DOMAIN toClient' = {}
      /\ \A s \in ServerIds : active'[s] = None
  <2>1. toClient = <<>> /\ \A s \in ServerIds : active[s] = None
    BY <1>1, <1>f DEF Streams
  <2>2. DOMAIN <<>> = {}
    BY EmptySeq
  <2>3. toClient' = <<>> /\ active' = active
    BY <2>1, <1>1
  <2>4. DOMAIN toClient' = {}
    BY <2>2, <2>3, Zenon
  <2> QED BY <2>1, <2>3, <2>4
<1>7. /\ n < next_handle
      /\ \A i \in Entries : subscriptions[i].handle < next_handle
      /\ \A i, j \in Entries : subscriptions[i].handle = subscriptions[j].handle => i = j
  BY <1>f DEF HandlesInv
<1>8. ASSUME NEW i \in Entries, NEW id, id = (next_request_id + i - 1) % IdSpace
      PROVE  Age(id)' = n - i + 1
  <2>1. /\ i \in Nat /\ 1 <= i /\ i <= n /\ n < IdSpace /\ next_request_id \in Nat
        /\ next_request_id < IdSpace /\ next_request_id \in RequestIds
    BY <1>f DEF IdsSuffice, TypeOK, RequestIds
  <2>2. /\ i - 1 \in 0 .. IdSpace /\ n \in 0 .. IdSpace
        /\ next_request_id + (i - 1) = next_request_id + i - 1
    BY <2>1, <1>f
  <2> HIDE DEF n
  <2>3. id = IF next_request_id + i - 1 < IdSpace THEN next_request_id + i - 1
             ELSE next_request_id + i - 1 - IdSpace
    BY <2>1, <2>2, <1>8, <1>f, Wraps
  <2>4. next_request_id' = IF next_request_id + n < IdSpace THEN next_request_id + n
                           ELSE next_request_id + n - IdSpace
    BY <2>1, <2>2, <1>1, <1>f, Wraps
  <2> QED BY <2>1, <2>3, <2>4, <1>f DEF Age
<1>9. \A i \in Entries : Age(subscriptions[i].request_id)' = n - i + 1
  BY <1>3, <1>8 DEF Age
<1>10. \A i \in Entries : Age(subscriptions[i].request_id)' <= Drawn'
  <2>1. Drawn' = 2 * (next_handle - 1) - n
    BY <1>1, <1>3, <1>f DEF Drawn
  <2>2. n <= Drawn' /\ Drawn' \in Int
    BY <2>1, <1>7, <1>f
  <2>3. \A i \in Entries : n - i + 1 <= n /\ n - i + 1 \in Int
    BY <1>f
  <2> QED BY <2>2, <2>3, <1>9, <1>f
<1>11. \A i, j \in Entries : subscriptions'[i].request_id = subscriptions'[j].request_id => i = j
  <2> SUFFICES ASSUME NEW i \in Entries, NEW j \in Entries,
                      subscriptions'[i].request_id = subscriptions'[j].request_id
               PROVE  i = j
    OBVIOUS
  <2>1. n - i + 1 = n - j + 1
    BY <1>9 DEF Age
  <2> QED BY <2>1, <1>f
<1>12. TypeOK'
  <2>1. Registered' = Registered
    BY <1>3 DEF Registered, Entries
  <2> QED BY <2>1, <1>1, <1>2, <1>3, <1>f DEF TypeOK, Scalars
<1>13. Streams'
  BY <1>1, <1>5, <1>6, EmptySeq DEF Streams
<1>14. HandlesInv'
  <2>1. /\ \A i \in Entries' : subscriptions'[i].handle < next_handle'
        /\ \A i, j \in Entries' : subscriptions'[i].handle = subscriptions'[j].handle => i = j
        /\ Len(subscriptions') < next_handle'
    BY <1>1, <1>3, <1>7
  <2>2. \A k \in DOMAIN toServer' : toServer'[k].topic < next_handle'
    BY <1>1, <1>3, <1>4, <1>5, <1>7, SMTT(30)
  <2> QED BY <2>1, <2>2, <1>6 DEF HandlesInv
<1>15. IdsInv'
  <2>1. \A k \in DOMAIN toServer' : Age(toServer[k].id)' <= Drawn'
    BY <1>4, <1>5, <1>10 DEF Age
  <2> QED BY <2>1, <1>3, <1>6, <1>10, <1>11 DEF IdsInv
<1>16. ToServerInv'
  <2>1. \A k \in DOMAIN toServer' : ~GivesUp(k)' /\ k \in Entries
    BY <1>4, <1>5 DEF GivesUp
  <2>2. \A k \in Entries : \A s \in ServerIds : active'[s] # toServer'[k].topic
    BY <1>3, <1>4, <1>6, <1>f, PubSubAssumption DEF Handles
  <2>3. \A k, i \in Entries :
          /\ subscriptions'[i].handle = toServer'[k].topic => i = k
          /\ subscriptions'[i].request_id = toServer'[k].id => i = k
    BY <1>3, <1>4, <1>7, <1>11
  <2>4. \A k \in Entries : Waiting(k)' /\ subscriptions'[k].request_id = toServer'[k].id
                           /\ subscriptions'[k].handle = toServer'[k].topic
    BY <1>3, <1>4 DEF Waiting
  <2>5. \A k, l \in DOMAIN toServer' : toServer'[k].topic = toServer'[l].topic => k = l
    BY <2>3, <2>4, <1>5
  <2>6. \A k \in DOMAIN toServer' :
          /\ \A s \in ServerIds : active'[s] # toServer'[k].topic
          /\ \A i \in Entries' :
                subscriptions'[i].handle = toServer'[k].topic =>
                    Waiting(i)' /\ subscriptions'[i].request_id = toServer'[k].id
          /\ \A i \in Entries' :
                Waiting(i)' /\ subscriptions'[i].request_id = toServer'[k].id =>
                    subscriptions'[i].handle = toServer'[k].topic
    BY <2>1, <2>2, <2>3, <2>4, <1>3
  <2> QED BY <2>1, <2>5, <2>6 DEF ToServerInv
<1>17. ConfirmationsInv' /\ NotificationsInv'
  BY <1>6 DEF ConfirmationsInv, NotificationsInv
<1>18. ServerInv'
  <2>0. \A i \in Entries : subscriptions[i].handle \in Nat
    BY <1>f DEF Handles
  <2>1. \A i \in Entries' : Waiting(i)' /\ subscriptions'[i].handle # None
    BY <2>0, <1>3, PubSubAssumption DEF Waiting
  <2> QED BY <2>1, <1>6 DEF ServerInv
<1>19. NeverDeaf'
  <2>1. \A i \in Entries' : \E k \in DOMAIN toServer' : toServer'[k] = SubscribeMessage(subscriptions'[i])
    BY <1>3, <1>4, <1>5
  <2> QED BY <2>1 DEF NeverDeaf, Entries
<1> QED BY <1>12, <1>13, <1>14, <1>15, <1>16, <1>17, <1>18, <1>19 DEF PubSubInv

-----------------------------------------------------------------------------
(* A message is read: what is left of the stream. *)
LEMMA Reading ==
    ASSUME PubSubInv, toClient # <<>>, toClient' = Tail(toClient)
    PROVE  /\ Len(toClient) >= 1 /\ Head(toClient) = toClient[1] /\ 1 \in DOMAIN toClient
           /\ toClient' \in Seq(Answers) /\ Len(toClient') = Len(toClient) - 1
           /\ DOMAIN toClient' = 1 .. Len(toClient) - 1
           /\ \A k \in DOMAIN toClient' :
                 k + 1 \in DOMAIN toClient /\ toClient'[k] = toClient[k + 1] /\ k \in Nat
           /\ \A k \in DOMAIN toClient : k # 1 => k - 1 \in DOMAIN toClient'
                                               /\ toClient'[k - 1] = toClient[k]
<1>1. /\ toClient \in Seq(Answers) /\ Len(toClient) \in Nat
      /\ DOMAIN toClient = 1 .. Len(toClient)
  BY Facts
<1>2. Len(toClient) >= 1
  BY <1>1, EmptySeq
<1>3. /\ toClient' \in Seq(Answers) /\ Len(toClient') = Len(toClient) - 1
      /\ \A k \in 1 .. Len(toClient) - 1 : toClient'[k] = toClient[k + 1]
  BY <1>1, HeadTailProperties
<1>4. DOMAIN toClient' = 1 .. Len(toClient) - 1
  BY <1>3, LenProperties
<1>5. Head(toClient) = toClient[1]
  BY <1>1, <1>2
<1>6. \A k \in 1 .. Len(toClient) - 1 : k + 1 \in 1 .. Len(toClient) /\ k \in Nat
  BY <1>1
<1>7. \A k \in 1 .. Len(toClient) : k # 1 => k - 1 \in 1 .. Len(toClient) - 1 /\ (k - 1) + 1 = k
  BY <1>1
<1> QED BY <1>1, <1>2, <1>3, <1>4, <1>5, <1>6, <1>7

(* An answer that changes no entry is read: an unsubscribe's, a notification, *)
(* a refusal, or a confirmation nobody waits for (dispatch, pubsub.c:354-417).*)
LEMMA ReadKeeps ==
    ASSUME PubSubInv, toClient # <<>>, toClient' = Tail(toClient), Scalars',
           UNCHANGED <<subscriptions, next_handle, next_request_id, ws, peer, toServer, active>>,
           rejected' \subseteq Registered,
           Confirms(1) => \A i \in Entries : Waiting(i) => subscriptions[i].request_id # toClient[1].id,
           NeverDeaf'
    PROVE  PubSubInv'
<1>f. /\ TypeOK /\ Streams /\ HandlesInv /\ IdsInv /\ ToServerInv /\ ConfirmationsInv
      /\ NotificationsInv /\ ServerInv /\ Len(toClient) \in Nat
      /\ DOMAIN toClient = 1 .. Len(toClient)
  BY Facts
<1>r. /\ toClient' \in Seq(Answers) /\ Len(toClient') = Len(toClient) - 1
      /\ DOMAIN toClient' = 1 .. Len(toClient) - 1 /\ 1 \in DOMAIN toClient
      /\ \A k \in DOMAIN toClient' :
            k + 1 \in DOMAIN toClient /\ toClient'[k] = toClient[k + 1] /\ k \in Nat
      /\ \A k \in DOMAIN toClient : k # 1 => k - 1 \in DOMAIN toClient'
                                          /\ toClient'[k - 1] = toClient[k]
  BY Reading
<1>u. /\ Entries' = Entries /\ \A i \in Entries : Waiting(i)' = Waiting(i)
      /\ Registered' = Registered
      /\ \A k \in DOMAIN toServer : AsksFor(k)' = AsksFor(k) /\ GivesUp(k)' = GivesUp(k)
      /\ \A k \in DOMAIN toClient' : /\ Confirms(k)' = Confirms(k + 1)
                                     /\ Notifies(k)' = Notifies(k + 1)
  BY <1>r DEF Entries, Waiting, Registered, AsksFor, GivesUp, Confirms, Notifies
<1>1. TypeOK'
  BY <1>f, <1>u DEF TypeOK, Scalars
<1>2. Streams'
  <2>1. ws
    BY <1>f DEF Streams
  <2> QED BY <2>1, <1>f, <1>r DEF Streams
<1>3. HandlesInv'
  BY <1>f, <1>r, <1>u DEF HandlesInv
<1>4. IdsInv'
  BY <1>f, <1>r, <1>u DEF IdsInv, Age, Drawn
<1>5. ToServerInv'
  BY <1>f, <1>u DEF ToServerInv
<1>6. ConfirmationsInv'
  <2>1. ASSUME NEW k \in DOMAIN toClient', Confirms(k)'
        PROVE  /\ active'[toClient'[k].server_id] # None
               /\ \A i \in Entries' :
                     Waiting(i)' /\ subscriptions'[i].request_id = toClient'[k].id =>
                         subscriptions'[i].handle = active'[toClient'[k].server_id]
               /\ \A i \in Entries' :
                     ~Waiting(i)' => subscriptions'[i].server_id # toClient'[k].server_id
               /\ \A l \in DOMAIN toServer' :
                     GivesUp(l)' => toServer'[l].server_id # toClient'[k].server_id
    <3>1. k + 1 \in DOMAIN toClient /\ toClient'[k] = toClient[k + 1] /\ Confirms(k + 1)
      BY <2>1, <1>r, <1>u
    <3> QED BY <3>1, <1>f, <1>u DEF ConfirmationsInv
  <2>2. ASSUME NEW k \in DOMAIN toClient', NEW l \in DOMAIN toClient', Confirms(k)', Confirms(l)',
               toClient'[k].server_id = toClient'[l].server_id
        PROVE  k = l
    <3>1. k + 1 = l + 1
      BY <2>2, <1>r, <1>u, <1>f DEF ConfirmationsInv
    <3> QED BY <3>1, <1>r
  <2> QED BY <2>1, <2>2 DEF ConfirmationsInv
<1>k. ASSUME NEW i \in Entries, NEW s, NEW k \in Nat, KnownAs(i, s, k + 1)
      PROVE  KnownAs(i, s, k)'
  <2>1. CASE ~Waiting(i)
    BY <2>1, <1>k, <1>u DEF KnownAs
  <2>2. CASE Waiting(i)
    <3>1. PICK j \in DOMAIN toClient :
             j < k + 1 /\ Confirms(j) /\ toClient[j].server_id = s
                       /\ toClient[j].id = subscriptions[i].request_id
      BY <2>2, <1>k DEF KnownAs
    <3>2. j # 1
      BY <2>2, <3>1
    <3>3. j - 1 \in DOMAIN toClient' /\ toClient'[j - 1] = toClient[j] /\ j - 1 < k
      BY <3>1, <3>2, <1>r, <1>f
    <3>4. Confirms(j - 1)'
      BY <3>1, <3>3 DEF Confirms
    <3> QED BY <2>2, <3>1, <3>3, <3>4, <1>u DEF KnownAs
  <2> QED BY <2>1, <2>2
<1>7. NotificationsInv'
  <2> SUFFICES ASSUME NEW k \in DOMAIN toClient', Notifies(k)'
               PROVE  /\ \A j \in DOMAIN toClient' :
                            j < k /\ Confirms(j)' /\ toClient'[j].server_id = toClient'[k].server_id =>
                                active'[toClient'[k].server_id] = toClient'[k].topic
                      /\ \A i \in Entries' :
                            ~Waiting(i)' /\ subscriptions'[i].server_id = toClient'[k].server_id =>
                                subscriptions'[i].handle = toClient'[k].topic
                      /\ \A i \in Entries' :
                            subscriptions'[i].handle = toClient'[k].topic =>
                                KnownAs(i, toClient[k].server_id, k)'
    BY DEF NotificationsInv
  <2>1. k + 1 \in DOMAIN toClient /\ toClient'[k] = toClient[k + 1] /\ Notifies(k + 1) /\ k \in Nat
    BY <1>r, <1>u
  <2>2. ASSUME NEW j \in DOMAIN toClient', j < k, Confirms(j)',
               toClient'[j].server_id = toClient'[k].server_id
        PROVE  active'[toClient'[k].server_id] = toClient'[k].topic
    <3>1. /\ j + 1 \in DOMAIN toClient /\ j + 1 < k + 1 /\ Confirms(j + 1)
          /\ toClient[j + 1].server_id = toClient[k + 1].server_id
      BY <2>1, <2>2, <1>r, <1>u
    <3> QED BY <3>1, <2>1, <1>f DEF NotificationsInv
  <2>3. \A i \in Entries' :
          ~Waiting(i)' /\ subscriptions'[i].server_id = toClient'[k].server_id =>
              subscriptions'[i].handle = toClient'[k].topic
    BY <2>1, <1>f, <1>u DEF NotificationsInv
  <2>4. ASSUME NEW i \in Entries', subscriptions'[i].handle = toClient'[k].topic
        PROVE  KnownAs(i, toClient[k].server_id, k)'
    <3>1. i \in Entries /\ KnownAs(i, toClient[k + 1].server_id, k + 1)
      BY <2>1, <2>4, <1>f, <1>u DEF NotificationsInv
    <3>2. ASSUME NEW s, s = toClient[k + 1].server_id PROVE KnownAs(i, s, k)'
      BY <3>1, <3>2, <2>1, <1>k
    <3> QED BY <3>2, <2>1
  <2> QED BY <2>2, <2>3, <2>4
<1>8. ServerInv'
  <2>1. ASSUME peer, NEW s \in ServerIds, NEW i \in Entries, active[s] = subscriptions[i].handle
        PROVE  KnownAs(i, s, Len(toClient) + 1)'
    <3>1. KnownAs(i, s, Len(toClient) + 1)
      BY <2>1, <1>f DEF ServerInv
    <3>2. ASSUME NEW k, k = Len(toClient) PROVE KnownAs(i, s, k)'
      BY <3>1, <3>2, <1>f, <1>k
    <3>3. Len(toClient') + 1 = Len(toClient)
      BY <1>r, <1>f
    <3> QED BY <3>2, <3>3
  <2> QED BY <2>1, <1>f, <1>u DEF ServerInv
<1> QED BY <1>1, <1>2, <1>3, <1>4, <1>5, <1>6, <1>7, <1>8 DEF PubSubInv

(* find_by_request and find_by_server_id (pubsub.c:329-347) find an entry if  *)
(* there is one.                                                              *)
LEMMA FirstFound ==
    ASSUME NEW matches, matches \subseteq Nat \ {0}
    PROVE  /\ First(matches) = 0 => matches = {}
           /\ First(matches) # 0 => First(matches) \in matches
<1>1. CASE matches = {}
  BY <1>1 DEF First
<1>2. CASE matches # {}
  <2>1. \E i \in matches : \A j \in matches : i <= j
    BY <1>2, LeastNatural
  <2>2. First(matches) \in matches
    BY <1>2, <2>1 DEF First
  <2> QED BY <2>2
<1> QED BY <1>1, <1>2

(* The entry a confirmation or a refusal is for waits for its id.             *)
LEMMA FoundByRequest ==
    ASSUME PubSubInv, NEW id
    PROVE  /\ FindByRequest(id) = 0 =>
                 \A i \in Entries : Waiting(i) => subscriptions[i].request_id # id
           /\ FindByRequest(id) # 0 =>
                 /\ FindByRequest(id) \in Entries /\ Waiting(FindByRequest(id))
                 /\ subscriptions[FindByRequest(id)].request_id = id
<1> DEFINE matches == {i \in DOMAIN subscriptions :
                         ~subscriptions[i].confirmed /\ subscriptions[i].request_id = id}
<1>1. Entries = 1 .. Len(subscriptions) /\ Len(subscriptions) \in Nat
  BY Facts
<1>2. matches \subseteq Nat \ {0}
  BY <1>1 DEF Entries
<1>3. FindByRequest(id) = First(matches)
  BY DEF FindByRequest
<1> QED BY <1>2, <1>3, FirstFound DEF Entries, Waiting

(* The entry a notification goes to is confirmed under its id.                *)
LEMMA FoundByServerId ==
    ASSUME PubSubInv, NEW id
    PROVE  /\ FindByServerId(id) = 0 =>
                 \A i \in Entries : ~Waiting(i) => subscriptions[i].server_id # id
           /\ FindByServerId(id) # 0 =>
                 /\ FindByServerId(id) \in Entries /\ ~Waiting(FindByServerId(id))
                 /\ subscriptions[FindByServerId(id)].server_id = id
<1> DEFINE matches == {i \in DOMAIN subscriptions :
                         subscriptions[i].confirmed /\ subscriptions[i].server_id = id}
<1>1. Entries = 1 .. Len(subscriptions) /\ Len(subscriptions) \in Nat
  BY Facts
<1>2. matches \subseteq Nat \ {0}
  BY <1>1 DEF Entries
<1>3. FindByServerId(id) = First(matches)
  BY DEF FindByServerId
<1> QED BY <1>2, <1>3, FirstFound DEF Entries, Waiting

(* What NeverDeaf says of one entry. *)
Heard(i) ==
    \/ ~Waiting(i) /\ active[subscriptions[i].server_id] = subscriptions[i].handle
    \/ subscriptions[i].handle \in rejected
    \/ \E k \in DOMAIN toServer : toServer[k] = SubscribeMessage(subscriptions[i])
    \/ \E k \in DOMAIN toClient :
         /\ toClient[k].kind \in {"confirmed", "rejected", "unusable"}
         /\ toClient[k].id = subscriptions[i].request_id

(* NeverDeaf, entry by entry, in this state and in the next.                  *)
LEMMA HeardAll == NeverDeaf <=> (peer => \A i \in Entries : Heard(i))
BY DEF NeverDeaf, Heard, Entries, Waiting

(* The same for the state after a step.                                       *)
LEMMA HeardAllNext == NeverDeaf' <=> (peer' => \A i \in Entries' : Heard(i)')
BY DEF NeverDeaf, Heard, Entries, Waiting

(* dispatch of everything but a confirmation somebody waits for. *)
LEMMA DispatchKeeps ==
    ASSUME PubSubInv, RecvIgnored \/ RecvNotification \/ RecvRejected \/ RecvUnusable
                      \/ (RecvConfirmed /\ FindByRequest(Head(toClient).id) = 0)
    PROVE  PubSubInv'
<1>f. TypeOK /\ Scalars /\ NeverDeaf /\ IdsInv /\ ServerInv
  BY Facts
<1>1. /\ toClient # <<>> /\ toClient' = Tail(toClient) /\ ws
      /\ UNCHANGED <<subscriptions, next_handle, next_request_id, ws, peer, toServer, active>>
  BY DEF RecvIgnored, RecvNotification, RecvRejected, RecvUnusable, RecvConfirmed, Recv
<1>2. Scalars'
  BY <1>f, PubSubAssumption, SMTT(30)
  DEF RecvIgnored, RecvNotification, RecvRejected, RecvUnusable, RecvConfirmed, Recv, Scalars, InPoll
<1>r. /\ Head(toClient) = toClient[1] /\ 1 \in DOMAIN toClient
      /\ \A k \in DOMAIN toClient : k # 1 => k - 1 \in DOMAIN toClient'
                                          /\ toClient'[k - 1] = toClient[k]
  BY <1>1, Reading
<1> DEFINE i == FindByRequest(toClient[1].id)
<1>3. rejected' = (IF (RecvRejected \/ RecvUnusable) /\ i # 0 THEN rejected \cup {subscriptions[i].handle} ELSE rejected)
  BY <1>r DEF RecvIgnored, RecvNotification, RecvRejected, RecvUnusable, RecvConfirmed, Recv
<1>4. /\ i = 0 => \A j \in Entries : Waiting(j) => subscriptions[j].request_id # toClient[1].id
      /\ i # 0 => i \in Entries /\ Waiting(i) /\ subscriptions[i].request_id = toClient[1].id
  BY FoundByRequest
<1>5. rejected' \subseteq Registered
  BY <1>3, <1>4, <1>f DEF TypeOK, Registered, Entries
<1>6. Confirms(1) => i = 0
  BY <1>r DEF RecvIgnored, RecvNotification, RecvRejected, RecvUnusable, RecvConfirmed, Recv, Confirms
<1>7. toClient[1].kind \in {"rejected", "unusable"} => RecvRejected \/ RecvUnusable
  BY <1>r DEF RecvIgnored, RecvNotification, RecvRejected, RecvUnusable, RecvConfirmed, Recv
<1> HIDE DEF i
<1>8. NeverDeaf'
  <2> SUFFICES ASSUME peer, NEW j \in Entries PROVE Heard(j)'
    BY <1>1, HeardAllNext DEF Entries
  <2>1. Heard(j)
    BY <1>f, HeardAll
  <2>2. CASE ~Waiting(j)
    BY <2>2, <1>f, <1>1 DEF Heard, Waiting, ServerInv
  <2>3. CASE Waiting(j) /\ subscriptions[j].handle \in rejected
    BY <2>3, <1>1, <1>3 DEF Heard
  <2>4. CASE \E k \in DOMAIN toServer : toServer[k] = SubscribeMessage(subscriptions[j])
    BY <2>4, <1>1 DEF Heard
  <2>5. ASSUME Waiting(j), NEW k \in DOMAIN toClient, toClient[k].kind \in {"confirmed", "rejected", "unusable"},
               toClient[k].id = subscriptions[j].request_id
        PROVE  Heard(j)'
    <3>1. CASE k # 1
      BY <3>1, <2>5, <1>1, <1>r DEF Heard
    <3>2. CASE k = 1
      <4>1. i # 0 /\ i \in Entries /\ Waiting(i) /\ subscriptions[i].request_id = subscriptions[j].request_id
        BY <3>2, <2>5, <1>4
      <4>2. i = j
        BY <4>1, <2>5, <1>1, <1>f DEF IdsInv
      <4>3. RecvRejected \/ RecvUnusable
        BY <4>1, <3>2, <2>5, <1>6, <1>7 DEF Confirms
      <4> QED BY <4>1, <4>2, <4>3, <1>1, <1>3 DEF Heard
    <3> QED BY <3>1, <3>2
  <2> QED BY <2>1, <2>2, <2>3, <2>4, <2>5 DEF Heard
<1> QED BY <1>1, <1>2, <1>4, <1>5, <1>6, <1>8, ReadKeeps

(* dispatch of a confirmation for an entry that waits for it.                 *)
LEMMA ConfirmKeeps ==
    ASSUME PubSubInv, RecvConfirmed, FindByRequest(Head(toClient).id) # 0
    PROVE  PubSubInv'
<1>i. PICK i : i = FindByRequest(toClient[1].id)
  OBVIOUS
<1> DEFINE sid == toClient[1].server_id
           new == [subscriptions[i] EXCEPT !.server_id = sid, !.confirmed = TRUE]
<1>f. /\ TypeOK /\ Streams /\ HandlesInv /\ IdsInv /\ ToServerInv /\ ConfirmationsInv
      /\ NotificationsInv /\ ServerInv /\ NeverDeaf /\ Scalars
      /\ Len(toClient) \in Nat /\ DOMAIN toClient = 1 .. Len(toClient)
      /\ subscriptions \in Seq(Entry) /\ Len(subscriptions) \in Nat
      /\ Entries = 1 .. Len(subscriptions) /\ Len(subscriptions) <= MaxHandles
  BY Facts
<1>1. /\ toClient # <<>> /\ toClient' = Tail(toClient) /\ ws /\ Head(toClient).kind = "confirmed"
      /\ UNCHANGED <<next_handle, next_request_id, ws, peer, toServer, active, rejected>>
  BY DEF RecvConfirmed, Recv
<1>2. Scalars'
  BY <1>f, PubSubAssumption, SMTT(30) DEF RecvConfirmed, Recv, Scalars, InPoll
<1>r. /\ Head(toClient) = toClient[1] /\ 1 \in DOMAIN toClient
      /\ toClient' \in Seq(Answers) /\ Len(toClient') = Len(toClient) - 1
      /\ DOMAIN toClient' = 1 .. Len(toClient) - 1
      /\ \A k \in DOMAIN toClient' :
            k + 1 \in DOMAIN toClient /\ toClient'[k] = toClient[k + 1] /\ k \in Nat
      /\ \A k \in DOMAIN toClient : k # 1 => k - 1 \in DOMAIN toClient'
                                          /\ toClient'[k - 1] = toClient[k]
  BY <1>1, Reading
<1>3. i \in Entries /\ Waiting(i) /\ subscriptions[i].request_id = toClient[1].id
  BY <1>i, <1>r, FoundByRequest
<1>4. Confirms(1) /\ sid \in ServerIds
  BY <1>1, <1>r, <1>f, MessageType DEF Confirms
<1>5. /\ subscriptions' = [subscriptions EXCEPT ![i] = new]
  <2>1. subscriptions' = [subscriptions EXCEPT ![i].server_id = sid, ![i].confirmed = TRUE]
    BY <1>i, <1>r DEF RecvConfirmed
  <2>2. i \in DOMAIN subscriptions
    BY <1>3 DEF Entries
  <2> QED BY <2>1, <2>2
<1>6. /\ new \in Entry /\ new.handle = subscriptions[i].handle
      /\ new.request_id = subscriptions[i].request_id
      /\ new.server_id = sid /\ new.confirmed = TRUE
  <2>1. subscriptions[i] \in Entry
    BY <1>3, Facts
  <2> QED BY <2>1, <1>4 DEF Entry
<1> HIDE DEF new
<1>7. /\ subscriptions' \in Seq(Entry) /\ Len(subscriptions') = Len(subscriptions)
      /\ Entries' = Entries /\ subscriptions'[i] = new
      /\ \A j \in Entries : j # i => subscriptions'[j] = subscriptions[j]
  <2>1. /\ subscriptions' \in Seq(Entry) /\ Len(subscriptions') = Len(subscriptions)
        /\ \A j \in 1 .. Len(subscriptions) :
              subscriptions'[j] = IF j = i THEN new ELSE subscriptions[j]
    BY <1>3, <1>5, <1>6, <1>f, ExceptSeq
  <2>2. Entries' = 1 .. Len(subscriptions)
    BY <2>1, LenProperties DEF Entries
  <2> QED BY <2>1, <2>2, <1>3, <1>f
<1>w. /\ ~Waiting(i)' /\ subscriptions'[i].server_id = sid
      /\ \A j \in Entries : j # i => Waiting(j)' = Waiting(j)
      /\ \A j \in Entries : /\ subscriptions'[j].handle = subscriptions[j].handle
                            /\ subscriptions'[j].request_id = subscriptions[j].request_id
  BY <1>6, <1>7 DEF Waiting
<1>a. /\ active[sid] = subscriptions[i].handle /\ active[sid] # None
      /\ \A j \in Entries : ~Waiting(j) => subscriptions[j].server_id # sid
      /\ \A k \in DOMAIN toClient : Confirms(k) /\ toClient[k].server_id = sid => k = 1
  BY <1>3, <1>4, <1>r, <1>f DEF ConfirmationsInv
<1>u. /\ \A k \in DOMAIN toServer : AsksFor(k)' = AsksFor(k) /\ GivesUp(k)' = GivesUp(k)
      /\ \A k \in DOMAIN toClient' : /\ Confirms(k)' = Confirms(k + 1)
                                     /\ Notifies(k)' = Notifies(k + 1)
  BY <1>r, <1>1 DEF AsksFor, GivesUp, Confirms, Notifies
<1>10. TypeOK'
  <2>1. Registered' = Registered
    BY <1>7, <1>w DEF Registered, Entries
  <2> QED BY <2>1, <1>1, <1>2, <1>7, <1>f DEF TypeOK, Scalars
<1>11. Streams'
  BY <1>1, <1>f, <1>r DEF Streams
<1>12. HandlesInv'
  <2>1. /\ Len(subscriptions') < next_handle'
        /\ \A j \in Entries' : subscriptions'[j].handle < next_handle'
        /\ \A j, l \in Entries' : subscriptions'[j].handle = subscriptions'[l].handle => j = l
    <3>1. /\ Len(subscriptions) < next_handle
          /\ \A j \in Entries : subscriptions[j].handle < next_handle
          /\ \A j, l \in Entries : subscriptions[j].handle = subscriptions[l].handle => j = l
      BY <1>f DEF HandlesInv
    <3>2. \A j \in Entries' : j \in Entries /\ subscriptions'[j].handle = subscriptions[j].handle
      BY <1>7, <1>w
    <3> QED BY <3>1, <3>2, <1>1, <1>7
  <2>2. \A k \in DOMAIN toClient' : Notifies(k)' => toClient'[k].topic < next_handle'
    BY <1>1, <1>r, <1>u, <1>f DEF HandlesInv
  <2> QED BY <2>1, <2>2, <1>1, <1>u, <1>f DEF HandlesInv
<1>13. IdsInv'
  <2>1. /\ Drawn' = Drawn /\ \A id : Age(id)' = Age(id)
    BY <1>1, <1>7 DEF Drawn, Age
  <2>2. ASSUME NEW j \in Entries', Waiting(j)'
        PROVE  /\ j \in Entries /\ Waiting(j) /\ Age(subscriptions[j].request_id)' <= Drawn'
               /\ subscriptions'[j].request_id = subscriptions[j].request_id
    <3>1. j \in Entries /\ Waiting(j) /\ subscriptions'[j].request_id = subscriptions[j].request_id
      BY <2>2, <1>7, <1>w
    <3>2. Age(subscriptions[j].request_id) <= Drawn
      BY <3>1, <1>1, <1>f DEF IdsInv
    <3> QED BY <3>1, <3>2, <2>1 DEF Age
  <2>3. \A k \in DOMAIN toServer' : AsksFor(k)' => Age(toServer[k].id)' <= Drawn'
    BY <2>1, <1>1, <1>u, <1>f DEF IdsInv, Age
  <2>4. ASSUME NEW k \in DOMAIN toClient', Confirms(k)' PROVE Age(toClient[k].id)' <= Drawn'
    <3>1. k + 1 \in DOMAIN toClient /\ toClient'[k] = toClient[k + 1] /\ Confirms(k + 1)
      BY <2>4, <1>r, <1>u
    <3>2. Age(toClient[k + 1].id) <= Drawn
      BY <3>1, <1>1, <1>f DEF IdsInv
    <3> QED BY <3>1, <3>2, <2>1 DEF Age
  <2>5. \A j, l \in Entries' :
            /\ Waiting(j)' /\ Waiting(l)'
            /\ subscriptions'[j].request_id = subscriptions'[l].request_id
            => j = l
    BY <2>2, <1>1, <1>f DEF IdsInv
  <2> QED BY <2>2, <2>3, <2>4, <2>5 DEF IdsInv
<1>14. ToServerInv'
  <2>1. ASSUME NEW k \in DOMAIN toServer, AsksFor(k)
        PROVE  /\ \A s \in ServerIds : active[s] # toServer[k].topic
               /\ \A j \in Entries :
                     subscriptions'[j].handle = toServer[k].topic =>
                         Waiting(j)' /\ subscriptions'[j].request_id = toServer[k].id
               /\ \A j \in Entries :
                     Waiting(j)' /\ subscriptions'[j].request_id = toServer[k].id =>
                         subscriptions'[j].handle = toServer[k].topic
    <3>1. \A s \in ServerIds : active[s] # toServer[k].topic
      BY <2>1, <1>f DEF ToServerInv
    <3>2. subscriptions[i].handle # toServer[k].topic
      BY <3>1, <1>a, <1>4
    <3>3. ASSUME NEW j \in Entries
          PROVE  /\ subscriptions'[j].handle = toServer[k].topic =>
                      Waiting(j)' /\ subscriptions'[j].request_id = toServer[k].id
                 /\ Waiting(j)' /\ subscriptions'[j].request_id = toServer[k].id =>
                      subscriptions'[j].handle = toServer[k].topic
      <4>1. CASE j = i
        BY <4>1, <3>2, <1>w
      <4>2. CASE j # i
        BY <4>2, <2>1, <1>w, <1>f DEF ToServerInv
      <4> QED BY <4>1, <4>2
    <3> QED BY <3>1, <3>3
  <2>2. \A k \in DOMAIN toServer : GivesUp(k) =>
          /\ active[toServer[k].server_id] # None
          /\ \A j \in Entries : subscriptions'[j].handle # active[toServer[k].server_id]
    BY <1>w, <1>f DEF ToServerInv
  <2> QED BY <2>1, <2>2, <1>1, <1>u, <1>7, <1>f DEF ToServerInv
<1>15. ConfirmationsInv'
  <2>1. ASSUME NEW k \in DOMAIN toClient', Confirms(k)'
        PROVE  /\ active'[toClient'[k].server_id] # None
               /\ \A j \in Entries' :
                     Waiting(j)' /\ subscriptions'[j].request_id = toClient'[k].id =>
                         subscriptions'[j].handle = active'[toClient'[k].server_id]
               /\ \A j \in Entries' :
                     ~Waiting(j)' => subscriptions'[j].server_id # toClient'[k].server_id
               /\ \A l \in DOMAIN toServer' :
                     GivesUp(l)' => toServer'[l].server_id # toClient'[k].server_id
    <3>1. k + 1 \in DOMAIN toClient /\ toClient'[k] = toClient[k + 1] /\ Confirms(k + 1) /\ k + 1 # 1
      BY <2>1, <1>r, <1>u
    <3>2. toClient[k + 1].server_id # sid
      BY <3>1, <1>a
    <3>3. ASSUME NEW j \in Entries
          PROVE  /\ Waiting(j)' /\ subscriptions'[j].request_id = toClient[k + 1].id =>
                       subscriptions'[j].handle = active[toClient[k + 1].server_id]
                 /\ ~Waiting(j)' => subscriptions'[j].server_id # toClient[k + 1].server_id
      <4>1. CASE j = i
        BY <4>1, <3>2, <1>w
      <4>2. CASE j # i
        BY <4>2, <3>1, <1>w, <1>7, <1>f DEF ConfirmationsInv
      <4> QED BY <4>1, <4>2
    <3>4. /\ active[toClient[k + 1].server_id] # None
          /\ \A l \in DOMAIN toServer : GivesUp(l) => toServer[l].server_id # toClient[k + 1].server_id
      BY <3>1, <1>f DEF ConfirmationsInv
    <3> QED BY <3>1, <3>3, <3>4, <1>1, <1>7, <1>u
  <2>2. ASSUME NEW k \in DOMAIN toClient', NEW l \in DOMAIN toClient', Confirms(k)', Confirms(l)',
               toClient'[k].server_id = toClient'[l].server_id
        PROVE  k = l
    <3>1. k + 1 = l + 1
      BY <2>2, <1>r, <1>u, <1>f DEF ConfirmationsInv
    <3> QED BY <3>1, <1>r
  <2> QED BY <2>1, <2>2 DEF ConfirmationsInv
<1>k. ASSUME NEW j \in Entries, NEW s \in ServerIds, NEW k \in Nat, KnownAs(j, s, k + 1)
      PROVE  KnownAs(j, s, k)'
  <2>1. CASE ~Waiting(j)
    <3>1. j # i /\ subscriptions[j].server_id = s
      BY <2>1, <1>3, <1>k DEF KnownAs
    <3> QED BY <2>1, <3>1, <1>7, <1>w DEF KnownAs
  <2>2. CASE Waiting(j)
    <3>1. PICK p \in DOMAIN toClient :
             p < k + 1 /\ Confirms(p) /\ toClient[p].server_id = s
                       /\ toClient[p].id = subscriptions[j].request_id
      BY <2>2, <1>k DEF KnownAs
    <3>2. CASE j = i
      <4>1. active[s] = subscriptions[i].handle
        BY <3>1, <3>2, <1>3, <1>f DEF ConfirmationsInv
      <4>2. s = sid
        BY <4>1, <1>a, <1>4, <1>f DEF ServerInv
      <4> QED BY <4>2, <3>2, <1>w DEF KnownAs
    <3>3. CASE j # i
      <4>1. p # 1
        BY <3>1, <3>3, <2>2, <1>3, <1>1, <1>f DEF IdsInv
      <4>2. p - 1 \in DOMAIN toClient' /\ toClient'[p - 1] = toClient[p] /\ p - 1 < k
        BY <3>1, <4>1, <1>r, <1>f
      <4>3. Confirms(p - 1)'
        BY <3>1, <4>2 DEF Confirms
      <4> QED BY <2>2, <3>1, <3>3, <4>2, <4>3, <1>w DEF KnownAs
    <3> QED BY <3>2, <3>3
  <2> QED BY <2>1, <2>2
<1>16. NotificationsInv'
  <2> SUFFICES ASSUME NEW k \in DOMAIN toClient', Notifies(k)'
               PROVE  /\ \A j \in DOMAIN toClient' :
                            j < k /\ Confirms(j)' /\ toClient'[j].server_id = toClient'[k].server_id =>
                                active'[toClient'[k].server_id] = toClient'[k].topic
                      /\ \A j \in Entries' :
                            ~Waiting(j)' /\ subscriptions'[j].server_id = toClient'[k].server_id =>
                                subscriptions'[j].handle = toClient'[k].topic
                      /\ \A j \in Entries' :
                            subscriptions'[j].handle = toClient'[k].topic =>
                                KnownAs(j, toClient[k].server_id, k)'
    BY DEF NotificationsInv
  <2>1. k + 1 \in DOMAIN toClient /\ toClient'[k] = toClient[k + 1] /\ Notifies(k + 1) /\ k \in Nat
    BY <1>r, <1>u
  <2>0. toClient[k + 1].server_id \in ServerIds
    BY <2>1, <1>f, MessageType
  <2>2. ASSUME NEW j \in DOMAIN toClient', j < k, Confirms(j)',
               toClient'[j].server_id = toClient'[k].server_id
        PROVE  active'[toClient'[k].server_id] = toClient'[k].topic
    <3>1. /\ j + 1 \in DOMAIN toClient /\ j + 1 < k + 1 /\ Confirms(j + 1)
          /\ toClient[j + 1].server_id = toClient[k + 1].server_id
      BY <2>1, <2>2, <1>r, <1>u
    <3> QED BY <3>1, <2>1, <1>1, <1>f DEF NotificationsInv
  <2>3. ASSUME NEW j \in Entries, ~Waiting(j)', subscriptions'[j].server_id = toClient'[k].server_id
        PROVE  subscriptions'[j].handle = toClient'[k].topic
    <3>1. CASE j = i
      <4>1. 1 < k + 1 /\ toClient[1].server_id = toClient[k + 1].server_id
        BY <3>1, <2>1, <2>3, <1>w, <1>r
      <4>2. active[sid] = toClient[k + 1].topic
        BY <4>1, <2>1, <1>4, <1>r, <1>f DEF NotificationsInv
      <4> QED BY <3>1, <4>2, <2>1, <1>a, <1>w
    <3>2. CASE j # i
      BY <3>2, <2>1, <2>3, <1>w, <1>7, <1>f DEF NotificationsInv
    <3> QED BY <3>1, <3>2
  <2>4. ASSUME NEW j \in Entries, subscriptions'[j].handle = toClient'[k].topic
        PROVE  KnownAs(j, toClient[k].server_id, k)'
    <3>1. KnownAs(j, toClient[k + 1].server_id, k + 1)
      BY <2>1, <2>4, <1>f, <1>w DEF NotificationsInv
    <3>2. ASSUME NEW s, s = toClient[k + 1].server_id PROVE KnownAs(j, s, k)'
      BY <3>1, <3>2, <2>0, <2>1, <1>k
    <3> QED BY <3>2, <2>1
  <2> QED BY <2>2, <2>3, <2>4, <1>7
<1>17. ServerInv'
  <2>1. ASSUME peer, NEW s \in ServerIds, NEW j \in Entries, active[s] = subscriptions'[j].handle
        PROVE  KnownAs(j, s, Len(toClient) + 1)'
    <3>1. KnownAs(j, s, Len(toClient) + 1)
      BY <2>1, <1>f, <1>w DEF ServerInv
    <3>2. ASSUME NEW k, k = Len(toClient) PROVE KnownAs(j, s, k)'
      BY <3>1, <3>2, <1>f, <1>k
    <3>3. Len(toClient') + 1 = Len(toClient)
      BY <1>r, <1>f
    <3> QED BY <3>2, <3>3
  <2>2. ASSUME NEW j \in Entries, ~Waiting(j)'
        PROVE  active[subscriptions'[j].server_id] = subscriptions'[j].handle
    <3>1. CASE j = i
      BY <3>1, <1>a, <1>w
    <3>2. CASE j # i
      BY <3>2, <2>2, <1>w, <1>7, <1>f DEF ServerInv
    <3> QED BY <3>1, <3>2
  <2> QED BY <2>1, <2>2, <1>1, <1>7, <1>f DEF ServerInv
<1>18. NeverDeaf'
  <2> SUFFICES ASSUME peer, NEW j \in Entries PROVE Heard(j)'
    BY <1>1, <1>7, HeardAllNext
  <2>1. Heard(j)
    BY <1>f, HeardAll
  <2>2. CASE j = i
    BY <2>2, <1>w, <1>a, <1>1 DEF Heard
  <2>3. CASE j # i
    <3>1. subscriptions'[j] = subscriptions[j] /\ Waiting(j)' = Waiting(j)
      BY <2>3, <1>7, <1>w
    <3>2. CASE ~Waiting(j)
      BY <3>1, <3>2, <1>f, <1>1 DEF Heard, ServerInv
    <3>3. ASSUME Waiting(j), NEW k \in DOMAIN toClient, toClient[k].kind \in {"confirmed", "rejected", "unusable"},
                 toClient[k].id = subscriptions[j].request_id
          PROVE  Heard(j)'
      <4>1. k # 1
        BY <3>3, <2>3, <1>3, <1>1, <1>f DEF IdsInv
      <4> QED BY <4>1, <3>1, <3>3, <1>1, <1>r, ZenonT(60) DEF Heard
    <3>4. CASE subscriptions[j].handle \in rejected \/ \E k \in DOMAIN toServer : toServer[k] = SubscribeMessage(subscriptions[j])
      BY <3>1, <3>4, <1>1 DEF Heard
    <3> QED BY <2>1, <3>2, <3>3, <3>4 DEF Heard
  <2> QED BY <2>2, <2>3
<1> QED BY <1>10, <1>11, <1>12, <1>13, <1>14, <1>15, <1>16, <1>17, <1>18 DEF PubSubInv

-----------------------------------------------------------------------------
(* The streams of a connection whose other end is gone: nothing reaches the   *)
(* server any more, and what it sent may be lost.                             *)
LEMMA LossKeeps ==
    ASSUME PubSubInv, RecvTooLong \/ PeerDies
    PROVE  PubSubInv'
<1>f. /\ TypeOK /\ Streams /\ HandlesInv /\ IdsInv /\ ToServerInv /\ ConfirmationsInv
      /\ NotificationsInv /\ ServerInv /\ Scalars
  BY Facts
<1>1. /\ ws /\ peer' = FALSE /\ toServer' = <<>> /\ toClient' \in {<<>>, toClient}
      /\ UNCHANGED <<subscriptions, next_handle, next_request_id, ws, active, rejected>>
  BY <1>f DEF RecvTooLong, PeerDies, client, TypeOK
<1>2. Scalars'
  BY <1>f, PubSubAssumption DEF RecvTooLong, PeerDies, client, Scalars, InPoll
<1>3. DOMAIN <<>> = {}
  BY EmptySeq
<1>4. DOMAIN toServer' = {} /\ (DOMAIN toClient' = {} \/ toClient' = toClient)
  BY <1>1, <1>3, Zenon
<1>u. /\ Entries' = Entries /\ Registered' = Registered
      /\ \A i \in Entries : Waiting(i)' = Waiting(i)
      /\ toClient' = toClient => \A k \in DOMAIN toClient : /\ Confirms(k)' = Confirms(k)
                                                            /\ Notifies(k)' = Notifies(k)
  BY <1>1 DEF Entries, Registered, Waiting, Confirms, Notifies
<1>5. TypeOK'
  BY <1>1, <1>2, <1>f, <1>u DEF TypeOK, Scalars
<1>6. Streams'
  BY <1>1, <1>f, EmptySeq DEF Streams
<1>7. HandlesInv'
  BY <1>1, <1>4, <1>u, <1>f DEF HandlesInv
<1>8. IdsInv'
  BY <1>1, <1>4, <1>u, <1>f DEF IdsInv, Age, Drawn
<1>9. ToServerInv'
  BY <1>4 DEF ToServerInv
<1>10. ConfirmationsInv'
  BY <1>1, <1>4, <1>u, <1>f DEF ConfirmationsInv
<1>11. NotificationsInv'
  <2>1. CASE DOMAIN toClient' = {}
    BY <2>1 DEF NotificationsInv
  <2>2. CASE toClient' = toClient
    BY <2>2, <1>1, <1>u, <1>f DEF NotificationsInv, KnownAs
  <2> QED BY <2>1, <2>2, <1>4
<1>12. ServerInv' /\ NeverDeaf'
  BY <1>1, <1>u, <1>f DEF ServerInv, NeverDeaf
<1> QED BY <1>5, <1>6, <1>7, <1>8, <1>9, <1>10, <1>11, <1>12 DEF PubSubInv

(* The connection is given up while polling, or closed. *)
LEMMA GiveUpKeeps ==
    ASSUME PubSubInv, DropConnection(subscriptions) \/ DropConnection(<<>>), Scalars',
           UNCHANGED <<next_handle, next_request_id>>
    PROVE  PubSubInv'
<1>f. /\ TypeOK /\ HandlesInv /\ subscriptions \in Seq(Entry) /\ Len(subscriptions) <= MaxHandles
      /\ next_handle \in 1 .. MaxHandles + 1 /\ MaxHandles \in Nat /\ next_handle \in Nat
  BY Facts
<1>1. CASE DropConnection(subscriptions)
  <2>1. /\ Len(subscriptions) < next_handle' /\ next_handle' \in 1 .. MaxHandles + 1
        /\ next_request_id' \in RequestIds
        /\ \A i \in DOMAIN subscriptions : subscriptions[i].handle < next_handle'
        /\ \A i, j \in DOMAIN subscriptions : subscriptions[i].handle = subscriptions[j].handle => i = j
    BY <1>f DEF HandlesInv, TypeOK, Entries
  <2> QED BY <1>1, <1>f, <2>1, DropKeeps
<1>2. CASE DropConnection(<<>>)
  <2>1. /\ <<>> \in Seq(Entry) /\ Len(<<>>) = 0 /\ DOMAIN <<>> = {}
    BY EmptySeq
  <2>2. /\ Len(<<>>) <= MaxHandles /\ Len(<<>>) < next_handle' /\ next_handle' \in 1 .. MaxHandles + 1
        /\ next_request_id' \in RequestIds
    BY <2>1, <1>f DEF TypeOK
  <2> QED BY <1>2, <2>1, <2>2, DropKeeps
<1> QED BY <1>1, <1>2

-----------------------------------------------------------------------------
(* The server answers its oldest request: the streams, and the parts of the   *)
(* invariant that do not depend on what it answers.                           *)
LEMMA Answering ==
    ASSUME PubSubInv, NEW msg \in Answers, Answer(msg),
           active' \in [ServerIds -> Handles \cup {None}],
           \A s \in ServerIds : active'[s] # None => active'[s] < next_handle,
           \A i \in Entries : ~Waiting(i) =>
               active'[subscriptions[i].server_id] = subscriptions[i].handle,
           msg.kind # "notification",
           msg.kind = "confirmed" => AsksFor(1),
           AsksFor(1) => msg.kind \in {"confirmed", "rejected", "unusable"} /\ msg.id = toServer[1].id
    PROVE  /\ TypeOK' /\ Streams' /\ HandlesInv' /\ IdsInv' /\ NeverDeaf'
           /\ Len(toServer) >= 1 /\ Head(toServer) = toServer[1] /\ 1 \in DOMAIN toServer
           /\ \A k \in DOMAIN toServer' :
                 /\ k + 1 \in DOMAIN toServer /\ toServer'[k] = toServer[k + 1] /\ k \in Nat /\ k + 1 # 1
                 /\ AsksFor(k)' = AsksFor(k + 1) /\ GivesUp(k)' = GivesUp(k + 1)
           /\ DOMAIN toClient' = 1 .. Len(toClient) + 1 /\ Len(toClient') = Len(toClient) + 1
           /\ \A k \in DOMAIN toClient : /\ k \in DOMAIN toClient' /\ toClient'[k] = toClient[k]
                                         /\ Confirms(k)' = Confirms(k) /\ Notifies(k)' = Notifies(k)
           /\ toClient'[Len(toClient) + 1] = msg
           /\ \A i \in Entries : \A s : \A k \in Nat : KnownAs(i, s, k) => KnownAs(i, s, k)'
           /\ Entries' = Entries /\ (\A i \in Entries : Waiting(i)' = Waiting(i))
           /\ peer /\ ws /\ UNCHANGED <<subscriptions, next_handle, peer, ws>>
<1> DEFINE n == Len(toClient)
<1>f. /\ TypeOK /\ Streams /\ HandlesInv /\ IdsInv /\ NeverDeaf /\ ServerInv /\ Scalars
      /\ toServer \in Seq(Requests) /\ Len(toServer) \in Nat
      /\ DOMAIN toServer = 1 .. Len(toServer)
      /\ toClient \in Seq(Answers) /\ n \in Nat /\ DOMAIN toClient = 1 .. n
  BY Facts
<1>1. /\ peer /\ ws /\ toServer # <<>> /\ toServer' = Tail(toServer) /\ toClient' = Append(toClient, msg)
      /\ UNCHANGED <<subscriptions, next_handle, next_request_id, backoff, quiet, ws, pc, remaining,
                     rejected, peer, deaths>>
  BY <1>f DEF Answer, client, TypeOK
<1>2. /\ toServer' \in Seq(Requests) /\ Len(toServer) >= 1 /\ Len(toServer') = Len(toServer) - 1
      /\ Head(toServer) = toServer[1]
      /\ \A k \in 1 .. Len(toServer) - 1 : toServer'[k] = toServer[k + 1]
  BY <1>1, <1>f, EmptySeq, HeadTailProperties
<1>3. DOMAIN toServer' = 1 .. Len(toServer) - 1
  BY <1>2, LenProperties
<1>4. /\ 1 \in DOMAIN toServer
      /\ \A k \in DOMAIN toServer' :
            k + 1 \in DOMAIN toServer /\ toServer'[k] = toServer[k + 1] /\ k \in Nat /\ k + 1 # 1
      /\ \A k \in DOMAIN toServer : k # 1 => k - 1 \in DOMAIN toServer' /\ toServer'[k - 1] = toServer[k]
  <2>1. \A k \in 1 .. Len(toServer) - 1 : k + 1 \in 1 .. Len(toServer) /\ k \in Nat /\ k + 1 # 1
    BY <1>f
  <2>2. \A k \in 1 .. Len(toServer) : k # 1 => k - 1 \in 1 .. Len(toServer) - 1 /\ (k - 1) + 1 = k
    BY <1>f
  <2>3. 1 \in 1 .. Len(toServer)
    BY <1>2, <1>f
  <2> QED BY <2>1, <2>2, <2>3, <1>2, <1>3, <1>f
<1>5. \A k \in DOMAIN toServer' : AsksFor(k)' = AsksFor(k + 1) /\ GivesUp(k)' = GivesUp(k + 1)
  BY <1>4 DEF AsksFor, GivesUp
<1>6. /\ toClient' \in Seq(Answers) /\ Len(toClient') = n + 1
      /\ \A k \in 1 .. n : toClient'[k] = toClient[k]
      /\ toClient'[n + 1] = msg
  BY <1>1, <1>f, AppendProperties
<1>7. DOMAIN toClient' = 1 .. n + 1
  BY <1>6, LenProperties
<1>8. \A k \in DOMAIN toClient : /\ k \in DOMAIN toClient' /\ toClient'[k] = toClient[k]
                                 /\ Confirms(k)' = Confirms(k) /\ Notifies(k)' = Notifies(k)
  BY <1>6, <1>7, <1>f DEF Confirms, Notifies
<1>u. /\ Entries' = Entries /\ Registered' = Registered
      /\ \A i \in Entries : Waiting(i)' = Waiting(i)
      /\ \A id : Age(id)' = Age(id)
      /\ Drawn' = Drawn
  BY <1>1 DEF Entries, Registered, Waiting, Age, Drawn
<1>9. TypeOK'
  BY <1>1, <1>f, <1>u DEF TypeOK
<1>10. Streams'
  BY <1>1, <1>2, <1>6, <1>f DEF Streams
<1>11. HandlesInv'
  <2>1. \A k \in DOMAIN toServer' : AsksFor(k)' => toServer'[k].topic < next_handle'
    BY <1>1, <1>4, <1>5, <1>f DEF HandlesInv
  <2>2. ASSUME NEW k \in DOMAIN toClient', Notifies(k)' PROVE toClient'[k].topic < next_handle'
    <3>1. k \in DOMAIN toClient
      BY <2>2, <1>6, <1>7, <1>f DEF Notifies
    <3> QED BY <3>1, <2>2, <1>1, <1>8, <1>f DEF HandlesInv
  <2>3. /\ Len(subscriptions') < next_handle'
        /\ \A i \in Entries' : subscriptions'[i].handle < next_handle'
        /\ \A i, j \in Entries' : subscriptions'[i].handle = subscriptions'[j].handle => i = j
    BY <1>1, <1>u, <1>f DEF HandlesInv
  <2> QED BY <2>1, <2>2, <2>3, <1>1 DEF HandlesInv
<1>12. IdsInv'
  <2>1. /\ \A i \in Entries : Waiting(i) => Age(subscriptions[i].request_id) <= Drawn
        /\ \A k \in DOMAIN toServer : AsksFor(k) => Age(toServer[k].id) <= Drawn
        /\ \A k \in DOMAIN toClient : Confirms(k) => Age(toClient[k].id) <= Drawn
        /\ \A i, j \in Entries :
              /\ Waiting(i) /\ Waiting(j)
              /\ subscriptions[i].request_id = subscriptions[j].request_id
              => i = j
    BY <1>1, <1>f DEF IdsInv
  <2>2. \A k \in DOMAIN toServer' : AsksFor(k)' => Age(toServer[k].id)' <= Drawn'
    BY <2>1, <1>4, <1>5, <1>u DEF Age
  <2>3. ASSUME NEW k \in DOMAIN toClient', Confirms(k)' PROVE Age(toClient[k].id)' <= Drawn'
    <3>1. CASE k \in DOMAIN toClient
      BY <3>1, <2>1, <2>3, <1>8, <1>u DEF Age
    <3>2. CASE k \notin DOMAIN toClient
      <4>1. k = n + 1
        BY <3>2, <1>7, <1>f
      <4>2. toClient'[k].id = toServer[1].id /\ AsksFor(1)
        BY <4>1, <2>3, <1>6 DEF Confirms
      <4> QED BY <4>2, <2>1, <1>4, <1>u DEF Age
    <3> QED BY <3>1, <3>2
  <2>4. \A i \in Entries' : Waiting(i)' => Age(subscriptions[i].request_id)' <= Drawn'
    BY <2>1, <1>1, <1>u DEF Age
  <2> QED BY <2>1, <2>2, <2>3, <2>4, <1>1, <1>u DEF IdsInv
<1>13. NeverDeaf'
  <2> SUFFICES ASSUME NEW i \in Entries PROVE Heard(i)'
    BY <1>u, HeardAllNext
  <2>1. Heard(i)
    BY <1>1, <1>f, HeardAll
  <2>2. CASE ~Waiting(i)
    BY <2>2, <1>1, <1>u DEF Heard
  <2>3. CASE subscriptions[i].handle \in rejected
    BY <2>3, <1>1 DEF Heard
  <2>4. ASSUME NEW k \in DOMAIN toServer, toServer[k] = SubscribeMessage(subscriptions[i])
        PROVE  Heard(i)'
    <3>1. CASE k # 1
      BY <3>1, <2>4, <1>1, <1>4 DEF Heard
    <3>2. CASE k = 1
      <4>1. AsksFor(1) /\ toServer[1].id = subscriptions[i].request_id
        BY <3>2, <2>4 DEF AsksFor, SubscribeMessage
      <4>2. n + 1 \in DOMAIN toClient'
        BY <1>7, <1>f
      <4> QED BY <4>1, <4>2, <1>1, <1>6 DEF Heard
    <3> QED BY <3>1, <3>2
  <2>5. ASSUME NEW k \in DOMAIN toClient, toClient[k].kind \in {"confirmed", "rejected", "unusable"},
               toClient[k].id = subscriptions[i].request_id
        PROVE  Heard(i)'
    BY <2>5, <1>1, <1>8 DEF Heard
  <2> QED BY <2>1, <2>2, <2>3, <2>4, <2>5 DEF Heard
<1>14. \A i \in Entries : \A s : \A k \in Nat : KnownAs(i, s, k) => KnownAs(i, s, k)'
  BY <1>1, <1>8, <1>u DEF KnownAs
<1> QED BY <1>1, <1>2, <1>4, <1>5, <1>6, <1>7, <1>8, <1>9, <1>10, <1>11, <1>12, <1>13, <1>14, <1>u

(* KnownAs in the next state, for later positions. *)
LEMMA KnownLater ==
    ASSUME NEW i, NEW s, NEW k \in Nat, NEW n \in Nat, KnownAs(i, s, k)', k <= n,
           DOMAIN toClient' \subseteq Nat
    PROVE  KnownAs(i, s, n)'
BY DEF KnownAs

(* A refusal, or the end of a subscription nobody has an entry for any more,  *)
(* or one that is not ended:                                                  *)
(* no subscription of the server that is registered, asked to be confirmed or *)
(* asked to be given up later is touched.                                     *)
LEMMA RefuseKeeps ==
    ASSUME PubSubInv,
           ServerRejects \/ ServerAnswersUnusably \/ ServerUnsubscribes \/ ServerKeeps
    PROVE  PubSubInv'
<1>f. /\ TypeOK /\ Streams /\ HandlesInv /\ ToServerInv /\ ConfirmationsInv
      /\ NotificationsInv /\ ServerInv /\ Len(toClient) \in Nat /\ DOMAIN toClient = 1 .. Len(toClient)
      /\ toServer \in Seq(Requests) /\ Len(toServer) \in Nat /\ DOMAIN toServer = 1 .. Len(toServer)
      /\ active \in [ServerIds -> Handles \cup {None}]
      /\ \A i \in Entries : subscriptions[i].handle \in Handles /\ subscriptions[i].server_id \in ServerIds
  BY Facts DEF TypeOK
<1>n. None \notin Handles
  BY PubSubAssumption DEF Handles
<1>m. /\ \A k \in DOMAIN toServer : /\ toServer[k].id \in RequestIds
                                    /\ AsksFor(k) => toServer[k].topic \in Handles
                                    /\ GivesUp(k) => toServer[k].server_id \in ServerIds
      /\ \A k \in DOMAIN toClient : Confirms(k) => toClient[k].server_id \in ServerIds
  BY <1>f, MessageType
<1>0. toServer # <<>>
  BY DEF ServerRejects, ServerAnswersUnusably, ServerUnsubscribes, ServerKeeps
<1>1. Head(toServer) = toServer[1] /\ 1 \in DOMAIN toServer
  BY <1>0, <1>f, EmptySeq
<1>2. \E msg : /\ Answer(msg) /\ msg \in Answers /\ msg.kind \in {"rejected", "unusable", "unsubscribed"}
               /\ AsksFor(1) => msg.kind \in {"rejected", "unusable"} /\ msg.id = toServer[1].id
  <2>1. CASE ServerRejects
    <3> DEFINE m == [kind |-> "rejected", id |-> toServer[1].id]
    <3>1. Answer(m)
      BY <2>1, <1>1 DEF ServerRejects
    <3>2. m \in Answers /\ m.kind = "rejected" /\ m.id = toServer[1].id
      BY <1>1, <1>m DEF Answers
    <3> QED BY <3>1, <3>2
  <2>3. CASE ServerAnswersUnusably
    <3> DEFINE m == [kind |-> "unusable", id |-> toServer[1].id]
    <3>1. Answer(m)
      BY <2>3, <1>1 DEF ServerAnswersUnusably
    <3>2. m \in Answers /\ m.kind = "unusable" /\ m.id = toServer[1].id
      BY <1>1, <1>m DEF Answers
    <3> QED BY <3>1, <3>2
  <2>4. CASE ServerKeeps
    <3> DEFINE m == [kind |-> "rejected", id |-> toServer[1].id]
    <3>1. Answer(m) /\ ~AsksFor(1)
      BY <2>4, <1>1 DEF ServerKeeps, AsksFor
    <3>2. m \in Answers /\ m.kind = "rejected"
      BY <1>1, <1>m DEF Answers
    <3> QED BY <3>1, <3>2
  <2>2. CASE ServerUnsubscribes
    <3> DEFINE m == [kind |-> "unsubscribed", id |-> toServer[1].id]
    <3>1. Answer(m) /\ ~AsksFor(1)
      BY <2>2, <1>1 DEF ServerUnsubscribes, AsksFor
    <3>2. m \in Answers /\ m.kind = "unsubscribed"
      BY <1>1, <1>m DEF Answers
    <3> QED BY <3>1, <3>2
  <2> QED BY <2>1, <2>2, <2>3, <2>4
<1>3. PICK msg : /\ Answer(msg) /\ msg \in Answers /\ msg.kind \in {"rejected", "unusable", "unsubscribed"}
                 /\ AsksFor(1) => msg.kind \in {"rejected", "unusable"} /\ msg.id = toServer[1].id
  BY <1>2
<1>4. /\ active' \in [ServerIds -> Handles \cup {None}]
      /\ \A s \in ServerIds :
            \/ active'[s] = active[s]
            \/ active'[s] = None /\ GivesUp(1) /\ s = toServer[1].server_id
  <2>1. CASE ServerRejects \/ ServerAnswersUnusably \/ ServerKeeps
    BY <2>1, <1>f DEF ServerRejects, ServerAnswersUnusably, ServerKeeps
  <2>2. CASE ServerUnsubscribes
    <3>1. GivesUp(1) /\ active' = [active EXCEPT ![toServer[1].server_id] = None]
      BY <2>2, <1>1 DEF ServerUnsubscribes, GivesUp
    <3>2. toServer[1].server_id \in ServerIds
      BY <3>1, <1>1, <1>m
    <3> QED BY <3>1, <3>2, <1>f
  <2> QED BY <2>1, <2>2
<1>5. /\ \A i \in Entries : ~Waiting(i) => active'[subscriptions[i].server_id] = active[subscriptions[i].server_id]
      /\ \A k \in DOMAIN toClient : Confirms(k) => active'[toClient[k].server_id] = active[toClient[k].server_id]
      /\ \A k \in DOMAIN toServer :
            k # 1 /\ GivesUp(k) => active'[toServer[k].server_id] = active[toServer[k].server_id]
  <2>1. ASSUME NEW i \in Entries, ~Waiting(i)
        PROVE  active'[subscriptions[i].server_id] = active[subscriptions[i].server_id]
    <3>1. active[subscriptions[i].server_id] = subscriptions[i].handle /\ subscriptions[i].server_id \in ServerIds
      BY <2>1, <1>f DEF ServerInv
    <3>2. GivesUp(1) => subscriptions[i].handle # active[toServer[1].server_id]
      BY <1>1, <1>f DEF ToServerInv
    <3> QED BY <3>1, <3>2, <1>4
  <2>2. ASSUME NEW k \in DOMAIN toClient, Confirms(k)
        PROVE  active'[toClient[k].server_id] = active[toClient[k].server_id]
    <3>1. GivesUp(1) => toServer[1].server_id # toClient[k].server_id
      BY <2>2, <1>1, <1>f DEF ConfirmationsInv
    <3> QED BY <3>1, <2>2, <1>m, <1>4
  <2>3. ASSUME NEW k \in DOMAIN toServer, k # 1, GivesUp(k)
        PROVE  active'[toServer[k].server_id] = active[toServer[k].server_id]
    <3>1. GivesUp(1) => toServer[1].server_id # toServer[k].server_id
      BY <2>3, <1>1, <1>f DEF ToServerInv
    <3> QED BY <3>1, <2>3, <1>m, <1>4
  <2> QED BY <2>1, <2>2, <2>3
<1>6. /\ \A s \in ServerIds : active'[s] # None => active'[s] < next_handle
      /\ \A i \in Entries : ~Waiting(i) =>
             active'[subscriptions[i].server_id] = subscriptions[i].handle
  BY <1>4, <1>5, <1>f DEF HandlesInv, ServerInv
<1>7. /\ TypeOK' /\ Streams' /\ HandlesInv' /\ IdsInv' /\ NeverDeaf'
      /\ \A k \in DOMAIN toServer' :
            /\ k + 1 \in DOMAIN toServer /\ toServer'[k] = toServer[k + 1] /\ k \in Nat /\ k + 1 # 1
            /\ AsksFor(k)' = AsksFor(k + 1) /\ GivesUp(k)' = GivesUp(k + 1)
      /\ DOMAIN toClient' = 1 .. Len(toClient) + 1 /\ Len(toClient') = Len(toClient) + 1
      /\ \A k \in DOMAIN toClient : /\ k \in DOMAIN toClient' /\ toClient'[k] = toClient[k]
                                    /\ Confirms(k)' = Confirms(k) /\ Notifies(k)' = Notifies(k)
      /\ toClient'[Len(toClient) + 1] = msg
      /\ \A i \in Entries : \A s : \A k \in Nat : KnownAs(i, s, k) => KnownAs(i, s, k)'
      /\ Entries' = Entries /\ (\A i \in Entries : Waiting(i)' = Waiting(i))
      /\ peer /\ ws /\ UNCHANGED <<subscriptions, next_handle, peer, ws>>
  BY <1>3, <1>4, <1>6, Answering
<1>8. \A k \in DOMAIN toClient' : Confirms(k)' \/ Notifies(k)' => k \in DOMAIN toClient
  BY <1>3, <1>7, <1>f DEF Confirms, Notifies
<1>9. ToServerInv'
  <2>1. ASSUME NEW k \in DOMAIN toServer', AsksFor(k)'
        PROVE  /\ \A s \in ServerIds : active'[s] # toServer'[k].topic
               /\ \A i \in Entries' :
                     subscriptions'[i].handle = toServer'[k].topic =>
                         Waiting(i)' /\ subscriptions'[i].request_id = toServer'[k].id
               /\ \A i \in Entries' :
                     Waiting(i)' /\ subscriptions'[i].request_id = toServer'[k].id =>
                         subscriptions'[i].handle = toServer'[k].topic
    <3>1. k + 1 \in DOMAIN toServer /\ AsksFor(k + 1) /\ toServer'[k] = toServer[k + 1]
      BY <2>1, <1>7
    <3>2. toServer[k + 1].topic # None
      BY <3>1, <1>m, <1>n
    <3>3. \A s \in ServerIds : active[s] # toServer[k + 1].topic
      BY <3>1, <1>f DEF ToServerInv
    <3>4. \A s \in ServerIds : active'[s] # toServer'[k].topic
      BY <3>1, <3>2, <3>3, <1>4
    <3>5. \A i \in Entries :
            /\ subscriptions[i].handle = toServer[k + 1].topic =>
                  Waiting(i) /\ subscriptions[i].request_id = toServer[k + 1].id
            /\ Waiting(i) /\ subscriptions[i].request_id = toServer[k + 1].id =>
                  subscriptions[i].handle = toServer[k + 1].topic
      BY <3>1, <1>f DEF ToServerInv
    <3> QED BY <3>1, <3>4, <3>5, <1>7
  <2>2. ASSUME NEW k \in DOMAIN toServer', GivesUp(k)'
        PROVE  /\ active'[toServer'[k].server_id] # None
               /\ \A i \in Entries' : subscriptions'[i].handle # active'[toServer'[k].server_id]
    <3>1. k + 1 \in DOMAIN toServer /\ GivesUp(k + 1) /\ toServer'[k] = toServer[k + 1] /\ k + 1 # 1
      BY <2>2, <1>7
    <3>2. active'[toServer[k + 1].server_id] = active[toServer[k + 1].server_id]
      BY <3>1, <1>5
    <3> QED BY <3>1, <3>2, <1>7, <1>f DEF ToServerInv
  <2>3. ASSUME NEW k \in DOMAIN toServer', NEW l \in DOMAIN toServer',
               \/ AsksFor(k)' /\ AsksFor(l)' /\ toServer'[k].topic = toServer'[l].topic
               \/ GivesUp(k)' /\ GivesUp(l)' /\ toServer'[k].server_id = toServer'[l].server_id
        PROVE  k = l
    <3>1. k + 1 = l + 1
      BY <2>3, <1>7, <1>f DEF ToServerInv
    <3> QED BY <3>1, <1>7
  <2> QED BY <2>1, <2>2, <2>3 DEF ToServerInv
<1>10. ConfirmationsInv'
  <2>1. ASSUME NEW k \in DOMAIN toClient', Confirms(k)'
        PROVE  /\ active'[toClient'[k].server_id] # None
               /\ \A i \in Entries' :
                     Waiting(i)' /\ subscriptions'[i].request_id = toClient'[k].id =>
                         subscriptions'[i].handle = active'[toClient'[k].server_id]
               /\ \A i \in Entries' :
                     ~Waiting(i)' => subscriptions'[i].server_id # toClient'[k].server_id
               /\ \A l \in DOMAIN toServer' :
                     GivesUp(l)' => toServer'[l].server_id # toClient'[k].server_id
    <3>1. k \in DOMAIN toClient /\ Confirms(k) /\ toClient'[k] = toClient[k]
      BY <2>1, <1>7, <1>8
    <3>2. active'[toClient[k].server_id] = active[toClient[k].server_id]
      BY <3>1, <1>5
    <3> QED BY <3>1, <3>2, <1>7, <1>f DEF ConfirmationsInv
  <2>2. \A k, l \in DOMAIN toClient' :
          Confirms(k)' /\ Confirms(l)' /\ toClient'[k].server_id = toClient'[l].server_id => k = l
    BY <1>7, <1>8, <1>f DEF ConfirmationsInv
  <2> QED BY <2>1, <2>2 DEF ConfirmationsInv
<1>11. NotificationsInv'
  <2> SUFFICES ASSUME NEW k \in DOMAIN toClient', Notifies(k)'
               PROVE  /\ \A j \in DOMAIN toClient' :
                            j < k /\ Confirms(j)' /\ toClient'[j].server_id = toClient'[k].server_id =>
                                active'[toClient'[k].server_id] = toClient'[k].topic
                      /\ \A i \in Entries' :
                            ~Waiting(i)' /\ subscriptions'[i].server_id = toClient'[k].server_id =>
                                subscriptions'[i].handle = toClient'[k].topic
                      /\ \A i \in Entries' :
                            subscriptions'[i].handle = toClient'[k].topic =>
                                KnownAs(i, toClient[k].server_id, k)'
    BY DEF NotificationsInv
  <2>1. k \in DOMAIN toClient /\ Notifies(k) /\ toClient'[k] = toClient[k] /\ k \in Nat
    BY <1>7, <1>8, <1>f
  <2>2. ASSUME NEW j \in DOMAIN toClient', j < k, Confirms(j)',
               toClient'[j].server_id = toClient'[k].server_id
        PROVE  active'[toClient'[k].server_id] = toClient'[k].topic
    <3>1. j \in DOMAIN toClient /\ Confirms(j) /\ toClient[j].server_id = toClient[k].server_id
      BY <2>1, <2>2, <1>7, <1>8
    <3>2. active'[toClient[k].server_id] = active[toClient[k].server_id]
      BY <3>1, <1>5
    <3> QED BY <3>1, <3>2, <2>1, <2>2, <1>f DEF NotificationsInv
  <2>3. \A i \in Entries' :
          ~Waiting(i)' /\ subscriptions'[i].server_id = toClient'[k].server_id =>
              subscriptions'[i].handle = toClient'[k].topic
    BY <2>1, <1>f, <1>7 DEF NotificationsInv
  <2>4. ASSUME NEW i \in Entries', subscriptions'[i].handle = toClient'[k].topic
        PROVE  KnownAs(i, toClient[k].server_id, k)'
    <3>1. i \in Entries /\ KnownAs(i, toClient[k].server_id, k)
      BY <2>1, <2>4, <1>f, <1>7 DEF NotificationsInv
    <3>2. ASSUME NEW s, s = toClient[k].server_id PROVE KnownAs(i, s, k)'
      BY <3>1, <3>2, <2>1, <1>7
    <3> QED BY <3>2, <2>1
  <2> QED BY <2>2, <2>3, <2>4
<1>12. ServerInv'
  <2>1. \A s, r \in ServerIds : active'[s] = active'[r] /\ active'[s] # None => s = r
    BY <1>4, <1>f DEF ServerInv
  <2>2. \A i \in Entries' : ~Waiting(i)' => active'[subscriptions'[i].server_id] = subscriptions'[i].handle
    BY <1>6, <1>7
  <2>3. ASSUME NEW s \in ServerIds, NEW i \in Entries, active'[s] = subscriptions[i].handle
        PROVE  KnownAs(i, s, Len(toClient) + 1)'
    <3>1. active[s] = subscriptions[i].handle
      BY <2>3, <1>4, <1>f, <1>n
    <3>2. KnownAs(i, s, Len(toClient) + 1)
      BY <3>1, <1>f, <1>7 DEF ServerInv
    <3>3. ASSUME NEW k, k = Len(toClient) + 1 PROVE KnownAs(i, s, k)'
      BY <3>2, <3>3, <1>f, <1>7
    <3>4. ASSUME NEW k, k = Len(toClient) + 1 PROVE KnownAs(i, s, k + 1)'
      <4>1. k \in Nat /\ k + 1 \in Nat /\ k <= k + 1 /\ DOMAIN toClient' \subseteq Nat
        BY <3>4, <1>f, <1>7
      <4> QED BY <4>1, <3>3, <3>4, KnownLater
    <3> QED BY <3>4, <1>7
  <2> QED BY <2>1, <2>2, <2>3, <1>7 DEF ServerInv
<1> QED BY <1>7, <1>9, <1>10, <1>11, <1>12 DEF PubSubInv

(* The server takes a subscription under an id it does not use: no entry, no  *)
(* confirmation and no request that is under way has that id yet.             *)
LEMMA AcceptKeeps ==
    ASSUME PubSubInv, ServerAccepts
    PROVE  PubSubInv'
<1>f. /\ TypeOK /\ Streams /\ HandlesInv /\ ToServerInv /\ ConfirmationsInv
      /\ NotificationsInv /\ ServerInv /\ Len(toClient) \in Nat /\ DOMAIN toClient = 1 .. Len(toClient)
      /\ toServer \in Seq(Requests) /\ Len(toServer) \in Nat /\ DOMAIN toServer = 1 .. Len(toServer)
      /\ active \in [ServerIds -> Handles \cup {None}]
      /\ \A i \in Entries : subscriptions[i].handle \in Handles /\ subscriptions[i].server_id \in ServerIds
  BY Facts DEF TypeOK
<1>n. None \notin Handles
  BY PubSubAssumption DEF Handles
<1>m. /\ \A k \in DOMAIN toServer : /\ toServer[k].id \in RequestIds
                                    /\ AsksFor(k) => toServer[k].topic \in Handles
                                    /\ GivesUp(k) => toServer[k].server_id \in ServerIds
      /\ \A k \in DOMAIN toClient : Confirms(k) => toClient[k].server_id \in ServerIds
  BY <1>f, MessageType
<1>0. toServer # <<>>
  BY DEF ServerAccepts
<1>1. Head(toServer) = toServer[1] /\ 1 \in DOMAIN toServer
  BY <1>0, <1>f, EmptySeq
<1>2. PICK d \in ServerIds :
         /\ active[d] = None /\ active' = [active EXCEPT ![d] = toServer[1].topic]
         /\ Answer([kind |-> "confirmed", id |-> toServer[1].id, server_id |-> d])
  BY <1>1 DEF ServerAccepts
<1>3. PICK t, q : t = toServer[1].topic /\ q = toServer[1].id
  OBVIOUS
<1>4. PICK msg : msg = [kind |-> "confirmed", id |-> q, server_id |-> d]
  OBVIOUS
<1>5. AsksFor(1) /\ t \in Handles /\ q \in RequestIds
  BY <1>1, <1>3, <1>m DEF ServerAccepts, AsksFor
<1>6. /\ Answer(msg) /\ msg \in Answers /\ msg.kind = "confirmed" /\ msg.id = q /\ msg.server_id = d
  BY <1>2, <1>3, <1>4, <1>5 DEF Answers
<1>7. /\ active' \in [ServerIds -> Handles \cup {None}] /\ active'[d] = t
      /\ \A s \in ServerIds : s # d => active'[s] = active[s]
      /\ t # None
  BY <1>2, <1>3, <1>5, <1>f, <1>n
<1>8. /\ \A s \in ServerIds : active[s] # t
      /\ \A i \in Entries : subscriptions[i].handle = t => Waiting(i) /\ subscriptions[i].request_id = q
      /\ \A i \in Entries : Waiting(i) /\ subscriptions[i].request_id = q => subscriptions[i].handle = t
      /\ \A k \in DOMAIN toServer : AsksFor(k) /\ toServer[k].topic = t => k = 1
  BY <1>1, <1>3, <1>5, <1>f DEF ToServerInv
<1>9. /\ \A i \in Entries : ~Waiting(i) =>
            subscriptions[i].server_id # d /\ active[subscriptions[i].server_id] = subscriptions[i].handle
      /\ \A k \in DOMAIN toClient : Confirms(k) => toClient[k].server_id # d
      /\ \A k \in DOMAIN toServer : GivesUp(k) => toServer[k].server_id # d
  BY <1>2, <1>f, <1>n DEF ServerInv, ConfirmationsInv, ToServerInv
<1>10. /\ \A s \in ServerIds : active'[s] # None => active'[s] < next_handle
       /\ \A i \in Entries : ~Waiting(i) =>
             active'[subscriptions[i].server_id] = subscriptions[i].handle
  BY <1>1, <1>3, <1>5, <1>7, <1>9, <1>f DEF HandlesInv
<1>11. /\ TypeOK' /\ Streams' /\ HandlesInv' /\ IdsInv' /\ NeverDeaf'
       /\ \A k \in DOMAIN toServer' :
             /\ k + 1 \in DOMAIN toServer /\ toServer'[k] = toServer[k + 1] /\ k \in Nat /\ k + 1 # 1
             /\ AsksFor(k)' = AsksFor(k + 1) /\ GivesUp(k)' = GivesUp(k + 1)
       /\ DOMAIN toClient' = 1 .. Len(toClient) + 1 /\ Len(toClient') = Len(toClient) + 1
       /\ \A k \in DOMAIN toClient : /\ k \in DOMAIN toClient' /\ toClient'[k] = toClient[k]
                                     /\ Confirms(k)' = Confirms(k) /\ Notifies(k)' = Notifies(k)
       /\ toClient'[Len(toClient) + 1] = msg
       /\ \A i \in Entries : \A s : \A k \in Nat : KnownAs(i, s, k) => KnownAs(i, s, k)'
       /\ Entries' = Entries /\ (\A i \in Entries : Waiting(i)' = Waiting(i))
       /\ peer /\ ws /\ UNCHANGED <<subscriptions, next_handle, peer, ws>>
  BY <1>3, <1>5, <1>6, <1>7, <1>10, Answering
<1>12. /\ \A k \in DOMAIN toClient' : k \in DOMAIN toClient \/ (k = Len(toClient) + 1 /\ toClient'[k] = msg)
       /\ \A k \in DOMAIN toClient' : Notifies(k)' => k \in DOMAIN toClient
  BY <1>6, <1>11, <1>f DEF Notifies
<1>13. ToServerInv'
  <2>1. ASSUME NEW k \in DOMAIN toServer', AsksFor(k)'
        PROVE  /\ \A s \in ServerIds : active'[s] # toServer'[k].topic
               /\ \A i \in Entries' :
                     subscriptions'[i].handle = toServer'[k].topic =>
                         Waiting(i)' /\ subscriptions'[i].request_id = toServer'[k].id
               /\ \A i \in Entries' :
                     Waiting(i)' /\ subscriptions'[i].request_id = toServer'[k].id =>
                         subscriptions'[i].handle = toServer'[k].topic
    <3>1. k + 1 \in DOMAIN toServer /\ AsksFor(k + 1) /\ toServer'[k] = toServer[k + 1] /\ k + 1 # 1
      BY <2>1, <1>11
    <3>2. t # toServer[k + 1].topic
      BY <3>1, <1>8
    <3>3. \A s \in ServerIds : active[s] # toServer[k + 1].topic
      BY <3>1, <1>f DEF ToServerInv
    <3>4. \A s \in ServerIds : active'[s] # toServer'[k].topic
      BY <3>1, <3>2, <3>3, <1>7
    <3>5. \A i \in Entries :
            /\ subscriptions[i].handle = toServer[k + 1].topic =>
                  Waiting(i) /\ subscriptions[i].request_id = toServer[k + 1].id
            /\ Waiting(i) /\ subscriptions[i].request_id = toServer[k + 1].id =>
                  subscriptions[i].handle = toServer[k + 1].topic
      BY <3>1, <1>f DEF ToServerInv
    <3> QED BY <3>1, <3>4, <3>5, <1>11
  <2>2. ASSUME NEW k \in DOMAIN toServer', GivesUp(k)'
        PROVE  /\ active'[toServer'[k].server_id] # None
               /\ \A i \in Entries' : subscriptions'[i].handle # active'[toServer'[k].server_id]
    <3>1. k + 1 \in DOMAIN toServer /\ GivesUp(k + 1) /\ toServer'[k] = toServer[k + 1]
      BY <2>2, <1>11
    <3>2. active'[toServer[k + 1].server_id] = active[toServer[k + 1].server_id]
      BY <3>1, <1>7, <1>9, <1>m
    <3> QED BY <3>1, <3>2, <1>11, <1>f DEF ToServerInv
  <2>3. ASSUME NEW k \in DOMAIN toServer', NEW l \in DOMAIN toServer',
               \/ AsksFor(k)' /\ AsksFor(l)' /\ toServer'[k].topic = toServer'[l].topic
               \/ GivesUp(k)' /\ GivesUp(l)' /\ toServer'[k].server_id = toServer'[l].server_id
        PROVE  k = l
    <3>1. k + 1 = l + 1
      BY <2>3, <1>11, <1>f DEF ToServerInv
    <3> QED BY <3>1, <1>11
  <2> QED BY <2>1, <2>2, <2>3 DEF ToServerInv
<1>14. ConfirmationsInv'
  <2>1. ASSUME NEW k \in DOMAIN toClient', Confirms(k)'
        PROVE  /\ active'[toClient'[k].server_id] # None
               /\ \A i \in Entries' :
                     Waiting(i)' /\ subscriptions'[i].request_id = toClient'[k].id =>
                         subscriptions'[i].handle = active'[toClient'[k].server_id]
               /\ \A i \in Entries' :
                     ~Waiting(i)' => subscriptions'[i].server_id # toClient'[k].server_id
               /\ \A l \in DOMAIN toServer' :
                     GivesUp(l)' => toServer'[l].server_id # toClient'[k].server_id
    <3>1. CASE k \in DOMAIN toClient
      <4>1. Confirms(k) /\ toClient'[k] = toClient[k]
        BY <3>1, <2>1, <1>11
      <4>2. active'[toClient[k].server_id] = active[toClient[k].server_id]
        BY <4>1, <3>1, <1>7, <1>9, <1>m
      <4> QED BY <4>1, <4>2, <3>1, <1>11, <1>f DEF ConfirmationsInv
    <3>2. CASE toClient'[k] = msg
      BY <3>2, <1>6, <1>7, <1>8, <1>9, <1>11
    <3> QED BY <3>1, <3>2, <1>12
  <2>2. ASSUME NEW k \in DOMAIN toClient', NEW l \in DOMAIN toClient', Confirms(k)', Confirms(l)',
               toClient'[k].server_id = toClient'[l].server_id
        PROVE  k = l
    <3>1. CASE k \in DOMAIN toClient /\ l \in DOMAIN toClient
      BY <3>1, <2>2, <1>11, <1>f DEF ConfirmationsInv
    <3>2. CASE k \notin DOMAIN toClient \/ l \notin DOMAIN toClient
      BY <3>2, <2>2, <1>6, <1>9, <1>11, <1>12
    <3> QED BY <3>1, <3>2
  <2> QED BY <2>1, <2>2 DEF ConfirmationsInv
<1>15. NotificationsInv'
  <2> SUFFICES ASSUME NEW k \in DOMAIN toClient', Notifies(k)'
               PROVE  /\ \A j \in DOMAIN toClient' :
                            j < k /\ Confirms(j)' /\ toClient'[j].server_id = toClient'[k].server_id =>
                                active'[toClient'[k].server_id] = toClient'[k].topic
                      /\ \A i \in Entries' :
                            ~Waiting(i)' /\ subscriptions'[i].server_id = toClient'[k].server_id =>
                                subscriptions'[i].handle = toClient'[k].topic
                      /\ \A i \in Entries' :
                            subscriptions'[i].handle = toClient'[k].topic =>
                                KnownAs(i, toClient[k].server_id, k)'
    BY DEF NotificationsInv
  <2>1. k \in DOMAIN toClient /\ Notifies(k) /\ toClient'[k] = toClient[k] /\ k \in Nat
    BY <1>11, <1>12, <1>f
  <2>2. ASSUME NEW j \in DOMAIN toClient', j < k, Confirms(j)',
               toClient'[j].server_id = toClient'[k].server_id
        PROVE  active'[toClient'[k].server_id] = toClient'[k].topic
    <3>1. j \in DOMAIN toClient
      BY <2>1, <2>2, <1>11, <1>f
    <3>2. Confirms(j) /\ toClient[j].server_id = toClient[k].server_id
      BY <3>1, <2>1, <2>2, <1>11
    <3>3. active'[toClient[k].server_id] = active[toClient[k].server_id]
      BY <3>1, <3>2, <1>7, <1>9, <1>m
    <3> QED BY <3>1, <3>2, <3>3, <2>1, <2>2, <1>f DEF NotificationsInv
  <2>3. \A i \in Entries' :
          ~Waiting(i)' /\ subscriptions'[i].server_id = toClient'[k].server_id =>
              subscriptions'[i].handle = toClient'[k].topic
    BY <2>1, <1>f, <1>11 DEF NotificationsInv
  <2>4. ASSUME NEW i \in Entries', subscriptions'[i].handle = toClient'[k].topic
        PROVE  KnownAs(i, toClient[k].server_id, k)'
    <3>1. i \in Entries /\ KnownAs(i, toClient[k].server_id, k)
      BY <2>1, <2>4, <1>f, <1>11 DEF NotificationsInv
    <3>2. ASSUME NEW s, s = toClient[k].server_id PROVE KnownAs(i, s, k)'
      BY <3>1, <3>2, <2>1, <1>11
    <3> QED BY <3>2, <2>1
  <2> QED BY <2>2, <2>3, <2>4
<1>16. ServerInv'
  <2>1. \A s, r \in ServerIds : active'[s] = active'[r] /\ active'[s] # None => s = r
    BY <1>7, <1>8, <1>f DEF ServerInv
  <2>2. \A i \in Entries' : ~Waiting(i)' => active'[subscriptions'[i].server_id] = subscriptions'[i].handle
    BY <1>10, <1>11
  <2>3. ASSUME NEW s \in ServerIds, NEW i \in Entries, active'[s] = subscriptions[i].handle
        PROVE  KnownAs(i, s, Len(toClient) + 1)'
    <3>1. CASE s # d
      <4>1. KnownAs(i, s, Len(toClient) + 1)
        BY <3>1, <2>3, <1>7, <1>f, <1>11 DEF ServerInv
      <4>2. ASSUME NEW k, k = Len(toClient) + 1 PROVE KnownAs(i, s, k)'
        BY <4>1, <4>2, <1>f, <1>11
      <4>3. ASSUME NEW k, k = Len(toClient) + 1 PROVE KnownAs(i, s, k + 1)'
        <5>1. k \in Nat /\ k + 1 \in Nat /\ k <= k + 1 /\ DOMAIN toClient' \subseteq Nat
          BY <4>3, <1>f, <1>11
        <5> QED BY <5>1, <4>2, <4>3, KnownLater
      <4> QED BY <4>3, <1>11
    <3>2. CASE s = d
      <4>1. Waiting(i)' /\ subscriptions'[i].request_id = q
        BY <3>2, <2>3, <1>7, <1>8, <1>11
      <4>2. PICK k : k = Len(toClient) + 1
        OBVIOUS
      <4>3. k \in DOMAIN toClient' /\ k < Len(toClient') + 1 /\ toClient'[k] = msg
        BY <4>2, <1>11, <1>f
      <4>4. Confirms(k)' /\ toClient'[k].server_id = s /\ toClient'[k].id = q
        BY <4>3, <3>2, <1>6 DEF Confirms
      <4> QED BY <4>1, <4>3, <4>4 DEF KnownAs
    <3> QED BY <3>1, <3>2
  <2> QED BY <2>1, <2>2, <2>3, <1>11 DEF ServerInv
<1> QED BY <1>11, <1>13, <1>14, <1>15, <1>16 DEF PubSubInv

(* A notification about a subscription the server has. *)
LEMMA NotifyKeeps ==
    ASSUME PubSubInv, NEW d \in ServerIds, ServerNotifies(d)
    PROVE  PubSubInv'
<1> DEFINE n == Len(toClient)
<1>f. /\ TypeOK /\ Streams /\ HandlesInv /\ IdsInv /\ ToServerInv /\ ConfirmationsInv
      /\ NotificationsInv /\ ServerInv /\ NeverDeaf
      /\ toClient \in Seq(Answers) /\ n \in Nat /\ DOMAIN toClient = 1 .. n
      /\ active \in [ServerIds -> Handles \cup {None}]
  BY Facts DEF TypeOK
<1>1. PICK msg : msg = [kind |-> "notification", server_id |-> d, topic |-> active[d]]
  OBVIOUS
<1>2. /\ peer /\ ws /\ active[d] # None /\ toClient' = Append(toClient, msg)
      /\ UNCHANGED <<subscriptions, next_handle, next_request_id, backoff, quiet, ws, pc, remaining,
                     rejected, peer, toServer, active, deaths>>
  BY <1>1, <1>f DEF ServerNotifies, client, TypeOK
<1>3. /\ msg \in Answers /\ msg.kind = "notification" /\ msg.server_id = d
      /\ msg.topic = active[d] /\ active[d] \in Handles
  BY <1>1, <1>2, <1>f DEF Answers
<1>4. /\ toClient' \in Seq(Answers) /\ Len(toClient') = n + 1
      /\ \A k \in 1 .. n : toClient'[k] = toClient[k]
      /\ toClient'[n + 1] = msg
  BY <1>2, <1>3, <1>f, AppendProperties
<1>5. DOMAIN toClient' = 1 .. n + 1
  BY <1>4, LenProperties
<1>6. /\ \A k \in DOMAIN toClient : /\ k \in DOMAIN toClient' /\ toClient'[k] = toClient[k]
                                    /\ Confirms(k)' = Confirms(k) /\ Notifies(k)' = Notifies(k)
      /\ \A k \in DOMAIN toClient' : k \in DOMAIN toClient \/ (k = n + 1 /\ toClient'[k] = msg)
      /\ \A k \in DOMAIN toClient' : Confirms(k)' => k \in DOMAIN toClient
  BY <1>3, <1>4, <1>5, <1>f DEF Confirms, Notifies
<1>u. /\ Entries' = Entries /\ Registered' = Registered
      /\ \A i \in Entries : Waiting(i)' = Waiting(i)
      /\ \A k \in DOMAIN toServer : AsksFor(k)' = AsksFor(k) /\ GivesUp(k)' = GivesUp(k)
      /\ \A id : Age(id)' = Age(id)
      /\ Drawn' = Drawn
  BY <1>2 DEF Entries, Registered, Waiting, AsksFor, GivesUp, Age, Drawn
<1>7. TypeOK'
  BY <1>2, <1>f, <1>u DEF TypeOK
<1>8. Streams'
  BY <1>2, <1>4, <1>f DEF Streams
<1>9. HandlesInv'
  <2>1. ASSUME NEW k \in DOMAIN toClient', Notifies(k)' PROVE toClient'[k].topic < next_handle'
    BY <2>1, <1>2, <1>3, <1>6, <1>f DEF HandlesInv
  <2> QED BY <2>1, <1>2, <1>u, <1>f DEF HandlesInv
<1>10. IdsInv'
  <2>1. ASSUME NEW k \in DOMAIN toClient', Confirms(k)' PROVE Age(toClient[k].id)' <= Drawn'
    <3>1. k \in DOMAIN toClient /\ Confirms(k) /\ toClient'[k] = toClient[k]
      BY <2>1, <1>6
    <3>2. Age(toClient[k].id) <= Drawn
      BY <3>1, <1>2, <1>f DEF IdsInv
    <3> QED BY <3>1, <3>2, <1>2 DEF Age, Drawn
  <2> QED BY <2>1, <1>2, <1>u, <1>f DEF IdsInv, Age, Drawn
<1>11. ToServerInv'
  BY <1>2, <1>u, <1>f DEF ToServerInv
<1>12. ConfirmationsInv'
  BY <1>2, <1>6, <1>u, <1>f DEF ConfirmationsInv
<1>13. \A i \in Entries : \A s : \A k \in Nat : KnownAs(i, s, k) => KnownAs(i, s, k)'
  BY <1>2, <1>6, <1>u DEF KnownAs
<1>14. NotificationsInv'
  <2> SUFFICES ASSUME NEW k \in DOMAIN toClient', Notifies(k)'
               PROVE  /\ \A j \in DOMAIN toClient' :
                            j < k /\ Confirms(j)' /\ toClient'[j].server_id = toClient'[k].server_id =>
                                active'[toClient'[k].server_id] = toClient'[k].topic
                      /\ \A i \in Entries' :
                            ~Waiting(i)' /\ subscriptions'[i].server_id = toClient'[k].server_id =>
                                subscriptions'[i].handle = toClient'[k].topic
                      /\ \A i \in Entries' :
                            subscriptions'[i].handle = toClient'[k].topic =>
                                KnownAs(i, toClient[k].server_id, k)'
    BY DEF NotificationsInv
  <2>1. CASE k \in DOMAIN toClient
    <3>1. Notifies(k) /\ toClient'[k] = toClient[k] /\ k \in Nat
      BY <2>1, <1>6, <1>f
    <3>2. \A j \in DOMAIN toClient' :
            j < k /\ Confirms(j)' /\ toClient'[j].server_id = toClient'[k].server_id =>
                active'[toClient'[k].server_id] = toClient'[k].topic
      BY <3>1, <2>1, <1>2, <1>6, <1>f DEF NotificationsInv
    <3>3. \A i \in Entries' :
            ~Waiting(i)' /\ subscriptions'[i].server_id = toClient'[k].server_id =>
                subscriptions'[i].handle = toClient'[k].topic
      BY <3>1, <2>1, <1>2, <1>u, <1>f DEF NotificationsInv
    <3>4. ASSUME NEW i \in Entries', subscriptions'[i].handle = toClient'[k].topic
          PROVE  KnownAs(i, toClient[k].server_id, k)'
      <4>1. i \in Entries /\ KnownAs(i, toClient[k].server_id, k)
        BY <3>1, <3>4, <2>1, <1>2, <1>u, <1>f DEF NotificationsInv
      <4>2. ASSUME NEW s, s = toClient[k].server_id PROVE KnownAs(i, s, k)'
        BY <4>1, <4>2, <3>1, <1>13
      <4> QED BY <4>2, <3>1
    <3> QED BY <3>2, <3>3, <3>4
  <2>2. CASE k = n + 1 /\ toClient'[k] = msg
    <3>1. ASSUME NEW i \in Entries', subscriptions'[i].handle = toClient'[k].topic
          PROVE  KnownAs(i, toClient[k].server_id, k)'
      <4>1. i \in Entries /\ KnownAs(i, d, k)
        BY <3>1, <2>2, <1>2, <1>3, <1>u, <1>f DEF ServerInv
      <4>2. KnownAs(i, d, k)'
        BY <4>1, <2>2, <1>13, <1>f
      <4>3. toClient'[k].server_id = d
        BY <2>2, <1>3
      <4> QED BY <4>2, <4>3
    <3> QED BY <3>1, <2>2, <1>2, <1>3, <1>u, <1>f DEF ServerInv
  <2> QED BY <2>1, <2>2, <1>6
<1>15. ServerInv'
  <2>1. ASSUME NEW s \in ServerIds, NEW i \in Entries, active[s] = subscriptions[i].handle
        PROVE  KnownAs(i, s, Len(toClient) + 1)'
    <3>1. KnownAs(i, s, n + 1)
      BY <2>1, <1>2, <1>f DEF ServerInv
    <3>2. ASSUME NEW k, k = n + 1 PROVE KnownAs(i, s, k + 1)'
      <4>1. k \in Nat /\ k + 1 \in Nat /\ k <= k + 1 /\ DOMAIN toClient' \subseteq Nat
        BY <3>2, <1>f, <1>5
      <4>2. KnownAs(i, s, k)'
        BY <3>1, <3>2, <4>1, <1>13
      <4> QED BY <4>1, <4>2, KnownLater
    <3> QED BY <3>2, <1>4
  <2> QED BY <2>1, <1>2, <1>u, <1>f DEF ServerInv
<1>16. NeverDeaf'
  <2> SUFFICES ASSUME NEW i \in Entries PROVE Heard(i)'
    BY <1>u, HeardAllNext
  <2>1. Heard(i)
    BY <1>2, <1>f, HeardAll
  <2> QED BY <2>1, <1>2, <1>6, <1>u DEF Heard
<1> QED BY <1>7, <1>8, <1>9, <1>10, <1>11, <1>12, <1>14, <1>15, <1>16 DEF PubSubInv

(* A message that is neither answer nor notification changes nothing.        *)
LEMMA NoiseKeeps ==
    ASSUME PubSubInv, ServerSendsNoise
    PROVE  PubSubInv'
<1> DEFINE n == Len(toClient)
           msg == [kind |-> "noise"]
<1>f. /\ TypeOK /\ Streams /\ HandlesInv /\ IdsInv /\ ToServerInv /\ ConfirmationsInv
      /\ NotificationsInv /\ ServerInv /\ NeverDeaf
      /\ toClient \in Seq(Answers) /\ n \in Nat /\ DOMAIN toClient = 1 .. n
  BY Facts
<1>1. peer /\ toClient' = Append(toClient, msg) /\ UNCHANGED <<client, peer, toServer, active, deaths>>
  BY DEF ServerSendsNoise
<1>2. /\ ws
      /\ UNCHANGED <<subscriptions, next_handle, next_request_id, backoff, quiet, ws, pc, remaining,
                     rejected, peer, toServer, active, deaths>>
  BY <1>1, <1>f DEF client, TypeOK
<1>3. msg \in Answers /\ msg.kind = "noise"
  BY DEF Answers
<1>4. /\ toClient' \in Seq(Answers) /\ Len(toClient') = n + 1
      /\ \A k \in 1 .. n : toClient'[k] = toClient[k]
      /\ toClient'[n + 1] = msg
  BY <1>1, <1>3, <1>f, AppendProperties
<1>5. DOMAIN toClient' = 1 .. n + 1
  BY <1>4, LenProperties
<1>6. /\ \A k \in DOMAIN toClient : /\ k \in DOMAIN toClient' /\ toClient'[k] = toClient[k]
                                    /\ Confirms(k)' = Confirms(k) /\ Notifies(k)' = Notifies(k)
      /\ \A k \in DOMAIN toClient' : Confirms(k)' \/ Notifies(k)' => k \in DOMAIN toClient
  BY <1>3, <1>4, <1>5, <1>f DEF Confirms, Notifies
<1>u. /\ Entries' = Entries /\ Registered' = Registered
      /\ \A i \in Entries : Waiting(i)' = Waiting(i)
      /\ \A k \in DOMAIN toServer : AsksFor(k)' = AsksFor(k) /\ GivesUp(k)' = GivesUp(k)
      /\ \A id : Age(id)' = Age(id)
      /\ Drawn' = Drawn
  BY <1>2 DEF Entries, Registered, Waiting, AsksFor, GivesUp, Age, Drawn
<1>7. TypeOK'
  BY <1>2, <1>f, <1>u DEF TypeOK
<1>8. Streams'
  BY <1>2, <1>4, <1>f DEF Streams
<1>9. HandlesInv'
  <2>1. ASSUME NEW k \in DOMAIN toClient', Notifies(k)' PROVE toClient'[k].topic < next_handle'
    BY <2>1, <1>2, <1>6, <1>f DEF HandlesInv
  <2> QED BY <2>1, <1>2, <1>u, <1>f DEF HandlesInv
<1>10. IdsInv'
  <2>1. ASSUME NEW k \in DOMAIN toClient', Confirms(k)' PROVE Age(toClient[k].id)' <= Drawn'
    <3>1. k \in DOMAIN toClient /\ Confirms(k) /\ toClient'[k] = toClient[k]
      BY <2>1, <1>6
    <3>2. Age(toClient[k].id) <= Drawn
      BY <3>1, <1>2, <1>f DEF IdsInv
    <3> QED BY <3>1, <3>2, <1>2 DEF Age, Drawn
  <2> QED BY <2>1, <1>2, <1>u, <1>f DEF IdsInv, Age, Drawn
<1>11. ToServerInv'
  BY <1>2, <1>u, <1>f DEF ToServerInv
<1>12. ConfirmationsInv'
  BY <1>2, <1>6, <1>u, <1>f DEF ConfirmationsInv
<1>13. \A i \in Entries : \A s : \A k \in Nat : KnownAs(i, s, k) => KnownAs(i, s, k)'
  BY <1>2, <1>6, <1>u DEF KnownAs
<1>14. NotificationsInv'
  <2> SUFFICES ASSUME NEW k \in DOMAIN toClient', Notifies(k)'
               PROVE  /\ \A j \in DOMAIN toClient' :
                            j < k /\ Confirms(j)' /\ toClient'[j].server_id = toClient'[k].server_id =>
                                active'[toClient'[k].server_id] = toClient'[k].topic
                      /\ \A i \in Entries' :
                            ~Waiting(i)' /\ subscriptions'[i].server_id = toClient'[k].server_id =>
                                subscriptions'[i].handle = toClient'[k].topic
                      /\ \A i \in Entries' :
                            subscriptions'[i].handle = toClient'[k].topic =>
                                KnownAs(i, toClient[k].server_id, k)'
    BY DEF NotificationsInv
  <2>1. k \in DOMAIN toClient /\ Notifies(k) /\ toClient'[k] = toClient[k] /\ k \in Nat
    BY <1>6, <1>f
  <2>2. \A j \in DOMAIN toClient' :
          j < k /\ Confirms(j)' /\ toClient'[j].server_id = toClient'[k].server_id =>
              active'[toClient'[k].server_id] = toClient'[k].topic
    BY <2>1, <1>2, <1>6, <1>f DEF NotificationsInv
  <2>3. \A i \in Entries' :
          ~Waiting(i)' /\ subscriptions'[i].server_id = toClient'[k].server_id =>
              subscriptions'[i].handle = toClient'[k].topic
    BY <2>1, <1>2, <1>u, <1>f DEF NotificationsInv
  <2>4. ASSUME NEW i \in Entries', subscriptions'[i].handle = toClient'[k].topic
        PROVE  KnownAs(i, toClient[k].server_id, k)'
    <3>1. i \in Entries /\ KnownAs(i, toClient[k].server_id, k)
      BY <2>1, <2>4, <1>2, <1>u, <1>f DEF NotificationsInv
    <3>2. ASSUME NEW s, s = toClient[k].server_id PROVE KnownAs(i, s, k)'
      BY <3>1, <3>2, <2>1, <1>13
    <3> QED BY <3>2, <2>1
  <2> QED BY <2>2, <2>3, <2>4
<1>15. ServerInv'
  <2>1. ASSUME NEW s \in ServerIds, NEW i \in Entries, active[s] = subscriptions[i].handle
        PROVE  KnownAs(i, s, Len(toClient) + 1)'
    <3>1. KnownAs(i, s, n + 1)
      BY <1>1, <2>1, <1>f DEF ServerInv
    <3>2. ASSUME NEW k, k = n + 1 PROVE KnownAs(i, s, k + 1)'
      <4>1. k \in Nat /\ k + 1 \in Nat /\ k <= k + 1 /\ DOMAIN toClient' \subseteq Nat
        BY <3>2, <1>f, <1>5
      <4>2. KnownAs(i, s, k)'
        BY <3>1, <3>2, <4>1, <1>13
      <4> QED BY <4>1, <4>2, KnownLater
    <3> QED BY <3>2, <1>4
  <2> QED BY <2>1, <1>2, <1>u, <1>f DEF ServerInv
<1>16. NeverDeaf'
  <2> SUFFICES ASSUME NEW i \in Entries PROVE Heard(i)'
    BY <1>u, HeardAllNext
  <2>1. Heard(i)
    BY <1>1, <1>f, HeardAll
  <2> QED BY <2>1, <1>2, <1>6, <1>u DEF Heard
<1> QED BY <1>7, <1>8, <1>9, <1>10, <1>11, <1>12, <1>14, <1>15, <1>16 DEF PubSubInv

-----------------------------------------------------------------------------
(* next_backoff (pubsub.c:309-320) keeps the delay within its bounds.         *)
LEMMA BackoffType ==
    ASSUME backoff \in BackoffInitial..BackoffMax
    PROVE  NextBackoff \in BackoffInitial..BackoffMax
<1>1. /\ BackoffInitial \in Nat /\ BackoffMax \in Nat /\ BackoffInitial <= BackoffMax
      /\ backoff \in Nat /\ backoff >= BackoffInitial
  BY PubSubAssumption
<1>2. BackoffMax \div 2 \in Nat /\ 2 * (BackoffMax \div 2) <= BackoffMax
  BY <1>1
<1>3. CASE backoff < BackoffMax \div 2
  <2>1. 2 * backoff \in Nat /\ 2 * backoff <= BackoffMax /\ 2 * backoff >= BackoffInitial
    BY <1>1, <1>2, <1>3
  <2> QED BY <2>1, <1>1, <1>3 DEF NextBackoff
<1>4. CASE ~(backoff < BackoffMax \div 2)
  BY <1>1, <1>4 DEF NextBackoff
<1> QED BY <1>3, <1>4

(* Every step of client, server and network keeps the invariant.              *)
LEMMA PubSubStep ==
    ASSUME IdsSuffice, PubSubInv, [Next]_vars
    PROVE  PubSubInv'
<1>s. Scalars
  BY Facts
<1>b. NextBackoff \in BackoffInitial..BackoffMax
  BY <1>s, BackoffType DEF Scalars
<1>1. CASE Subscribe
  BY <1>1, SubscribeKeeps
<1>2. CASE SubscribeSendFails \/ SubscribeOffline
  BY <1>2, SubscribeOfflineKeeps
<1>3. ASSUME NEW i \in DOMAIN subscriptions, Unsubscribe(i) PROVE PubSubInv'
  BY <1>3, UnsubscribeKeeps DEF Entries
<1>4. CASE Close
  <2>1. /\ DropConnection(<<>>) /\ UNCHANGED <<next_handle, next_request_id>>
        /\ pc' = "closed" /\ UNCHANGED <<backoff, quiet, remaining, deaths>>
    BY <1>4 DEF Close
  <2>2. Scalars'
    BY <2>1, <1>s DEF Scalars
  <2> QED BY <2>1, <2>2, GiveUpKeeps
<1>5. CASE Poll \/ PollExpires \/ PollTooSoon \/ ConnectFails
  <2>1. UNCHANGED core
    BY <1>5 DEF Poll, PollExpires, PollTooSoon, ConnectFails, core, network
  <2>2. Scalars'
    <3>1. PollTimeout \in 0..PollTimeout
      BY PubSubAssumption
    <3>2. CASE Poll
      BY <3>1, <3>2, <1>s DEF Poll, Scalars, network
    <3>3. CASE PollExpires
      BY <3>3, <1>s DEF PollExpires, Scalars, network
    <3>4. CASE PollTooSoon
      BY <3>4, <1>s, <1>b, PubSubAssumption DEF PollTooSoon, InPoll, Scalars, network
    <3>5. CASE ConnectFails
      BY <3>5, <1>s, <1>b, PubSubAssumption DEF ConnectFails, Reconnecting, InPoll, Scalars, network
    <3> QED BY <1>5, <3>2, <3>3, <3>4, <3>5
  <2> QED BY <2>1, <2>2, StillKeeps
<1>6. CASE Establish
  BY <1>6, EstablishKeeps
<1>7. ASSUME NEW n \in DOMAIN subscriptions, EstablishSendFails(n) PROVE PubSubInv'
  BY <1>7, EstablishSendFailsKeeps DEF Entries
<1>8. CASE RecvTimeout
  <2> DEFINE time == Least(quiet + remaining, IdleTimeout + 1)
  <2>1. /\ InPoll(0) /\ UNCHANGED <<next_handle, next_request_id, backoff, deaths>>
        /\ IF Idle(time)
           THEN DropConnection(subscriptions) /\ UNCHANGED <<pc, quiet>>
           ELSE /\ pc' = "caller"
                /\ quiet' = time
                /\ UNCHANGED <<subscriptions, ws, rejected, peer, toServer, toClient, active>>
    BY <1>8 DEF RecvTimeout
  <2>2. time \in 0..(IdleTimeout + 1)
    BY <1>s, PubSubAssumption DEF Scalars, Least
  <2>3. remaining' \in 0..PollTimeout
    BY <2>1, <1>s, PubSubAssumption DEF InPoll, Scalars
  <2> HIDE DEF time
  <2>4. CASE Idle(time)
    <3>1. Scalars'
      BY <2>1, <2>3, <2>4, <1>s DEF Scalars
    <3> QED BY <3>1, <2>1, <2>4, GiveUpKeeps
  <2>5. CASE ~Idle(time)
    <3>1. Scalars'
      BY <2>1, <2>2, <2>3, <2>5, <1>s DEF Scalars
    <3>2. UNCHANGED core
      BY <2>1, <2>5 DEF core
    <3> QED BY <3>1, <3>2, StillKeeps
  <2> QED BY <2>4, <2>5
<1>9. CASE RecvLost
  <2>1. /\ DropConnection(subscriptions) /\ UNCHANGED <<next_handle, next_request_id>>
    BY <1>9 DEF RecvLost
  <2>2. Scalars'
    BY <1>9, <1>s, PubSubAssumption DEF RecvLost, InPoll, Scalars
  <2> QED BY <2>1, <2>2, GiveUpKeeps
<1>10. CASE RecvTooLong \/ PeerDies
  BY <1>10, LossKeeps
<1>11. CASE Receive
  BY <1>11, DispatchKeeps, ConfirmKeeps DEF Receive
<1>12. CASE ServerAnswers
  BY <1>12, AcceptKeeps, RefuseKeeps DEF ServerAnswers
<1>13. ASSUME NEW d \in ServerIds, ServerNotifies(d) PROVE PubSubInv'
  BY <1>13, NotifyKeeps
<1>15. CASE ServerSendsNoise
  BY <1>15, NoiseKeeps
<1>14. CASE UNCHANGED vars
  <2>1. UNCHANGED core /\ UNCHANGED <<backoff, quiet, pc, remaining, deaths>>
    BY <1>14 DEF vars, client, network, core
  <2>2. Scalars'
    BY <2>1, <1>s DEF Scalars
  <2> QED BY <2>1, <2>2, StillKeeps
<1> QED BY <1>1, <1>2, <1>3, <1>4, <1>5, <1>6, <1>7, <1>8, <1>9, <1>10, <1>11, <1>12, <1>13, <1>14,
           <1>15 DEF Next

(* Registry, request ids, messages under way and the server's subscriptions   *)
(* agree at any moment, through reconnects, lost answers and reused ids.      *)
THEOREM PubSubInvariant == IdsSuffice => (Spec => []PubSubInv)
<1> SUFFICES ASSUME IdsSuffice PROVE Spec => []PubSubInv
  OBVIOUS
<1>1. Init => PubSubInv
  BY PubSubInit
<1>2. PubSubInv /\ [Next]_vars => PubSubInv'
  BY PubSubStep
<1> QED BY <1>1, <1>2, PTL DEF Spec

(* "A caller never observes a connected-but-unsubscribed state"               *)
(* (pubsub.c:136-137), for any number of subscriptions and reconnects.        *)
THEOREM PubSubNeverDeaf == IdsSuffice => (Spec => []NeverDeaf)
<1> SUFFICES ASSUME IdsSuffice PROVE Spec => []NeverDeaf
  OBVIOUS
<1>1. PubSubInv => NeverDeaf
  BY DEF PubSubInv
<1>2. Spec => []PubSubInv
  BY PubSubInvariant
<1> QED BY <1>1, <1>2, PTL

(* dispatch (pubsub.c:394-416) hands a notification over as the subscription  *)
(* it was sent for, and drops it only when that one was removed.              *)
THEOREM PubSubRouted == IdsSuffice => (Spec => []Routed)
<1> SUFFICES ASSUME IdsSuffice PROVE Spec => []Routed
  OBVIOUS
<1>1. PubSubInv => Routed
  <2> SUFFICES ASSUME PubSubInv, NEW k \in DOMAIN toClient, k = 1, Notifies(k)
               PROVE  LET i == FindByServerId(toClient[k].server_id)
                      IN  IF toClient[k].topic \in Registered
                          THEN i # 0 /\ subscriptions[i].handle = toClient[k].topic
                          ELSE i = 0
    BY DEF Routed, Notifies
  <2> DEFINE i == FindByServerId(toClient[k].server_id)
  <2>1. /\ i = 0 => \A j \in Entries : ~Waiting(j) => subscriptions[j].server_id # toClient[k].server_id
        /\ i # 0 => i \in Entries /\ ~Waiting(i) /\ subscriptions[i].server_id = toClient[k].server_id
    BY FoundByServerId
  <2> HIDE DEF i
  <2>2. /\ NotificationsInv /\ DOMAIN toClient = 1 .. Len(toClient) /\ Len(toClient) \in Nat
    BY Facts
  <2>3. i # 0 => subscriptions[i].handle = toClient[k].topic
    BY <2>1, <2>2 DEF NotificationsInv
  <2>4. i # 0 => toClient[k].topic \in Registered
    BY <2>1, <2>3 DEF Registered, Entries
  <2>5. ASSUME toClient[k].topic \in Registered PROVE i # 0
    <3>1. PICK j \in Entries : subscriptions[j].handle = toClient[k].topic
      BY <2>5 DEF Registered, Entries
    <3>2. KnownAs(j, toClient[k].server_id, k)
      BY <3>1, <2>2 DEF NotificationsInv
    <3>3. ~ \E l \in DOMAIN toClient : l < k
      BY <2>2
    <3>4. ~Waiting(j) /\ subscriptions[j].server_id = toClient[k].server_id
      BY <3>2, <3>3 DEF KnownAs
    <3> QED BY <3>1, <3>4, <2>1
  <2> QED BY <2>3, <2>4, <2>5 DEF i
<1>2. Spec => []PubSubInv
  BY PubSubInvariant
<1> QED BY <1>1, <1>2, PTL
=============================================================================
