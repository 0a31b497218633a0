----------------------------- MODULE RpcProofs ------------------------------
(***************************************************************************)
(* Proofs about Rpc, for any number of endpoints, any limits, any chain    *)
(* and any batch: who was asked before a call gave up, whose fault a       *)
(* malformed answer is, and what the answers of ranges and batches are.    *)
(***************************************************************************)
EXTENDS Rpc, FiniteSetTheorems, SequenceTheorems, WellFoundedInduction, TLAPS

-----------------------------------------------------------------------------
(* NATURAL NUMBERS.  The theorems of NaturalsInduction take an operator;     *)
(* these take a set, and what is proved of every number is membership in it. *)

(* A set of natural numbers that has a member has a least one.               *)
LEMMA LeastNatural ==
    ASSUME NEW T, T \subseteq Nat, T # {}
    PROVE  \E x \in T : \A y \in T : x <= y
<1>1. IsWellFoundedOn(OpToRel(<, Nat), Nat)
  BY NatLessThanWellFounded
<1>2. PICK x \in T : \A y \in T : ~ (<<y, x>> \in OpToRel(<, Nat))
  BY <1>1, WFMin
<1>3. \A y \in T : ~ (y < x)
  BY <1>2 DEF OpToRel
<1> QED BY <1>3

(* A set that has 0, and with every number its successor, has them all.      *)
LEMMA SetInduction ==
    ASSUME NEW S, 0 \in S, \A n \in Nat : n \in S => n + 1 \in S
    PROVE  \A n \in Nat : n \in S
<1> DEFINE T == Nat \ S
<1>1. SUFFICES ASSUME T # {} PROVE FALSE
  OBVIOUS
<1>2. PICK x \in T : \A y \in T : x <= y
  BY <1>1, LeastNatural
<1>3. x # 0 /\ x \in Nat
  OBVIOUS
<1>4. x - 1 \in Nat /\ x - 1 \notin T
  BY <1>2, <1>3
<1> QED BY <1>4, <1>3

(* A set of integers below a bound that has a member has a greatest one.     *)
LEMMA GreatestNatural ==
    ASSUME NEW T, T \subseteq Int, T # {}, NEW n \in Int, \A x \in T : x <= n
    PROVE  \E x \in T : \A y \in T : x >= y
<1> DEFINE D == {n - x : x \in T}
<1>1. D \subseteq Nat
  <2>1. \A x \in T : n - x \in Nat
    OBVIOUS
  <2> QED BY <2>1
<1>a. D # {}
  OBVIOUS
<1>2. PICK d \in D : \A e \in D : d <= e
  BY <1>1, <1>a, LeastNatural
<1>3. PICK x \in T : d = n - x
  OBVIOUS
<1>4. ASSUME NEW y \in T PROVE x >= y
  <2>1. n - y \in D
    OBVIOUS
  <2> QED BY <2>1, <1>2, <1>3
<1> QED BY <1>4

-----------------------------------------------------------------------------

(* How many rotations ago the client left endpoint u, if it went round       *)
(* without stopping; Endpoints for the one it is at.                         *)
Behind(u) == IF u < url THEN url - u ELSE url - u + Endpoints

Asking == pc = "send" \/ (pc = "idle" /\ out.status = "NETWORK")

(* The endpoints of the last attempts have been asked. *)
Rotation ==
    Asking => /\ pc = "idle" => attempt = Attempts
              /\ \A u \in Urls : Behind(u) <= attempt => u \in tried

(* The buffer holds the one document the endpoint sent for this call. *)
Answered == pc = "reply" => \E doc \in Docs : response = <<doc>>

Calls ==
    [method : Methods \cup {"getBlocks", "batch"}, first : Ids,
     start : Slots, end : Slots, from : Slots, to : Slots]

(* The chunk in progress lies in the range. *)
Shapes ==
    /\ call \in Calls
    /\ slots \in Seq(Slots)
    /\ call.method = "getBlocks" =>
          call.start <= call.from /\ call.from <= call.to /\ call.to <= call.end

(* While a range is in progress the vector holds the chunks before, with the  *)
(* slots every endpoint has all there.                                        *)
Listed(last) ==
    /\ Ascending(slots)
    /\ ToSet(slots) \subseteq Chain \cap (call.start .. last)

Complete(last) ==
    \A s \in Chain \cap (call.start .. last) : (\A u \in Urls : s <= Tip[u]) => s \in ToSet(slots)

Ranges ==
    call.method = "getBlocks" =>
        /\ pc # "idle" => Listed(call.from - 1) /\ Complete(call.from - 1)
        /\ pc = "idle" /\ out.status # "RANGE" =>
              /\ Listed(call.to) /\ Complete(call.from - 1)
              /\ out.status = "OK" => Complete(call.end)

(* The inductive invariant. *)
RpcInv ==
    /\ TypeOK /\ Shapes /\ Rotation /\ Answered /\ Ranges
    /\ ParseBlamesAnswer /\ BatchMatched

-----------------------------------------------------------------------------
(* A finite set of slots can be listed in ascending order, so Listing, which  *)
(* chooses such a list, has one to choose.                                    *)
LEMMA SortedListing ==
    ASSUME NEW T \in SUBSET Slots
    PROVE  \E q \in [1 .. Cardinality(T) -> T] : Ascending(q) /\ ToSet(q) = T
<1> DEFINE Sorted(U) == \E q \in [1 .. Cardinality(U) -> U] : Ascending(q) /\ ToSet(q) = U
           S == {n \in Nat : \A U \in SUBSET Slots : Cardinality(U) = n => Sorted(U)}
<1>m. MaxSlot \in Nat /\ MaxSlot \in Int
  BY ConstantsOK
<1>f. ASSUME NEW U \in SUBSET Slots PROVE IsFiniteSet(U) /\ Cardinality(U) \in Nat
  <2>1. U \in SUBSET Nat /\ \A x \in U : x <= MaxSlot
    BY <1>m DEF Slots
  <2>2. IsFiniteSet(U)
    BY <2>1, <1>m, FS_BoundedSetOfNaturals
  <2> QED BY <2>2, FS_CardinalityType
<1>1. 0 \in S
  <2> SUFFICES ASSUME NEW U \in SUBSET Slots, Cardinality(U) = 0 PROVE Sorted(U)
    OBVIOUS
  <2>1. U = {}
    BY <1>f, FS_EmptySet
  <2> DEFINE q == [i \in 1 .. 0 |-> 0]
  <2>2. q \in [1 .. Cardinality(U) -> U] /\ Len(q) = 0
    OBVIOUS
  <2>3. Ascending(q) /\ ToSet(q) = U
    BY <2>1, <2>2 DEF Ascending, ToSet
  <2> QED BY <2>2, <2>3
<1>2. ASSUME NEW n \in Nat, n \in S PROVE n + 1 \in S
  <2> SUFFICES ASSUME NEW U \in SUBSET Slots, Cardinality(U) = n + 1 PROVE Sorted(U)
    OBVIOUS
  <2>1. U # {} /\ U \subseteq Int /\ \A x \in U : x <= MaxSlot
    BY <1>f, FS_EmptySet, ConstantsOK DEF Slots
  <2>2. PICK m \in U : \A y \in U : m >= y
    BY <2>1, <1>m, GreatestNatural
  <2>3. Cardinality(U \ {m}) = n /\ U \ {m} \in SUBSET Slots
    BY <1>f, FS_RemoveElement
  <2>4. PICK q \in [1 .. n -> U \ {m}] : Ascending(q) /\ ToSet(q) = U \ {m}
    BY <2>3, <1>2
  <2> DEFINE r == [i \in 1 .. n + 1 |-> IF i = n + 1 THEN m ELSE q[i]]
  <2>5. r \in [1 .. n + 1 -> U] /\ Len(r) = n + 1 /\ Len(q) = n
    BY <2>4
  <2>6. Ascending(r)
    <3> SUFFICES ASSUME NEW i \in 1 .. n + 1, NEW j \in 1 .. n + 1, i < j PROVE r[i] < r[j]
      BY <2>5 DEF Ascending
    <3>1. CASE j = n + 1
      <4>1. i \in 1 .. n /\ r[i] = q[i] /\ q[i] \in U \ {m} /\ r[j] = m
        BY <3>1
      <4>2. q[i] # m /\ m >= q[i] /\ q[i] \in Int /\ m \in Int
        BY <4>1, <2>2, <2>1
      <4> HIDE DEF r
      <4> QED BY <4>1, <4>2
    <3>2. CASE j # n + 1
      BY <3>2, <2>4, <2>5 DEF Ascending
    <3> QED BY <3>1, <3>2
  <2>7. ToSet(r) = U
    <3>1. ASSUME NEW x \in U PROVE \E i \in 1 .. n + 1 : r[i] = x
      <4>1. CASE x = m
        BY <4>1
      <4>2. CASE x # m
        <5>1. PICK i \in 1 .. n : q[i] = x
          BY <4>2, <2>4, <2>5 DEF ToSet
        <5> QED BY <5>1
      <4> QED BY <4>1, <4>2
    <3> QED BY <3>1, <2>5 DEF ToSet
  <2> QED BY <2>5, <2>6, <2>7
<1>3. \A n \in Nat : n \in S
  BY <1>1, <1>2, SetInduction
<1> QED BY <1>3, <1>f

(* What an endpoint lists for a chunk: the slots it has, once and in order.   *)
LEMMA ListingSorted ==
    ASSUME NEW u, NEW from \in Slots, NEW to \in Slots
    PROVE  /\ Listing(u, from, to) \in Seq(Slots)
           /\ Ascending(Listing(u, from, to))
           /\ ToSet(Listing(u, from, to)) = Held(u, from, to)
<1> DEFINE held == Held(u, from, to)
<1>1. held \in SUBSET Slots
  BY ConstantsOK DEF Held, Slots
<1>2. \E q \in [1 .. Cardinality(held) -> held] : Ascending(q) /\ ToSet(q) = held
  BY <1>1, SortedListing
<1> HIDE DEF held
<1>3. /\ Listing(u, from, to) \in [1 .. Cardinality(held) -> held]
      /\ Ascending(Listing(u, from, to)) /\ ToSet(Listing(u, from, to)) = held
  BY <1>2 DEF Listing, held
<1>4. Cardinality(held) \in Nat
  BY <1>1, FS_BoundedSetOfNaturals, FS_CardinalityType, ConstantsOK DEF Slots
<1>5. Listing(u, from, to) \in Seq(Slots)
  BY <1>1, <1>3, <1>4
<1> QED BY <1>3, <1>5 DEF held

-----------------------------------------------------------------------------
(* The arithmetic of the chunks (rpc.c 634-637): a chunk begins and ends in   *)
(* the range, whatever the limit, and the next one does too.                  *)
LEMMA ChunkFits ==
    ASSUME NEW from \in Slots, NEW end \in Slots, from <= end
    PROVE  /\ ChunkEnd(from, end) \in Slots
           /\ from <= ChunkEnd(from, end) /\ ChunkEnd(from, end) <= end
<1>1. Limit \in Nat /\ Limit >= 1
  BY ConstantsOK DEF Limit
<1> QED BY <1>1, ConstantsOK DEF ChunkEnd, Slots

(* The initial client satisfies the invariant. *)
LEMMA RpcInitially == Init => RpcInv
<1> SUFFICES ASSUME Init PROVE RpcInv
  OBVIOUS
<1> USE DEF Init
<1>0. 0 \in Slots /\ 0 \in Urls /\ 0 \in Ids /\ 1 \in Ids /\ Attempts \in Nat
  BY ConstantsOK DEF Slots, Urls, Ids, Attempts
<1>1. TypeOK
  BY <1>0 DEF TypeOK, Methods, Status, Statuses
<1>2. Shapes
  BY <1>0 DEF Shapes, Calls, Methods
<1> QED
  BY <1>1, <1>2 DEF RpcInv, Rotation, Asking, Answered, Ranges, ParseBlamesAnswer, BatchMatched,
     Status

(* What sending a request leaves behind, whichever request it is.             *)
LEMMA SendKeeps ==
    ASSUME RpcInv, NEW request \in Calls, NEW count \in Nat, Send(request, count),
           url' = url, slots' \in Seq(Slots), out'.status \in Statuses
    PROVE  TypeOK' /\ Rotation' /\ Answered' /\ ParseBlamesAnswer' /\ BatchMatched'
<1> USE DEF Send
<1>1. (nextId + count) % Word \in Ids /\ Attempts \in Nat /\ Attempts >= 1
  BY ConstantsOK DEF RpcInv, TypeOK, Ids, Attempts
<1>2. TypeOK'
  <2>1. \A i \in 1 .. Len(slots') : slots'[i] \in Slots
    BY ElementOfSeq
  <2> QED BY <1>1, <2>1 DEF RpcInv, TypeOK, Calls
<1>3. Rotation'
  <2> SUFFICES ASSUME NEW u \in Urls PROVE Behind(u)' >= 1 /\ Behind(u)' \in Int
    BY DEF Rotation
  <2> QED BY ConstantsOK DEF Behind, RpcInv, TypeOK, Urls
<1>4. Answered' /\ ParseBlamesAnswer' /\ BatchMatched'
  BY DEF Answered, ParseBlamesAnswer, BatchMatched
<1> QED BY <1>2, <1>3, <1>4

(* The documents an endpoint may send depend on the endpoint and the call.    *)
LEMMA DocsStay ==
    ASSUME url' = url, call' = call
    PROVE  Docs' = Docs
  BY DEF Docs

(* A single call and a batch, from the first byte to the last (rpc.c 395-410, *)
(* 450-480, 550-600).                                                         *)
LEMMA CallKeeps ==
    ASSUME RpcInv, NEW method \in Methods, Call(method)
    PROVE  RpcInv'
<1> USE DEF Call
<1>1. Request(method, NoRange) \in Calls /\ Request(method, NoRange).method # "getBlocks"
  BY ConstantsOK DEF Request, NoRange, Calls, Slots, Methods, RpcInv, TypeOK
<1>2. slots' \in Seq(Slots) /\ out'.status \in Statuses
  BY DEF Status, Statuses
<1>3. TypeOK' /\ Rotation' /\ Answered' /\ ParseBlamesAnswer' /\ BatchMatched'
  BY <1>1, <1>2, SendKeeps
<1>4. Shapes' /\ Ranges'
  BY <1>1, <1>2 DEF Send, Shapes, Ranges
<1> QED BY <1>3, <1>4 DEF RpcInv

(* idx_rpc_call_batch (rpc.c 438-467) begins like any call, with nothing      *)
(* answered yet.                                                              *)
LEMMA BatchKeeps ==
    ASSUME RpcInv, Batch
    PROVE  RpcInv'
<1> USE DEF Batch
<1>1. /\ Request("batch", NoRange) \in Calls /\ Request("batch", NoRange).method # "getBlocks"
      /\ BatchSize \in Nat
  BY ConstantsOK DEF Request, NoRange, Calls, Slots, Methods, RpcInv, TypeOK
<1>2. slots' \in Seq(Slots) /\ out'.status \in Statuses
  BY DEF Status, Statuses
<1>3. TypeOK' /\ Rotation' /\ Answered' /\ ParseBlamesAnswer' /\ BatchMatched'
  BY <1>1, <1>2, SendKeeps
<1>4. Shapes' /\ Ranges'
  BY <1>1, <1>2 DEF Send, Shapes, Ranges
<1> QED BY <1>3, <1>4 DEF RpcInv

(* The first chunk of a range, or the refusal of an empty one (rpc.c 605-632). *)
LEMMA GetBlocksKeeps ==
    ASSUME RpcInv, NEW start \in Slots, NEW end \in Slots, GetBlocks(start, end)
    PROVE  RpcInv'
<1> USE DEF GetBlocks
<1>0. slots' \in Seq(Slots) /\ slots' = <<>> /\ Len(slots') = 0
  OBVIOUS
<1>1. CASE end < start
  <2>1. TypeOK' /\ Shapes'
    BY <1>0, <1>1 DEF RpcInv, TypeOK, Shapes, Return, Status, Statuses
  <2>2. Rotation' /\ Answered' /\ Ranges' /\ ParseBlamesAnswer' /\ BatchMatched'
    BY <1>1 DEF Return, Status, Rotation, Asking, Answered, Ranges, ParseBlamesAnswer, BatchMatched
  <2> QED BY <2>1, <2>2 DEF RpcInv
<1>2. CASE ~(end < start)
  <2> DEFINE request == Request("getBlocks", Chunk(start, end, start))
  <2>1. start <= end /\ start <= start
    BY <1>2, ConstantsOK DEF Slots
  <2>2. /\ ChunkEnd(start, end) \in Slots
        /\ start <= ChunkEnd(start, end) /\ ChunkEnd(start, end) <= end
    BY <2>1, ChunkFits
  <2>3. /\ request \in Calls /\ request.start = start /\ request.from = start
        /\ request.to = ChunkEnd(start, end) /\ request.end = end
    BY <2>2 DEF Request, Chunk, Calls, RpcInv, TypeOK
  <2> HIDE DEF request
  <2>4. Send(request, 1) /\ out'.status \in Statuses /\ url' = url
    BY <1>2 DEF request, Status, Statuses
  <2>5. TypeOK' /\ Rotation' /\ Answered' /\ ParseBlamesAnswer' /\ BatchMatched'
    BY <1>0, <2>3, <2>4, SendKeeps
  <2>6. Shapes'
    BY <1>0, <2>1, <2>2, <2>3, <2>4 DEF Send, Shapes
  <2>7. Ranges'
    <3>1. call' = request /\ pc' = "send"
      BY <2>4 DEF Send
    <3>2. start .. start - 1 = {}
      BY ConstantsOK DEF Slots
    <3>3. ToSet(slots') = {} /\ Ascending(slots')
      BY <1>0 DEF ToSet, Ascending
    <3> QED BY <3>1, <3>2, <3>3, <2>3 DEF Ranges, Listed, Complete
  <2> QED BY <2>5, <2>6, <2>7 DEF RpcInv
<1> QED BY <1>1, <1>2

(* A round trip (send_with_retries, rpc.c 336-380).                           *)
LEMMA AttemptKeeps ==
    ASSUME RpcInv, Attempt
    PROVE  RpcInv'
<1> USE DEF Attempt
<1>0. /\ url \in Urls /\ Attempts \in Nat /\ attempt \in Nat /\ attempt < Attempts
      /\ tried \subseteq Urls /\ tried' = tried \cup {url}
  BY ConstantsOK DEF RpcInv, TypeOK, Attempts
<1>1. ASSUME NEW doc \in Docs, Http200(doc)
      PROVE  RpcInv'
  <2> USE <1>1 DEF Http200
  <2>1. TypeOK' /\ Shapes'
    BY <1>0 DEF RpcInv, TypeOK, Shapes
  <2>2. Answered'
    <3>1. Docs' = Docs
      BY DocsStay
    <3> QED BY <3>1 DEF Answered, Received
  <2>3. Ranges'
    BY DEF RpcInv, Ranges, Listed, Complete
  <2>4. Rotation' /\ ParseBlamesAnswer' /\ BatchMatched'
    BY DEF Rotation, Asking, ParseBlamesAnswer, BatchMatched
  <2> QED BY <2>1, <2>2, <2>3, <2>4 DEF RpcInv
<1>2. CASE Refused
  <2> USE <1>2 DEF Refused, Return, Status
  <2>1. TypeOK' /\ Shapes'
    BY <1>0 DEF RpcInv, TypeOK, Shapes, Statuses
  <2>2. Ranges'
    <3>1. /\ Shapes /\ call' = call /\ slots' = slots /\ pc' = "idle" /\ out'.status = "REMOTE"
          /\ call.method = "getBlocks" => Listed(call.from - 1) /\ Complete(call.from - 1)
      BY DEF RpcInv, Ranges
    <3>2. call.method = "getBlocks" => Listed(call.to)
      BY <3>1 DEF Listed, Shapes, Calls, Slots
    <3> QED BY <3>1, <3>2 DEF Ranges, Listed, Complete
  <2>3. Rotation' /\ Answered' /\ ParseBlamesAnswer' /\ BatchMatched'
    BY DEF Rotation, Asking, Answered, ParseBlamesAnswer, BatchMatched
  <2> QED BY <2>1, <2>2, <2>3 DEF RpcInv
<1>3. ASSUME NEW body, Transient(body)
      PROVE  RpcInv'
  <2> USE <1>3 DEF Transient, Return, Status
  <2>0. /\ url' \in Urls /\ (Endpoints < 2 => url' = url)
        /\ (Endpoints >= 2 => url' = IF url + 1 = Endpoints THEN 0 ELSE url + 1)
    <3>1. Endpoints \in Nat /\ Endpoints >= 1 /\ url \in 0 .. Endpoints - 1
      BY <1>0, ConstantsOK DEF Urls
    <3>2. url + 1 = Endpoints => (url + 1) % Endpoints = 0
      BY <3>1, Z3
    <3>3. url + 1 # Endpoints => (url + 1) % Endpoints = url + 1
      BY <3>1, Z3
    <3> QED BY <3>1, <3>2, <3>3 DEF Rotated, Urls
  <2>1. TypeOK' /\ Shapes'
    BY <1>0, <2>0 DEF RpcInv, TypeOK, Shapes, Statuses
  <2>2. Ranges'
    <3>1. /\ Shapes /\ call' = call /\ slots' = slots /\ pc = "send"
          /\ pc' = "send" \/ (pc' = "idle" /\ out'.status = "NETWORK")
          /\ call.method = "getBlocks" => Listed(call.from - 1) /\ Complete(call.from - 1)
      BY DEF RpcInv, Ranges
    <3>2. call.method = "getBlocks" => Listed(call.to)
      BY <3>1 DEF Listed, Shapes, Calls, Slots
    <3> QED BY <3>1, <3>2 DEF Ranges, Listed, Complete
  <2>3. Rotation'
    <3>1. pc' = "idle" => attempt' = Attempts
      BY <1>0
    <3>2. ASSUME NEW u \in Urls, Behind(u)' <= attempt' PROVE u \in tried'
      <4>1. CASE u = url
        BY <4>1, <1>0
      <4>2. CASE u # url
        <5>1. Endpoints >= 2 /\ Behind(u)' = Behind(u) + 1 /\ Behind(u) \in Int
          BY <4>2, <2>0, <1>0, ConstantsOK DEF Behind, Urls
        <5> QED BY <5>1, <3>2, <1>0 DEF RpcInv, Rotation, Asking
      <4> QED BY <4>1, <4>2
    <3> QED BY <3>1, <3>2 DEF Rotation
  <2>4. Answered' /\ ParseBlamesAnswer' /\ BatchMatched'
    BY DEF Answered, ParseBlamesAnswer, BatchMatched
  <2> QED BY <2>1, <2>2, <2>3, <2>4 DEF RpcInv
<1> QED BY <1>1, <1>2, <1>3

-----------------------------------------------------------------------------
(* How a document is judged (rpc.c 258-300, 404-440): never as a failure of   *)
(* the network, and as malformed only for what it is.                         *)
LEMMA Judged ==
    ASSUME NEW doc
    PROVE  /\ CallStatus(doc) \in {"OK", "NOT_FOUND", "REMOTE", "PARSE"}
           /\ WrapperStatus(doc) \in {"OK", "NOT_FOUND", "REMOTE", "PARSE"}
           /\ CallStatus(doc) = "OK" => doc.kind \notin {"garbage", "error", "empty"}
           /\ CallStatus(doc) = "PARSE" => doc.kind \in {"garbage", "empty"}
           /\ WrapperStatus(doc) = "OK" =>
                 doc.kind \notin {"garbage", "error", "empty", "mistyped", "unhealthy"}
           /\ WrapperStatus(doc) = "PARSE" => doc.kind \in {"garbage", "empty", "mistyped"}
<1>1. /\ CallStatus(doc) \in {"OK", "NOT_FOUND", "REMOTE", "PARSE"}
      /\ CallStatus(doc) = "OK" => doc.kind \notin {"garbage", "error", "empty"}
      /\ CallStatus(doc) = "PARSE" => doc.kind \in {"garbage", "empty"}
  BY DEF CallStatus, Classify
<1> QED BY <1>1 DEF WrapperStatus

(* What a reply finds in the buffer. *)
LEMMA ParsedIsAnswer ==
    ASSUME RpcInv, pc = "reply"
    PROVE  Parsed \in Docs /\ response = <<Parsed>> /\ Len(response) = 1
<1>1. PICK doc \in Docs : response = <<doc>>
  BY DEF RpcInv, Answered
<1>2. Parsed = doc
  BY <1>1 DEF Parsed
<1> QED BY <1>1, <1>2

(* The end of a single call (rpc.c 403-424): its status comes from the one    *)
(* document in the buffer.                                                    *)
LEMMA CallReplyKeeps ==
    ASSUME RpcInv, CallReply
    PROVE  RpcInv'
<1> USE DEF CallReply, Return, Status
<1> DEFINE status == WrapperStatus(Parsed)
<1>0. /\ status \in {"OK", "NOT_FOUND", "REMOTE", "PARSE"}
      /\ status = "PARSE" => Parsed.kind \in {"garbage", "empty", "mistyped"}
      /\ Len(response) = 1 /\ Parsed' = Parsed
  BY Judged, ParsedIsAnswer DEF Parsed
<1>1. pc' = "idle" /\ out'.status = status /\ call.method \notin {"getBlocks", "batch"}
  BY DEF Methods
<1> HIDE DEF status
<1>2. TypeOK' /\ Shapes'
  BY <1>0, <1>1 DEF RpcInv, TypeOK, Shapes, Statuses
<1>3. Rotation' /\ Answered' /\ Ranges' /\ ParseBlamesAnswer' /\ BatchMatched'
  BY <1>0, <1>1 DEF Rotation, Asking, Answered, Ranges, ParseBlamesAnswer, BatchMatched
<1> QED BY <1>2, <1>3 DEF RpcInv

(* The entries of a batch are matched by their ids (rpc.c 450-523).           *)
LEMMA AnswersMatched ==
    ASSUME NEW es \in Seq(Entries), NEW i \in 0 .. BatchSize - 1, call.first \in Ids
    PROVE  LET a == BatchAnswers(es)[i] IN
           /\ a.status = "OK" => a.answerTo = call.first + i
           /\ \A k \in 1 .. Len(es) :
                 (es[k].id = call.first + i /\ \A j \in 1 .. Len(es) : es[j].id = es[k].id => j = k)
                   => a.status = CallStatus(es[k].doc)
<1> DEFINE ks == Answering(es, i)
           rs == {k \in ks : es[k].doc.kind = "result"}
           a == BatchAnswers(es)[i]
<1>0. /\ a.status = IF ks = {} THEN "NOT_FOUND" ELSE CallStatus(es[Max(ks)].doc)
      /\ a.answerTo = IF rs = {} THEN -1 ELSE es[Max(rs)].id
  BY DEF BatchAnswers
<1>1. \A k \in 1 .. Len(es) : es[k].id \in Nat /\ es[k] \in Entries
  <2>1. \A k \in 1 .. Len(es) : es[k] \in Entries
    BY ElementOfSeq
  <2>2. Ids \subseteq Nat
    BY ConstantsOK DEF Ids
  <2>3. \A e \in Entries : e.id \in Ids
    BY DEF Entries
  <2> QED BY <2>1, <2>2, <2>3
<1>2. /\ ks \subseteq 1 .. Len(es) /\ ks \subseteq Int /\ \A k \in ks : k <= Len(es)
      /\ call.first \in Nat /\ i \in Nat /\ Len(es) \in Int
      /\ \A k \in 1 .. Len(es) : k \in ks <=> es[k].id = call.first + i
  BY <1>1, ConstantsOK DEF Answering, Ids
<1>3. ASSUME NEW T, T \subseteq ks, T # {} PROVE Max(T) \in T /\ \A y \in T : Max(T) >= y
  <2> DEFINE n == Len(es)
  <2>0. T \subseteq Int /\ T # {} /\ n \in Int /\ \A x \in T : x <= n
    BY <1>2, <1>3
  <2> HIDE DEF n
  <2>1. \E x \in T : \A y \in T : x >= y
    BY <2>0, GreatestNatural
  <2> QED BY <2>1 DEF Max
<1> HIDE DEF ks, rs, a
<1>4. ASSUME a.status = "OK" PROVE a.answerTo = call.first + i
  <2>1. ks # {} /\ CallStatus(es[Max(ks)].doc) = "OK"
    BY <1>4, <1>0
  <2>2. Max(ks) \in ks /\ Max(ks) \in 1 .. Len(es)
    BY <1>2, <1>3, <2>1
  <2>3. es[Max(ks)].doc.kind = "result"
    <3>1. es[Max(ks)].doc.kind \notin {"error", "empty"}
      BY <2>1, Judged
    <3> QED BY <3>1, <2>2, <1>1 DEF Entries, Plain, Doc
  <2>4. rs # {} /\ rs \subseteq ks
    BY <2>2, <2>3 DEF rs
  <2>5. Max(rs) \in ks /\ Max(rs) \in 1 .. Len(es)
    BY <2>4, <1>3, <1>2
  <2> QED BY <2>4, <2>5, <1>0, <1>2
<1>5. ASSUME NEW k \in 1 .. Len(es), es[k].id = call.first + i,
             \A j \in 1 .. Len(es) : es[j].id = es[k].id => j = k
      PROVE  a.status = CallStatus(es[k].doc)
  <2>1. k \in ks
    BY <1>5, <1>2
  <2>2. Max(ks) \in ks
    BY <2>1, <1>3
  <2>3. Max(ks) = k
    BY <2>2, <1>2, <1>5
  <2> QED BY <2>1, <2>3, <1>0
<1> QED BY <1>4, <1>5 DEF a

(* The end of a batch (rpc.c 469-526): a call is answered by the entry that   *)
(* has its id.                                                                *)
LEMMA BatchReplyKeeps ==
    ASSUME RpcInv, BatchReply
    PROVE  RpcInv'
<1> USE DEF BatchReply, Return, Status
<1>0. Parsed \in Docs /\ Len(response) = 1 /\ Parsed' = Parsed
  BY ParsedIsAnswer DEF Parsed
<1>1. /\ Parsed.kind = "result" => Parsed.batch \in Seq(Entries)
      /\ Parsed.kind # "result" => Parsed.kind \in {"garbage", "mistyped"}
  <2>1. Docs = {Plain("garbage"), Plain("mistyped")}
                 \cup {[Plain("result") EXCEPT !.batch = es] : es \in SeqOf(Entries, BatchSize)}
    BY DEF Docs
  <2>2. SeqOf(Entries, BatchSize) \subseteq Seq(Entries)
    BY ConstantsOK DEF SeqOf
  <2> QED BY <2>1, <2>2, <1>0 DEF Plain, Doc
<1>2. /\ pc' = "idle" /\ call.method = "batch" /\ call' = call
      /\ out'.status = IF Parsed.kind = "result" THEN "OK" ELSE "PARSE"
      /\ Parsed.kind = "result" => out'.answers = BatchAnswers(Parsed.batch)
  OBVIOUS
<1>3. TypeOK' /\ Shapes'
  BY <1>2 DEF RpcInv, TypeOK, Shapes, Statuses
<1>4. Rotation' /\ Answered' /\ Ranges' /\ ParseBlamesAnswer'
  BY <1>0, <1>1, <1>2 DEF Rotation, Asking, Answered, Ranges, ParseBlamesAnswer
<1>5. BatchMatched'
  <2>1. SUFFICES ASSUME Parsed.kind = "result" PROVE BatchMatched'
    BY <1>2 DEF BatchMatched
  <2>2. Parsed.batch \in Seq(Entries) /\ call.first \in Ids /\ out'.answers = BatchAnswers(Parsed.batch)
    BY <2>1, <1>1, <1>2 DEF RpcInv, TypeOK
  <2> QED BY <2>2, <1>0, <1>2, AnswersMatched DEF BatchMatched
<1> QED BY <1>3, <1>4, <1>5 DEF RpcInv

-----------------------------------------------------------------------------
(* The vector grows by ascending slots of the chunk, which are all above the  *)
(* ones before.                                                               *)
LEMMA Extended ==
    ASSUME NEW q \in Seq(Slots), NEW r \in Seq(Slots), Ascending(q), Ascending(r),
           \A x \in ToSet(q), y \in ToSet(r) : x < y
    PROVE  /\ q \o r \in Seq(Slots) /\ Ascending(q \o r)
           /\ ToSet(q \o r) = ToSet(q) \cup ToSet(r)
<1>1. /\ q \o r \in Seq(Slots) /\ Len(q \o r) = Len(q) + Len(r)
      /\ \A i \in 1 .. Len(q) + Len(r) :
            (q \o r)[i] = IF i <= Len(q) THEN q[i] ELSE r[i - Len(q)]
  BY ConcatProperties
<1> DEFINE c == q \o r
<1>0. /\ DOMAIN c = 1 .. Len(c) /\ DOMAIN q = 1 .. Len(q) /\ DOMAIN r = 1 .. Len(r)
      /\ Len(q) \in Nat /\ Len(r) \in Nat /\ Len(c) = Len(q) + Len(r)
  BY <1>1
<1> HIDE DEF c
<1>2. ASSUME NEW i \in 1 .. Len(c), NEW j \in 1 .. Len(c), i < j PROVE c[i] < c[j]
  <2>1. CASE j <= Len(q)
    BY <2>1, <1>1, <1>2 DEF Ascending, c
  <2>2. CASE i > Len(q)
    <3>1. i - Len(q) \in 1 .. Len(r) /\ j - Len(q) \in 1 .. Len(r) /\ i - Len(q) < j - Len(q)
      BY <2>2, <1>1, <1>2 DEF c
    <3>2. c[i] = r[i - Len(q)] /\ c[j] = r[j - Len(q)]
      BY <2>2, <1>1, <1>2 DEF c
    <3> QED BY <3>1, <3>2 DEF Ascending
  <2>3. CASE i <= Len(q) /\ j > Len(q)
    <3>1. i \in 1 .. Len(q) /\ j - Len(q) \in 1 .. Len(r)
      BY <2>3, <1>1 DEF c
    <3>2. c[i] = q[i] /\ c[j] = r[j - Len(q)]
      BY <2>3, <1>1 DEF c
    <3>3. q[i] \in ToSet(q) /\ r[j - Len(q)] \in ToSet(r)
      BY <3>1 DEF ToSet
    <3> QED BY <3>2, <3>3
  <2> QED BY <2>1, <2>2, <2>3, <1>1 DEF c
<1>3. ToSet(c) = ToSet(q) \cup ToSet(r)
  <2>1. ASSUME NEW x \in ToSet(c) PROVE x \in ToSet(q) \cup ToSet(r)
    <3>1. PICK i \in 1 .. Len(c) : c[i] = x
      BY <1>0 DEF ToSet
    <3>2. i <= Len(q) => i \in 1 .. Len(q) /\ x = q[i]
      BY <3>1, <1>1 DEF c
    <3>3. i > Len(q) => i - Len(q) \in 1 .. Len(r) /\ x = r[i - Len(q)]
      BY <3>1, <1>1 DEF c
    <3> QED BY <3>2, <3>3, <1>0 DEF ToSet
  <2>2. ASSUME NEW i \in 1 .. Len(q) PROVE q[i] \in ToSet(c)
    <3>1. i \in 1 .. Len(c) /\ c[i] = q[i]
      BY <1>1 DEF c
    <3> QED BY <3>1, <1>0 DEF ToSet
  <2>3. ASSUME NEW i \in 1 .. Len(r) PROVE r[i] \in ToSet(c)
    <3>1. Len(q) + i \in 1 .. Len(c) /\ c[Len(q) + i] = r[i]
      BY <1>1 DEF c
    <3> QED BY <3>1, <1>0 DEF ToSet
  <2> QED BY <2>1, <2>2, <2>3, <1>0 DEF ToSet
<1> QED BY <1>1, <1>2, <1>3 DEF c, Ascending

(* What a document with slots in it holds: an ascending part of what the      *)
(* endpoint has of the chunk, and all of it if the document is whole.         *)
LEMMA ChunkListed ==
    ASSUME RpcInv, NEW doc \in Docs, call.method = "getBlocks"
    PROVE  /\ doc.kind \in {"result", "cut"} =>
                 /\ doc.value \in Seq(Slots) /\ Ascending(doc.value)
                 /\ ToSet(doc.value) \subseteq Held(url, call.from, call.to)
           /\ doc.kind = "result" => ToSet(doc.value) = Held(url, call.from, call.to)
           /\ doc.kind \notin {"garbage", "error", "empty", "mistyped", "cut"} => doc.kind = "result"
<1> DEFINE all == Listing(url, call.from, call.to)
<1>0. call.from \in Slots /\ call.to \in Slots
  BY DEF RpcInv, Shapes, Calls
<1>1. all \in Seq(Slots) /\ Ascending(all) /\ ToSet(all) = Held(url, call.from, call.to)
  BY <1>0, ListingSorted
<1> HIDE DEF all
<1>2. doc \in BadDocs \cup ErrorDocs \cup {Plain("mistyped"), Doc("result", all)}
               \cup {Doc("cut", SubSeq(all, 1, n)) : n \in 0 .. Len(all) - 1}
  BY DEF Docs, all
<1>3. CASE doc \in BadDocs \cup ErrorDocs \cup {Plain("mistyped")}
  BY <1>3 DEF BadDocs, ErrorDocs, Plain, Doc
<1>4. CASE doc = Doc("result", all)
  BY <1>4, <1>1 DEF Doc
<1>5. ASSUME NEW n \in 0 .. Len(all) - 1, doc = Doc("cut", SubSeq(all, 1, n))
      PROVE  /\ doc.value \in Seq(Slots) /\ Ascending(doc.value) /\ doc.kind = "cut"
             /\ ToSet(doc.value) \subseteq Held(url, call.from, call.to)
  <2> DEFINE v == SubSeq(all, 1, n)
  <2>1. doc.value = v /\ doc.kind = "cut" /\ n \in Nat /\ n <= Len(all)
    BY <1>5, <1>1 DEF Doc
  <2>2. v \in Seq(Slots) /\ Len(v) = n /\ \A i \in 1 .. n : v[i] = all[i]
    BY <2>1, <1>1, SubSeqProperties
  <2> HIDE DEF v
  <2>3. Ascending(v) /\ ToSet(v) \subseteq ToSet(all)
    BY <2>1, <2>2, <1>1 DEF Ascending, ToSet
  <2> QED BY <2>1, <2>2, <2>3, <1>1
<1> QED BY <1>2, <1>3, <1>4, <1>5

(* The end of a chunk, and the beginning of the next (rpc.c 640-675).         *)
LEMMA BlocksReplyKeeps ==
    ASSUME RpcInv, BlocksReply
    PROVE  RpcInv'
<1> USE DEF BlocksReply
<1> DEFINE doc == Parsed
           status == IF doc.kind = "cut" THEN "PARSE" ELSE WrapperStatus(doc)
<1>0. /\ doc \in Docs /\ Len(response) = 1 /\ pc = "reply" /\ call.method = "getBlocks"
      /\ url' = url
  BY ParsedIsAnswer
<1>1. /\ status \in {"OK", "NOT_FOUND", "REMOTE", "PARSE"}
      /\ status = "PARSE" => doc.kind \in {"garbage", "empty", "mistyped", "cut"}
      /\ status = "OK" => doc.kind = "result"
  BY <1>0, Judged, ChunkListed
<1>2. /\ slots' = IF doc.kind \in {"result", "cut"} THEN slots \o doc.value ELSE slots
      /\ IF status # "OK" \/ call.to = call.end
         THEN /\ Return(Status(status))
              /\ UNCHANGED <<nextId, response, call, attempt, tried>>
         ELSE /\ Send(Request("getBlocks", Chunk(call.start, call.end, call.to + 1)), 1)
              /\ UNCHANGED out
  OBVIOUS
<1> HIDE DEF doc, status, BlocksReply
<1>3. /\ call \in Calls /\ call.start \in Nat /\ call.from \in Nat /\ call.to \in Nat
      /\ call.end \in Nat /\ MaxSlot \in Nat /\ call.end <= MaxSlot
      /\ call.start <= call.from /\ call.from <= call.to /\ call.to <= call.end
      /\ slots \in Seq(Slots)
  BY <1>0, ConstantsOK DEF RpcInv, Shapes, Calls, Slots
<1>4. /\ Ascending(slots) /\ ToSet(slots) \subseteq Chain \cap (call.start .. call.from - 1)
      /\ Complete(call.from - 1)
  BY <1>0 DEF RpcInv, Ranges, Listed
<1>5. /\ slots' \in Seq(Slots) /\ Ascending(slots')
      /\ ToSet(slots') \subseteq Chain \cap (call.start .. call.to)
      /\ ToSet(slots) \subseteq ToSet(slots')
      /\ doc.kind = "result" => Held(url, call.from, call.to) \subseteq ToSet(slots')
  <2>1. CASE doc.kind \in {"result", "cut"}
    <3> DEFINE v == doc.value
    <3>1. /\ v \in Seq(Slots) /\ Ascending(v)
          /\ ToSet(v) \subseteq Held(url, call.from, call.to)
          /\ doc.kind = "result" => ToSet(v) = Held(url, call.from, call.to)
      BY <2>1, <1>0, ChunkListed
    <3>2. Held(url, call.from, call.to) \subseteq Chain \cap (call.from .. call.to)
      BY DEF Held
    <3> HIDE DEF v
    <3>3. \A x \in ToSet(slots), y \in ToSet(v) : x < y
      BY <3>1, <3>2, <1>3, <1>4
    <3>4. slots' = slots \o v
      BY <2>1, <1>2 DEF v
    <3>5. /\ slots' \in Seq(Slots) /\ Ascending(slots')
          /\ ToSet(slots') = ToSet(slots) \cup ToSet(v)
      BY <3>1, <3>3, <3>4, <1>3, <1>4, Extended
    <3> QED BY <3>1, <3>2, <3>5, <1>3, <1>4
  <2>2. CASE doc.kind \notin {"result", "cut"}
    BY <2>2, <1>2, <1>3, <1>4
  <2> QED BY <2>1, <2>2
<1>6. ASSUME status = "OK", NEW s \in Chain \cap (call.start .. call.to), \A u \in Urls : s <= Tip[u]
      PROVE  s \in ToSet(slots')
  <2>1. CASE s <= call.from - 1
    BY <2>1, <1>3, <1>4, <1>5, <1>6 DEF Complete
  <2>2. CASE s > call.from - 1
    <3>1. url \in Urls /\ s \in call.from .. call.to
      BY <2>2, <1>3 DEF RpcInv, TypeOK
    <3>2. s \in Held(url, call.from, call.to)
      BY <3>1, <1>6 DEF Held
    <3> QED BY <3>2, <1>1, <1>5, <1>6
  <2> QED BY <2>1, <2>2, <1>3
<1>7. CASE status # "OK" \/ call.to = call.end
  <2>1. /\ pc' = "idle" /\ out'.status = status
        /\ UNCHANGED <<nextId, response, call, attempt, tried>>
    BY <1>7, <1>2 DEF Return, Status
  <2>2. TypeOK' /\ Shapes'
    <3>1. \A i \in 1 .. Len(slots') : slots'[i] \in Slots
      BY <1>5, ElementOfSeq
    <3>2. status \in Statuses
      BY <1>1 DEF Statuses
    <3> QED BY <3>1, <3>2, <2>1, <1>0, <1>5 DEF RpcInv, TypeOK, Shapes
  <2>3. Rotation' /\ Answered' /\ BatchMatched'
    BY <2>1, <1>0, <1>1 DEF Rotation, Asking, Answered, BatchMatched
  <2>4. ParseBlamesAnswer'
    BY <2>1, <1>0, <1>1 DEF ParseBlamesAnswer, doc, Parsed
  <2>5. Ranges'
    <3>1. Listed(call.to)'
      BY <2>1, <1>5 DEF Listed
    <3>2. Complete(call.from - 1)'
      BY <2>1, <1>4, <1>5 DEF Complete
    <3>3. status = "OK" => Complete(call.end)'
      BY <2>1, <1>6, <1>7 DEF Complete
    <3> QED BY <3>1, <3>2, <3>3, <2>1 DEF Ranges
  <2> QED BY <2>2, <2>3, <2>4, <2>5 DEF RpcInv
<1>8. CASE ~(status # "OK" \/ call.to = call.end)
  <2> DEFINE request == Request("getBlocks", Chunk(call.start, call.end, call.to + 1))
             to == ChunkEnd(call.to + 1, call.end)
  <2>1. call.to + 1 \in Slots /\ call.to + 1 <= call.end /\ call.end \in Slots
    BY <1>8, <1>3 DEF Slots
  <2>2. to \in Slots /\ call.to + 1 <= to /\ to <= call.end
    BY <2>1, ChunkFits
  <2>3. /\ request \in Calls /\ request.start = call.start /\ request.from = call.to + 1
        /\ request.to = to /\ request.end = call.end /\ request.method = "getBlocks"
    BY <2>1, <2>2, <1>3 DEF Request, Chunk, Calls, RpcInv, TypeOK
  <2> HIDE DEF request, to
  <2>4. Send(request, 1) /\ out' = out
    BY <1>2, <1>8 DEF request
  <2>5. TypeOK' /\ Rotation' /\ Answered' /\ ParseBlamesAnswer' /\ BatchMatched'
    BY <1>0, <1>5, <2>3, <2>4, SendKeeps DEF RpcInv, TypeOK
  <2>6. call' = request /\ pc' = "send"
    BY <2>4 DEF Send
  <2>7. Shapes'
    BY <1>3, <1>5, <2>1, <2>2, <2>3, <2>6 DEF Shapes, Slots
  <2>8. Ranges'
    <3>1. call'.from - 1 = call.to /\ call'.start = call.start
      BY <1>3, <2>3, <2>6
    <3>2. Listed(call.from - 1)'
      BY <3>1, <1>5 DEF Listed
    <3>a. Complete(call.from - 1)'
      BY <3>1, <1>6, <1>8 DEF Complete
    <3> QED BY <3>2, <3>a, <2>6 DEF Ranges
  <2> QED BY <2>5, <2>7, <2>8 DEF RpcInv
<1> QED BY <1>7, <1>8

-----------------------------------------------------------------------------
(* Every step of the client preserves the invariant. *)
LEMMA RpcStep == RpcInv /\ [Next]_vars => RpcInv'
<1> SUFFICES ASSUME RpcInv, [Next]_vars PROVE RpcInv'
  OBVIOUS
<1>1. CASE UNCHANGED vars
  <2>1. Docs' = Docs /\ Parsed' = Parsed
    BY <1>1, DocsStay DEF vars, Parsed
  <2> QED
    BY <1>1, <2>1 DEF vars, RpcInv, TypeOK, Shapes, Rotation, Asking, Behind, Answered, Ranges,
       Listed, Complete, ParseBlamesAnswer, BatchMatched
<1>2. CASE Begin
  BY <1>2, CallKeeps, GetBlocksKeeps, BatchKeeps DEF Begin
<1>3. CASE Progress
  BY <1>3, AttemptKeeps, CallReplyKeeps, BlocksReplyKeeps, BatchReplyKeeps DEF Progress
<1> QED BY <1>1, <1>2, <1>3 DEF Next

(* The invariant holds in every reachable state of the client. *)
THEOREM RpcInvariant == Spec => []RpcInv
  BY RpcInitially, RpcStep, PTL DEF Spec

(* rpc.c 366-373: with any number of endpoints, and wherever the rotation     *)
(* stands when a call begins, a call that has at least as many attempts as    *)
(* there are endpoints gives up only after each of them was asked.            *)
THEOREM RpcEveryoneAsked == Spec => []EveryoneAsked
<1>1. ASSUME RpcInv PROVE EveryoneAsked
  <2> SUFFICES ASSUME pc = "idle", out.status = "NETWORK", Attempts >= Endpoints,
                      NEW u \in Urls
               PROVE  u \in tried
    BY <1>1 DEF EveryoneAsked, RpcInv, TypeOK
  <2>1. attempt = Attempts /\ Attempts \in Nat /\ url \in Urls
    BY <1>1, ConstantsOK DEF RpcInv, TypeOK, Rotation, Asking, Attempts
  <2>2. Behind(u) <= attempt
    BY <2>1, ConstantsOK DEF Behind, Urls
  <2> QED BY <2>2, <1>1 DEF RpcInv, Rotation, Asking
<1> QED BY <1>1, RpcInvariant, PTL

(* rpc.c 258 and 404: a call reports a malformed response only for the one    *)
(* document that its last round trip received.                                *)
THEOREM RpcParseBlamesAnswer == Spec => []ParseBlamesAnswer
<1>1. RpcInv => ParseBlamesAnswer
  BY DEF RpcInv
<1> QED BY <1>1, RpcInvariant, PTL

(* rpc.c 605-675: for every range, every limit on the length of a chunk and   *)
(* every chain, getBlocks pushes ascending slots of the range, each once, and *)
(* leaves out none that all endpoints have of the chunks that are done.       *)
THEOREM RpcBlocksExact == Spec => []BlocksExact
<1>1. ASSUME RpcInv PROVE BlocksExact
  <2> SUFFICES ASSUME call.method = "getBlocks", pc = "idle" => out.status # "RANGE"
               PROVE  BlocksExact
    BY DEF BlocksExact
  <2>1. /\ call.start \in Nat /\ call.from \in Nat /\ call.to \in Nat /\ call.end \in Nat
        /\ call.start <= call.from /\ call.from <= call.to /\ call.to <= call.end
    BY <1>1, ConstantsOK DEF RpcInv, Shapes, Calls, Slots
  <2>2. /\ Listed(call.to) /\ Complete(call.from - 1)
        /\ pc = "idle" /\ out.status = "OK" => Complete(call.end)
    <3>1. CASE pc = "idle"
      BY <3>1, <1>1 DEF RpcInv, Ranges
    <3>2. CASE pc # "idle"
      <4>1. Listed(call.from - 1) /\ Complete(call.from - 1)
        BY <3>2, <1>1 DEF RpcInv, Ranges
      <4> QED BY <4>1, <3>2, <2>1 DEF Listed
    <3> QED BY <3>1, <3>2
  <2> DEFINE done == IF pc = "idle" /\ out.status = "OK" THEN call.end ELSE call.from - 1
  <2>4. Complete(done)
    BY <2>2
  <2> HIDE DEF done
  <2>5. /\ Ascending(slots) /\ ToSet(slots) \subseteq Chain \cap (call.start .. call.to)
        /\ \A s \in Chain \cap (call.start .. done) :
              (\A u \in Urls : s <= Tip[u]) => s \in ToSet(slots)
    BY <2>2, <2>4 DEF Listed, Complete
  <2> QED BY <2>5 DEF BlocksExact, done
<1> QED BY <1>1, RpcInvariant, PTL

(* rpc.c 450-523: for batches of every length, ids that may wrap included, an *)
(* answered call has its own answer.                                          *)
THEOREM RpcBatchMatched == Spec => []BatchMatched
<1>1. RpcInv => BatchMatched
  BY DEF RpcInv
<1> QED BY <1>1, RpcInvariant, PTL
=============================================================================
