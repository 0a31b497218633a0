-------------------------------- MODULE Rpc --------------------------------
(* The JSON-RPC client, rpc.c.  A client belongs to one thread, so a step is   *)
(* one HTTP round trip with everything the code does before the next one:      *)
(* Attempt is a turn of the loop of send_with_retries, Reply the handling of   *)
(* the document that came back.  The endpoints and the network are external:   *)
(* any round trip may fail, be refused or be answered with any document the    *)
(* client tells apart.  The statistics, which nothing in the client reads,     *)
(* are left out.  What an endpoint says of the chain is true as far as it has  *)
(* the chain: Tip differs from endpoint to endpoint.                           *)
EXTENDS Integers, Sequences, FiniteSets, SequencesExt

CONSTANTS
    Endpoints,     \* options.url_count
    MaxAttempts,   \* options.max_attempts, may be zero
    RangeLimit,    \* options.blocks_range_limit, zero for the default
    DefaultRange,  \* IDX_RPC_DEFAULT_BLOCKS_RANGE
    MaxSlot,       \* the largest slot a uint64_t holds
    Word,          \* ids are kept modulo Word
    Chain,         \* the slots that have a confirmed block
    Tip,           \* Tip[u]: the last slot endpoint u has
    BatchSize      \* calls in a batch

ASSUME ConstantsOK ==
    /\ Endpoints \in Nat \ {0} /\ MaxAttempts \in Nat /\ RangeLimit \in Nat
    /\ DefaultRange \in Nat \ {0} /\ MaxSlot \in Nat /\ BatchSize \in Nat \ {0}
    /\ Word \in Nat /\ Word > BatchSize
    /\ Chain \subseteq 0 .. MaxSlot
    /\ Tip \in [0 .. Endpoints - 1 -> 0 .. MaxSlot]

VARIABLES
    url,       \* current_url
    nextId,    \* next_id
    response,  \* the response buffer: what the round trips appended to it
    call,      \* the call in progress, or the last one
    pc,        \* "idle", "send" in send_with_retries, "reply" after it
    attempt,
    slots,     \* the vector getBlocks pushes to
    out,       \* what the last call returned; OK until it has
    tried      \* endpoints this send_with_retries has asked

vars == <<url, nextId, response, call, pc, attempt, slots, out, tried>>

Urls == 0 .. Endpoints - 1
Slots == 0 .. MaxSlot
Ids == 0 .. Word - 1
Methods == {"getSlot", "getHealth", "getBlock"}

Attempts == IF MaxAttempts < 1 THEN 1 ELSE MaxAttempts
Limit == IF RangeLimit = 0 THEN DefaultRange ELSE RangeLimit

(***************************************************************************)
(* What an endpoint may answer (external).  "garbage" does not parse;      *)
(* "empty" has neither an error nor a result; "mistyped" has a result of   *)
(* the wrong type, "unhealthy" one of the wrong text; "cut" is a list of   *)
(* slots with an entry that is no number; "page" is the body of a refusal; *)
(* "part" a body that broke off.                                           *)
(***************************************************************************)
Doc(kind, value) == [kind |-> kind, value |-> value, batch |-> <<>>]
Plain(kind) == Doc(kind, <<>>)

ErrorDocs == {Doc("error", <<c>>) : c \in {-32007, -32004, -32009, -32000}}
BadDocs == {Plain("garbage"), Plain("empty")}

Held(u, from, to) == {s \in Chain \cap (from .. to) : s <= Tip[u]}

Ascending(q) == \A i, j \in 1 .. Len(q) : i < j => q[i] < q[j]

Listing(u, from, to) ==
    LET held == Held(u, from, to)
    IN  CHOOSE q \in [1 .. Cardinality(held) -> held] : Ascending(q) /\ ToSet(q) = held

Entries ==
    [id : Ids, doc : {Plain("empty"), Doc("error", <<-32007>>), Doc("error", <<-32000>>),
                      Plain("result")}]

Docs ==
    CASE call.method = "getSlot" ->
            BadDocs \cup ErrorDocs \cup {Plain("mistyped"), Plain("result")}
      [] call.method = "getHealth" ->
            BadDocs \cup ErrorDocs
              \cup {Plain("mistyped"), Plain("result"), Plain("unhealthy")}
      [] call.method = "getBlock" ->
            BadDocs \cup ErrorDocs \cup {Plain("result")}
      [] call.method = "getBlocks" ->
            LET all == Listing(url, call.from, call.to)
            IN  BadDocs \cup ErrorDocs \cup {Plain("mistyped"), Doc("result", all)}
                  \cup {Doc("cut", SubSeq(all, 1, n)) : n \in 0 .. Len(all) - 1}
      [] call.method = "batch" ->
            {Plain("garbage"), Plain("mistyped")}
              \cup {[Plain("result") EXCEPT !.batch = es] : es \in SeqOf(Entries, BatchSize)}

-----------------------------------------------------------------------------
(* SENDING *)

(* perform clears the buffer before the bytes of a round trip come in. *)
NotCleared(body) == Append(response, body)
Received(body) == <<body>>

(* What idx_json_parse makes of the buffer. *)
Parsed == IF Len(response) = 1 THEN response[1] ELSE Plain("garbage")

(* Every way out of a call: the caller gets its status and what goes with it. *)
Return(result) == out' = result /\ pc' = "idle"
Status(status) == [status |-> status, answers |-> <<>>]

Http200(doc) ==
    /\ response' = Received(doc)
    /\ pc' = "reply"
    /\ UNCHANGED <<url, attempt, out>>

Refused ==
    /\ response' = Received(Plain("page"))
    /\ Return(Status("REMOTE"))
    /\ UNCHANGED <<url, attempt>>

StaysPut == url
Rotated == IF Endpoints < 2 THEN url ELSE (url + 1) % Endpoints

(* A transport failure, 429 or 5xx: somewhere else next time, if there is a   *)
(* somewhere else and a next time.                                            *)
Transient(body) ==
    /\ response' = Received(body)
    /\ url' = Rotated
    /\ attempt' = attempt + 1
    /\ IF attempt + 1 < Attempts
       THEN UNCHANGED <<pc, out>>
       ELSE Return(Status("NETWORK"))

(* A rate limit is not counted as an attempt. *)
AttemptsForever ==
    /\ pc = "send"
    /\ \/ \E doc \in Docs : Http200(doc)
       \/ Refused
       \/ Transient(Plain("part"))
       \/ /\ response' = Received(Plain("page"))
          /\ url' = Rotated
          /\ UNCHANGED <<attempt, pc, out>>
    /\ tried' = tried \cup {url}
    /\ UNCHANGED <<nextId, call, slots>>

Attempt ==
    /\ pc = "send"
    /\ \/ \E doc \in Docs : Http200(doc)
       \/ Refused
       \/ Transient(Plain("part"))
       \/ Transient(Plain("page"))
    /\ tried' = tried \cup {url}
    /\ UNCHANGED <<nextId, call, slots>>

(* The state of a request that is about to be sent.  What is in the response  *)
(* buffer stays there; which document it was no longer matters.               *)
Send(request, count) ==
    /\ call' = request
    /\ response' = IF response = <<>> THEN <<>> ELSE <<Plain("old")>>
    /\ nextId' = (nextId + count) % Word
    /\ pc' = "send"
    /\ attempt' = 0
    /\ tried' = {}

-----------------------------------------------------------------------------
(* SINGLE CALLS *)

NoRange == [start |-> 0, end |-> 0, from |-> 0, to |-> 0]
Request(method, range) ==
    [method |-> method, first |-> nextId, start |-> range.start, end |-> range.end,
     from |-> range.from, to |-> range.to]

Call(method) ==
    /\ pc = "idle"
    /\ Send(Request(method, NoRange), 1)
    /\ slots' = <<>> /\ out' = Status("OK")
    /\ UNCHANGED url

(* An error object's code. *)
Classify(code) == IF code \in {-32007, -32004, -32009} THEN "NOT_FOUND" ELSE "REMOTE"

(* idx_rpc_call, after the document arrived. *)
CallStatus(doc) ==
    CASE doc.kind = "garbage" -> "PARSE"
      [] doc.kind = "error" -> Classify(doc.value[1])
      [] doc.kind = "empty" -> "PARSE"
      [] OTHER -> "OK"

(* call_for_u64 and idx_rpc_get_health look at the result as well. *)
WrapperStatus(doc) ==
    CASE CallStatus(doc) # "OK" -> CallStatus(doc)
      [] doc.kind = "mistyped" -> "PARSE"
      [] doc.kind = "unhealthy" -> "REMOTE"
      [] OTHER -> "OK"

CallReply ==
    /\ pc = "reply" /\ call.method \in Methods
    /\ Return(Status(WrapperStatus(Parsed)))
    /\ UNCHANGED <<url, nextId, response, call, attempt, slots, tried>>

-----------------------------------------------------------------------------
(* RANGES *)

(* The end of the chunk that begins at from, inside start .. end. *)
ChunkEndWraps(from, end) ==
    LET to == (from + Limit - 1) % (MaxSlot + 1) IN IF to < end THEN to ELSE end
ChunkEnd(from, end) == IF end - from >= Limit THEN from + Limit - 1 ELSE end

Chunk(start, end, from) ==
    [start |-> start, end |-> end, from |-> from, to |-> ChunkEnd(from, end)]

GetBlocks(start, end) ==
    /\ pc = "idle"
    /\ slots' = <<>>
    /\ IF end < start
       THEN /\ Return(Status("RANGE"))
            /\ UNCHANGED <<nextId, response, call, attempt, tried>>
       ELSE /\ Send(Request("getBlocks", Chunk(start, end, start)), 1)
            /\ out' = Status("OK")
    /\ UNCHANGED url

BlocksReply ==
    /\ pc = "reply" /\ call.method = "getBlocks"
    /\ LET doc == Parsed
           status == IF doc.kind = "cut" THEN "PARSE" ELSE WrapperStatus(doc)
       IN  /\ slots' = IF doc.kind \in {"result", "cut"} THEN slots \o doc.value ELSE slots
           /\ IF status # "OK" \/ call.to = call.end
              THEN /\ Return(Status(status))
                   /\ UNCHANGED <<nextId, response, call, attempt, tried>>
              ELSE /\ Send(Request("getBlocks", Chunk(call.start, call.end, call.to + 1)), 1)
                   /\ UNCHANGED out
    /\ UNCHANGED url

-----------------------------------------------------------------------------
(* BATCHES *)

Batch ==
    /\ pc = "idle"
    /\ Send(Request("batch", NoRange), BatchSize)
    /\ slots' = <<>> /\ out' = Status("OK")
    /\ UNCHANGED url

(* The entries that carry the id of the batch's i-th call, 0 the first. *)
ByPosition(es, i) == {i + 1} \cap (1 .. Len(es))
Answering(es, i) == {k \in 1 .. Len(es) : es[k].id >= call.first /\ es[k].id - call.first = i}

(* Each call has the status of its last answer, and the result of its last    *)
(* answer with a result; the result is the one meant for the id it came under. *)
BatchAnswers(es) ==
    [i \in 0 .. BatchSize - 1 |->
        LET ks == Answering(es, i)
            rs == {k \in ks : es[k].doc.kind = "result"}
        IN  [status |-> IF ks = {} THEN "NOT_FOUND" ELSE CallStatus(es[Max(ks)].doc),
             answerTo |-> IF rs = {} THEN -1 ELSE es[Max(rs)].id]]

BatchReply ==
    /\ pc = "reply" /\ call.method = "batch"
    /\ LET doc == Parsed
       IN  Return(IF doc.kind = "result"
                  THEN [status |-> "OK", answers |-> BatchAnswers(doc.batch)]
                  ELSE Status("PARSE"))
    /\ UNCHANGED <<url, nextId, response, call, attempt, slots, tried>>

-----------------------------------------------------------------------------
Init ==
    /\ url = 0
    /\ nextId = 1
    /\ response = <<>>
    /\ call = [method |-> "getHealth", first |-> 0, start |-> 0, end |-> 0, from |-> 0, to |-> 0]
    /\ pc = "idle"
    /\ attempt = 0
    /\ slots = <<>>
    /\ out = Status("OK")
    /\ tried = {}

Begin ==
    \/ \E method \in Methods : Call(method)
    \/ \E start, end \in Slots : GetBlocks(start, end)
    \/ Batch

Progress == Attempt \/ CallReply \/ BlocksReply \/ BatchReply

Next == Begin \/ Progress
Spec == Init /\ [][Next]_vars

(* curl ends every round trip, by its timeouts if not otherwise, and the      *)
(* thread that called goes on.                                                *)
FairSpec == Spec /\ WF_vars(Progress)

-----------------------------------------------------------------------------
(* PROPERTIES *)

Statuses == {"OK", "NOT_FOUND", "REMOTE", "NETWORK", "PARSE", "RANGE"}

(* idx_rpc keeps to one endpoint of its list, and send_with_retries (336) to  *)
(* the attempts it may make.                                                  *)
TypeOK ==
    /\ url \in Urls /\ nextId \in Ids
    /\ pc \in {"idle", "send", "reply"}
    /\ attempt \in 0 .. Attempts /\ (pc = "send" => attempt < Attempts)
    /\ call.method \in Methods \cup {"getBlocks", "batch"} /\ call.first \in Ids
    /\ {call.start, call.end, call.from, call.to} \subseteq Slots
    /\ \A i \in 1 .. Len(slots) : slots[i] \in Slots
    /\ out.status \in Statuses
    /\ tried \subseteq Urls

(* rpc.c 366-373, rpc.h 87: a call gives up with IDX_ERR_NETWORK only after   *)
(* every endpoint has failed it, if there are attempts enough to ask them     *)
(* all, wherever the calls before it left the rotation.                       *)
EveryoneAsked ==
    pc = "idle" /\ out.status = "NETWORK" /\ Attempts >= Endpoints => tried = Urls

(* rpc.c 258 and 404: the client calls a response malformed only when the     *)
(* endpoint's last document was; what a failed attempt left in the buffer it  *)
(* reuses never spoils the answer to a later one.                             *)
ParseBlamesAnswer ==
    pc = "idle" /\ out.status = "PARSE" =>
        Parsed.kind \in {"garbage", "empty", "mistyped", "cut"} /\ Len(response) = 1

(* rpc.c 605-675: however the range is cut into chunks and whichever          *)
(* endpoints answer them, the slots come once and in ascending order, and     *)
(* none is missing of a chunk that is done, up to the slots all endpoints     *)
(* have: also when the range ends with the largest slot there is, and when    *)
(* getBlocks fails half way and leaves the chunks before in the vector.       *)
BlocksExact ==
    call.method = "getBlocks" /\ (pc = "idle" => out.status # "RANGE") =>
        LET listed == ToSet(slots)
            done == IF pc = "idle" /\ out.status = "OK" THEN call.end ELSE call.from - 1
        IN  /\ Ascending(slots)
            /\ listed \subseteq Chain \cap (call.start .. call.to)
            /\ \A s \in Chain \cap (call.start .. done) :
                  (\A u \in Urls : s <= Tip[u]) => s \in listed

(* rpc.c 450-523: whatever order the answers of a batch come in, also with    *)
(* one answered twice or under an id that is not the batch's, a call that is  *)
(* reported answered has the result that was meant for it, and a call that    *)
(* was answered once, within the ids of the batch, has that answer's status.  *)
BatchMatched ==
    pc = "idle" /\ call.method = "batch" /\ out.status = "OK" =>
        LET es == Parsed.batch IN
        \A i \in 0 .. BatchSize - 1 :
            /\ out.answers[i].status = "OK" => out.answers[i].answerTo = call.first + i
            /\ \A k \in 1 .. Len(es) :
                  (es[k].id = call.first + i /\ \A j \in 1 .. Len(es) : es[j].id = es[k].id => j = k)
                    => out.answers[i].status = CallStatus(es[k].doc)

(* rpc.c 336 and 665-673: every call returns, after a bounded number of       *)
(* attempts for each chunk and a bounded number of chunks.                    *)
CallReturns == pc # "idle" ~> pc = "idle"
=============================================================================
